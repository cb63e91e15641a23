----------------------------- MODULE WebServer -----------------------------
(***************************************************************************)
(* The virtual files that libupnp serves for the program (webserver.c):    *)
(* the list of registered files, and one open file with its position.  An  *)
(* open file shares nothing but the list with another, so one is enough.   *)
(* A file is the sequence of its bytes.                                    *)
(***************************************************************************)
EXTENDS Integers, Sequences

CONSTANTS Content,     \* [name -> bytes] of all that can be registered
          NotOpen,     \* no file is open
          Buffers,     \* lengths libupnp reads at a time
          Offsets      \* offsets it seeks by

VARIABLES virtualFiles,   \* names that are registered
          file            \* the open file

webVars == <<virtualFiles, file>>

ASSUME WebAssumption == /\ \A n \in DOMAIN Content : Content[n] \in Seq(Int)
                        /\ Buffers \subseteq Nat /\ Offsets \subseteq Int

IsOpen == file # NotOpen
Length == Len(Content[file.name])

Minimum(a, b) == IF a < b THEN a ELSE b

-----------------------------------------------------------------------------
WebInit == virtualFiles = {} /\ file = NotOpen

(* webserver_register_buf and webserver_register_file *)
Register(names) == virtualFiles' = virtualFiles \cup names /\ UNCHANGED file

(* webserver_get_info, then webserver_open: both look the name up.  got is *)
(* history: what was read since the last seek.                             *)
Open(name) ==
  /\ ~IsOpen /\ name \in virtualFiles
  /\ file' = [name |-> name, pos |-> 0, got |-> <<>>]
  /\ UNCHANGED virtualFiles

(* Faulty: the length that is left is not looked at. *)
ReadBuffer(buflen) ==
  /\ IsOpen
  /\ file' = [file EXCEPT !.got = @ \o SubSeq(Content[file.name], file.pos + 1,
                                              Minimum(file.pos + buflen, Length)),
                          !.pos = @ + buflen]
  /\ UNCHANGED virtualFiles

(* webserver_read *)
Read(buflen) ==
  LET len == Minimum(buflen, Length - file.pos)
  IN  /\ IsOpen
      /\ file' = [file EXCEPT !.got = @ \o SubSeq(Content[file.name], file.pos + 1, file.pos + len),
                              !.pos = @ + len]
      /\ UNCHANGED virtualFiles

(* webserver_seek: a position outside of the file is refused *)
Seek(origin, offset) ==
  LET newpos == offset + CASE origin = "SEEK_SET" -> 0
                           [] origin = "SEEK_CUR" -> file.pos
                           [] origin = "SEEK_END" -> Length
  IN  /\ IsOpen /\ newpos \in 0 .. Length
      /\ file' = [file EXCEPT !.pos = newpos, !.got = <<>>]
      /\ UNCHANGED virtualFiles

(* webserver_close *)
Close == IsOpen /\ file' = NotOpen /\ UNCHANGED virtualFiles

WebSteps == \/ \E name \in DOMAIN Content : Open(name)
            \/ \E buflen \in Buffers : Read(buflen)
            \/ \E origin \in {"SEEK_SET", "SEEK_CUR", "SEEK_END"}, offset \in Offsets :
                 Seek(origin, offset)
            \/ Close

-----------------------------------------------------------------------------
(* Any sequence of reads and seeks stays inside the file, and what was     *)
(* read since the last seek is that part of the file: memcpy in            *)
(* webserver_read copies from contents + pos without a look at pos.        *)
ReadsGiveTheFile ==
  IsOpen => /\ file.pos \in 0 .. Length
            /\ file.got = SubSeq(Content[file.name], file.pos - Len(file.got) + 1, file.pos)
=============================================================================
