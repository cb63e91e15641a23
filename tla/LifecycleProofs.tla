-------------------------- MODULE LifecycleProofs --------------------------
(***************************************************************************)
(* Proofs about Lifecycle, for any number of variables, requests, retries  *)
(* and files.  The program implements Startup, so that what is proved of   *)
(* one service's start holds in the whole program; and LifeInv ties the    *)
(* steps of the set-up to what may already be under way.                   *)
(***************************************************************************)
EXTENDS Lifecycle, StartupProofs, SequenceTheorems

Early == {"output", "port", "types", "files"}
Late == {"library", "services", "handlers", "loop", "finish"}

LifeInv ==
  /\ main \in Early \cup Late \cup {"exited"}
  /\ setUp \in 0 .. 6
  /\ main \in Early => setUp = 0
  /\ main = "library" => setUp < 6
  /\ main \in Late => Scpds \subseteq virtualFiles
  /\ main \in Late \cup {"files"} => types # {}
  /\ main = "exited" => setUp = 0
  /\ setUp < 5 => inAction = {}
  /\ setUp < 4 => file = NotOpen

-----------------------------------------------------------------------------
(* The order of the set-up: who is registered has callbacks and a          *)
(* directory.                                                              *)
LEMMA SetUpOrder ==
  ASSUME setUp \in 0 .. 6
  PROVE  /\ Succeeded("RegisterRootDevice") => setUp >= 5
         /\ Succeeded("AddVirtualDir") => setUp >= 4
         /\ setUp >= 5 => Succeeded("SetCallbacks") /\ Succeeded("AddVirtualDir")
BY DEF Succeeded, SetUp

(* A step of the program is a step of Startup, or none. *)
LEMMA StepImplements == LifecycleNext => [Next]_vars
<1> SUFFICES ASSUME LifecycleNext
             PROVE  [Next]_vars
  OBVIOUS
<1>1. CASE MainProgram
  <2>1. CASE StartService
    BY <2>1 DEF StartService, Next
  <2>2. CASE ServiceRests
    BY <2>2 DEF ServiceRests
  <2> QED
    BY <1>1, <2>1, <2>2 DEF MainProgram, OutputInit, CheckPort, InitTypes, RegisterFiles,
       StepSucceeds, StepFails, Retry, InstallHandlers, RunLoop, LeaveLoop, FinishLibrary
<1>2. CASE ExitLoopSighandler
  BY <1>2 DEF ExitLoopSighandler, ServiceRests
<1>3. CASE RequestBegins \/ RequestGoesOn
  BY <1>3 DEF RequestBegins, RequestGoesOn, Next
<1>4. CASE FileRequest
  BY <1>4 DEF FileRequest, ServiceRests
<1> QED
  BY <1>1, <1>2, <1>3, <1>4 DEF LifecycleNext

(* The whole program implements the start of one service: all that         *)
(* StartupProofs shows holds while main goes through its phases.           *)
THEOREM ImplementsStartup == LifecycleSpec => Spec
<1>1. LifecycleInit => Init
  BY DEF LifecycleInit
<1>2. [LifecycleNext]_allVars => [Next]_vars
  BY StepImplements DEF allVars
<1> QED
  BY <1>1, <1>2, PTL DEF LifecycleSpec, Spec

(* However the start of the program and requests interleave, LastChange is *)
(* never silenced, and only requests before service->last_change is set    *)
(* can do harm.                                                            *)
THEOREM ProgramNeverSilences == LifecycleSpec => [](NeverSilenced /\ LateRequestsAreSafe)
BY ImplementsStartup, StartNeverSilences, OnlyEarlyRequestsHarm, PTL

-----------------------------------------------------------------------------
(* The set-up and what is under way. *)

LEMMA LifeInvHoldsAtStart == LifecycleInit => LifeInv
BY SMT DEF LifecycleInit, Init, WebInit, LifeInv, Early, Late

LEMMA LifeInvIsKept == LifeInv /\ [LifecycleNext]_allVars => LifeInv'
<1> SUFFICES ASSUME LifeInv, [LifecycleNext]_allVars
             PROVE  LifeInv'
  OBVIOUS
<1> USE DEF LifeInv, Early, Late
<1>1. CASE OutputInit
  BY <1>1 DEF OutputInit, ServiceRests, FilesRest, vars, webVars
<1>2. CASE CheckPort
  BY <1>2 DEF CheckPort, ServiceRests, FilesRest, vars, webVars
<1>3. CASE InitTypes
  <2>1. types' # {}
    BY <1>3 DEF InitTypes, SinkProtocolInfo
  <2> QED
    BY <1>3, <2>1 DEF InitTypes, ServiceRests, FilesRest, vars, webVars
<1>4. CASE RegisterFiles
  BY <1>4 DEF RegisterFiles, Register, ServiceRests, vars
<1>5. CASE StepSucceeds
  <2>1. setUp' = setUp + 1 /\ setUp < 6 /\ setUp' \in 0 .. 6
    BY <1>5 DEF StepSucceeds
  <2>2. Len(SetUp) = 6
    BY DEF SetUp
  <2> QED
    BY <1>5, <2>1, <2>2 DEF StepSucceeds, ServiceRests, FilesRest, vars, webVars
<1>6. CASE StepFails
  BY <1>6 DEF StepFails, ServiceRests, FilesRest, vars, webVars
<1>7. CASE Retry
  BY <1>7 DEF Retry, ServiceRests, FilesRest, vars, webVars
<1>8. CASE StartService
  BY <1>8 DEF StartService, MainSteps, CollectVariable, NotifyInitial, RegisterCallback,
              Publish, lifeVars, FilesRest, webVars
<1>9. CASE InstallHandlers \/ RunLoop \/ LeaveLoop
  BY <1>9 DEF InstallHandlers, RunLoop, LeaveLoop, ServiceRests, FilesRest, vars, webVars
<1>10. CASE FinishLibrary
  BY <1>10 DEF FinishLibrary, ServiceRests, FilesRest, IsOpen, vars, webVars
<1>11. CASE ExitLoopSighandler
  BY <1>11 DEF ExitLoopSighandler, ServiceRests, FilesRest, vars, webVars
<1>12. CASE RequestBegins /\ UNCHANGED lifeVars /\ FilesRest
  <2>1. setUp >= 5 /\ main # "exited"
    BY <1>12, SetUpOrder DEF RequestBegins, Discoverable, Ended
  <2> QED
    BY <1>12, <2>1 DEF lifeVars, FilesRest, webVars
<1>13. CASE RequestGoesOn /\ UNCHANGED lifeVars /\ FilesRest
  <2>1. inAction' \subseteq inAction
    BY <1>13 DEF RequestGoesOn, ActionGoesOn, EndAction, ServiceLock, ServiceUnlock, Change
  <2> QED
    BY <1>13, <2>1 DEF lifeVars, FilesRest, webVars
<1>14. CASE FileRequest
  <2>1. virtualFiles' = virtualFiles
    BY <1>14 DEF FileRequest, WebSteps, Open, Read, Seek, Close
  <2>2. setUp < 4 => file' = NotOpen
    BY <1>14, SetUpOrder DEF FileRequest, Serving, IsOpen
  <2> QED
    BY <1>14, <2>1, <2>2 DEF FileRequest, ServiceRests, vars, lifeVars
<1>15. CASE UNCHANGED allVars
  BY <1>15 DEF allVars, vars, webVars, lifeVars
<1> QED
  BY <1>1, <1>2, <1>3, <1>4, <1>5, <1>6, <1>7, <1>8, <1>9, <1>10, <1>11, <1>12, <1>13,
     <1>14, <1>15 DEF LifecycleNext, MainProgram

LEMMA LifeInvHolds == LifecycleSpec => []LifeInv
BY LifeInvHoldsAtStart, LifeInvIsKept, PTL DEF LifecycleSpec

(* From UpnpRegisterRootDevice2 on, the service descriptions are served    *)
(* and the list of media types is there.                                   *)
THEOREM DescriptionsAreServed == LifecycleSpec => []DescribedIsServed
<1>1. LifeInv => DescribedIsServed
  <2> SUFFICES ASSUME LifeInv, Discoverable
               PROVE  /\ Scpds \subseteq virtualFiles
                      /\ Succeeded("SetCallbacks") /\ Succeeded("AddVirtualDir")
                      /\ types # {}
    BY DEF DescribedIsServed
  <2>1. setUp >= 5
    BY SetUpOrder DEF LifeInv, Discoverable
  <2>2. main \in Late
    BY <2>1 DEF LifeInv, Discoverable, Ended
  <2> QED
    BY <2>1, <2>2, SetUpOrder DEF LifeInv
<1> QED
  BY <1>1, LifeInvHolds, PTL

(* main never returns over a library that is up, whatever step failed.     *)
THEOREM NothingIsLeftRunning == LifecycleSpec => []ReturnsFinished
<1>1. LifeInv => ReturnsFinished
  BY DEF LifeInv, ReturnsFinished, Ended, IsOpen
<1> QED
  BY <1>1, LifeInvHolds, PTL

-----------------------------------------------------------------------------
(* The web server. *)

(* An open file is one that was registered, its position is inside, and    *)
(* what was read since the last seek ends at the position.                 *)
FileInv ==
  IsOpen =>
    /\ file = [name |-> file.name, pos |-> file.pos, got |-> file.got]
    /\ file.name \in DOMAIN Content
    /\ file.pos \in 0 .. Length
    /\ Len(file.got) \in 0 .. file.pos
    /\ file.got = SubSeq(Content[file.name], file.pos - Len(file.got) + 1, file.pos)

(* Reading on: n elements that end at pos, and the len that follow.        *)
LEMMA ReadOn ==
  ASSUME NEW c \in Seq(Int), NEW pos \in Nat, NEW n \in Nat, NEW len \in Nat,
         n <= pos, pos + len <= Len(c)
  PROVE  /\ SubSeq(c, pos - n + 1, pos) \o SubSeq(c, pos + 1, pos + len)
              = SubSeq(c, pos - n + 1, pos + len)
         /\ Len(SubSeq(c, pos - n + 1, pos + len)) = n + len
<1>1. PICK from \in Nat : from = pos - n + 1
  OBVIOUS
<1>2. PICK end \in Nat : end = pos + len
  OBVIOUS
<1>3. Len(c) \in Nat
  OBVIOUS
<1>4. from \in 1 .. Len(c) + 1 /\ pos \in from - 1 .. Len(c) /\ end \in pos .. Len(c)
  BY <1>1, <1>2, <1>3
<1>5. SubSeq(c, from, pos) \o SubSeq(c, pos + 1, end) = SubSeq(c, from, end)
  BY <1>4, ConcatAdjacentSubSeq
<1>6. \A i \in from .. end : c[i] \in Int
  BY <1>3, <1>4
<1>7. Len(SubSeq(c, from, end)) = IF from <= end THEN end - from + 1 ELSE 0
  BY <1>6, SubSeqProperties
<1>8. (IF from <= end THEN end - from + 1 ELSE 0) = n + len
  BY <1>1, <1>2, SMT
<1> QED
  BY <1>1, <1>2, <1>5, <1>7, <1>8

LEMMA ReadIsKept ==
  ASSUME FileInv, NEW buflen \in Buffers, Read(buflen)
  PROVE  FileInv'
<1>1. PICK c \in Seq(Int) : c = Content[file.name]
  BY WebAssumption DEF Read, FileInv
<1>2. Len(c) \in Nat /\ Length = Len(c) /\ buflen \in Nat
  BY <1>1, WebAssumption DEF Length
<1>3. file.pos \in 0 .. Length /\ Len(file.got) \in 0 .. file.pos
  BY DEF FileInv, Read
<1>4. file.pos \in Nat /\ file.pos <= Len(c)
  BY <1>3, <1>2
<1>5. PICK pos \in Nat : pos = file.pos /\ pos <= Len(c)
  BY <1>4, Zenon
<1>6. Len(file.got) \in Nat /\ Len(file.got) <= pos
  BY <1>3, <1>5
<1>7. PICK n \in Nat : n = Len(file.got) /\ n <= pos
  BY <1>6, Zenon
<1>8. \A p, l, b \in Nat : p <= l => /\ Minimum(b, l - p) \in Nat
                                     /\ p + Minimum(b, l - p) <= l
  BY SMT DEF Minimum
<1>9. /\ Minimum(buflen, Length - file.pos) \in Nat
      /\ pos + Minimum(buflen, Length - file.pos) <= Len(c)
  BY <1>2, <1>5, <1>8
<1>10. PICK len \in Nat : len = Minimum(buflen, Length - file.pos) /\ pos + len <= Len(c)
  BY <1>9, Zenon
<1>11. file' = [name |-> file.name, pos |-> pos + len,
                got |-> file.got \o SubSeq(c, pos + 1, pos + len)]
  BY <1>1, <1>5, <1>10 DEF Read, FileInv
<1>12. file.got = SubSeq(c, pos - n + 1, pos)
  BY <1>1, <1>5, <1>7 DEF FileInv, Read
<1>13. /\ pos \in Nat /\ n \in Nat /\ len \in Nat
       /\ n <= pos /\ pos + len <= Len(c)
  BY <1>5, <1>7, <1>10, Zenon
<1>14. /\ file.got \o SubSeq(c, pos + 1, pos + len) = SubSeq(c, pos - n + 1, pos + len)
       /\ Len(SubSeq(c, pos - n + 1, pos + len)) = n + len
  BY <1>1, <1>13, <1>12, ReadOn
<1>15. /\ file'.got = SubSeq(c, pos - n + 1, pos + len)
       /\ Len(file'.got) = n + len
  BY <1>11, <1>14
<1>16. (pos + len) - (n + len) + 1 = pos - n + 1 /\ n + len \in 0 .. pos + len
       /\ pos + len \in 0 .. Len(c)
  BY <1>13
<1>17. file.name \in DOMAIN Content
  BY DEF FileInv, Read
<1> QED
  BY <1>1, <1>11, <1>15, <1>16, <1>17 DEF FileInv, Length

(* Opened, or after a seek, nothing was read. *)
LEMMA NothingRead ==
  ASSUME NEW name \in DOMAIN Content, NEW pos \in 0 .. Len(Content[name]),
         file' = [name |-> name, pos |-> pos, got |-> <<>>]
  PROVE  FileInv'
<1>1. Content[name] \in Seq(Int) /\ Len(Content[name]) \in Nat
  BY WebAssumption
<1>2. SubSeq(Content[name], pos - 0 + 1, pos) = <<>>
  BY <1>1, SubSeqEmpty
<1>3. Len(<<>>) = 0
  OBVIOUS
<1> QED
  BY <1>1, <1>2, <1>3 DEF FileInv, Length

LEMMA FileInvIsKept == FileInv /\ [LifecycleNext]_allVars => FileInv'
<1> SUFFICES ASSUME FileInv, [LifecycleNext]_allVars
             PROVE  FileInv'
  OBVIOUS
<1>1. CASE file' = file
  BY <1>1 DEF FileInv, IsOpen, Length
<1>2. CASE \E name \in DOMAIN Content : Open(name)
  <2>1. PICK name \in DOMAIN Content : file' = [name |-> name, pos |-> 0, got |-> <<>>]
    BY <1>2 DEF Open
  <2>2. 0 \in 0 .. Len(Content[name])
    BY WebAssumption
  <2> QED
    BY <2>1, <2>2, NothingRead
<1>3. CASE \E buflen \in Buffers : Read(buflen)
  BY <1>3, ReadIsKept
<1>4. CASE \E origin \in {"SEEK_SET", "SEEK_CUR", "SEEK_END"}, offset \in Offsets :
             Seek(origin, offset)
  <2>1. PICK pos \in 0 .. Len(Content[file.name]) :
          IsOpen /\ file' = [file EXCEPT !.pos = pos, !.got = <<>>]
    BY <1>4 DEF Seek, Length
  <2>2. file.name \in DOMAIN Content /\ file' = [name |-> file.name, pos |-> pos, got |-> <<>>]
    BY <2>1 DEF FileInv
  <2> QED
    BY <2>1, <2>2, NothingRead
<1>5. CASE Close
  BY <1>5 DEF Close, FileInv, IsOpen
<1>6. WebSteps \/ file' = file
  <2>1. CASE MainProgram
    <3>1. CASE FilesRest
      BY <3>1 DEF FilesRest, webVars
    <3>2. CASE RegisterFiles
      BY <3>2 DEF RegisterFiles, Register
    <3> QED
      BY <2>1, <3>1, <3>2 DEF MainProgram, OutputInit, CheckPort, InitTypes, StepSucceeds,
         StepFails, Retry, StartService, InstallHandlers, RunLoop, LeaveLoop, FinishLibrary
  <2>2. CASE ExitLoopSighandler
    BY <2>2 DEF ExitLoopSighandler, FilesRest, webVars
  <2>3. CASE (RequestBegins \/ RequestGoesOn) /\ UNCHANGED lifeVars /\ FilesRest
    BY <2>3 DEF FilesRest, webVars
  <2>4. CASE FileRequest
    BY <2>4 DEF FileRequest
  <2>5. CASE UNCHANGED allVars
    BY <2>5 DEF allVars, webVars
  <2> QED
    BY <2>1, <2>2, <2>3, <2>4, <2>5 DEF LifecycleNext
<1> QED
  BY <1>1, <1>2, <1>3, <1>4, <1>5, <1>6 DEF WebSteps

(* webserver_read never copies from outside of the file, and gives what is *)
(* there, for files and buffers of any length.                             *)
THEOREM ReadsStayInside == LifecycleSpec => []ReadsGiveTheFile
<1>1. LifecycleInit => FileInv
  BY DEF LifecycleInit, WebInit, FileInv, IsOpen
<1>2. FileInv => ReadsGiveTheFile
  BY DEF FileInv, ReadsGiveTheFile
<1> QED
  BY <1>1, <1>2, FileInvIsKept, PTL DEF LifecycleSpec
=============================================================================
