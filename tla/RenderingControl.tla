------------------------- MODULE RenderingControl -------------------------
(***************************************************************************)
(* The RenderingControl service (upnp_control.c): volume and mute as the   *)
(* control points see them, beside what the output does.                   *)
(*                                                                         *)
(* Decibels are counted in units of 1/2560 dB: a tenth of a decibel (the   *)
(* levels below 50 are 0.8 dB apart) and a 1/256 dB (the unit of the       *)
(* variable VolumeDB) are whole numbers of them.  A value that is no       *)
(* multiple of 1/256 dB is not exact as a float.                           *)
(***************************************************************************)
EXTENDS Integers

CONSTANTS Levels,     \* numbers that controllers send with SetVolume
          Decibels,   \* and with SetVolumeDB, in units
          Initials    \* volumes the output may have at the start, in units

ASSUME ControlAssumption ==
  Levels \subseteq Int /\ Decibels \subseteq Int /\ Initials \subseteq Int

VARIABLES
  cv,      \* the state variables Volume, VolumeDB and Mute
  heard,   \* the output: its volume in units, whether it is mute
  start,   \* how far upnp_control_init is: "read", "level", "decibel", "done"
  first,   \* what it read from the output
  early    \* history: the volume was set while it was writing

controlVars == <<cv, heard, start, first, early>>

-----------------------------------------------------------------------------
(* Levels and decibels. *)

Unit == 2560
MinDB == -60 * Unit
MidDB == -20 * Unit
MaxDB == 0
MidPoint == 50

(* volume_range *)
MinLevel == 0
MaxLevel == 100
Clamped(level) ==
  IF level < MinLevel THEN MinLevel ELSE IF level > MaxLevel THEN MaxLevel ELSE level

(* Faulty: the level is converted as it came. *)
DecibelUnclamped(level) ==
  IF level < MidPoint
  THEN MinDB + ((MidDB - MinDB) \div MidPoint) * level
  ELSE MidDB + ((MaxDB - MidDB) \div (MaxLevel - MidPoint)) * (level - MidPoint)

(* Faulty: the steeper slope is used for all levels. *)
DecibelOneSlope(level) == MinDB + ((MidDB - MinDB) \div MidPoint) * Clamped(level)

(* volume_level_to_decibel *)
DecibelOf(level) ==
  IF Clamped(level) < MidPoint
  THEN MinDB + ((MidDB - MinDB) \div MidPoint) * Clamped(level)
  ELSE MidDB + ((MaxDB - MidDB) \div (MaxLevel - MidPoint)) * (Clamped(level) - MidPoint)

(* volume_decibel_to_level, if floats were exact: the level below *)
LevelBelow(d) ==
  IF d < MinDB THEN MinLevel
  ELSE IF d > MaxDB THEN MaxLevel
  ELSE IF d < MidDB THEN (d - MinDB) \div ((MidDB - MinDB) \div MidPoint)
  ELSE (d - MidDB) \div ((MaxDB - MidDB) \div (MaxLevel - MidPoint)) + MidPoint

(* Faulty: the result is rounded up, not truncated. *)
LevelsAbove(d) == {LevelBelow(d + 1023)}

(* volume_decibel_to_level: a float that is not exact may end up just      *)
(* below the level it stands for, and is truncated to the one before.      *)
LevelsOf(d) ==
  {LevelBelow(d)} \cup
  {l \in MinLevel .. MaxLevel :
     l = LevelBelow(d) - 1 /\ d = DecibelOf(l + 1) /\ d % 10 # 0}

(* Faulty: rounded away from zero. *)
FloorOfDecibel(d) == d \div 10

(* (int) (256 * decibel): truncated towards zero; no decibel is above it. *)
ShownDecibel(d) == -((-d) \div 10)

-----------------------------------------------------------------------------
(* The handlers. *)

(* Faulty: only the level is changed. *)
ChangeLevelOnly(c, volume, decibel) == [c EXCEPT !.Volume = volume]

(* change_volume *)
ChangeVolume(c, volume, decibel) ==
  [c EXCEPT !.Volume = volume, !.VolumeDB = ShownDecibel(decibel)]

Ready == start = "done"

(* upnp_control_init has read the volume of the output, and has not yet    *)
(* written all of it.                                                      *)
Between == start \in {"level", "decibel"}

(* set_mute: any number but 0 is TRUE *)
SetMute(mute) ==
  /\ cv' = [cv EXCEPT !.Mute = mute]
  /\ heard' = [heard EXCEPT !.mute = mute]
  /\ UNCHANGED <<start, first, early>>

(* Faulty: what was asked for reaches the output, not what is shown. *)
SetVolumeDBUnquantised(d) ==
  \E level \in LevelsOf(d) :
    /\ cv' = ChangeVolume(cv, level, DecibelOf(level))
    /\ heard' = [heard EXCEPT !.volume = d + 1024]
    /\ early' = (early \/ Between)
    /\ UNCHANGED <<start, first>>

(* set_volume_db: the decibels are those of the nearest level below.  The  *)
(* number is taken as decibels; mute is left alone.                        *)
SetVolumeDB(d) ==
  \E level \in LevelsOf(d) :
    /\ cv' = ChangeVolume(cv, level, DecibelOf(level))
    /\ heard' = [heard EXCEPT !.volume = DecibelOf(level)]
    /\ early' = (early \/ Between)
    /\ UNCHANGED <<start, first>>

(* Faulty: the volume falls to zero without being muted in the output. *)
SetVolumeKeepsSound(level) ==
  /\ cv' = [ChangeVolume(cv, level, DecibelOf(level)) EXCEPT !.Mute = (Clamped(level) = 0)]
  /\ heard' = [heard EXCEPT !.volume = DecibelOf(level)]
  /\ early' = (early \/ Between)
  /\ UNCHANGED <<start, first>>

(* set_volume: the number is stored as it came, whatever its size; level 0 *)
(* mutes, any other level ends mute.                                       *)
SetVolume(level) ==
  /\ cv' = [ChangeVolume(cv, level, DecibelOf(level)) EXCEPT !.Mute = (Clamped(level) = 0)]
  /\ heard' = [volume |-> DecibelOf(level), mute |-> (Clamped(level) = 0)]
  /\ early' = (early \/ Between)
  /\ UNCHANGED <<start, first>>

-----------------------------------------------------------------------------
(* upnp_control_init and change_volume_decibel: without the service mutex, *)
(* while requests are handled already.                                     *)

ReadOutputVolume ==
  /\ start = "read"
  /\ start' = "level"
  /\ first' = heard.volume
  /\ UNCHANGED <<cv, heard, early>>

WriteFirstLevel ==
  /\ start = "level"
  /\ start' = "decibel"
  /\ \E level \in LevelsOf(first) :
       /\ cv' = [cv EXCEPT !.Volume = level]
       /\ first' = DecibelOf(level)
  /\ UNCHANGED <<heard, early>>

(* Faulty: VolumeDB keeps its default. *)
SkipFirstDecibel ==
  /\ start = "decibel"
  /\ start' = "done"
  /\ UNCHANGED <<cv, heard, first, early>>

WriteFirstDecibel ==
  /\ start = "decibel"
  /\ start' = "done"
  /\ cv' = [cv EXCEPT !.VolumeDB = ShownDecibel(first)]
  /\ UNCHANGED <<heard, first, early>>

(* The device is registered; output_gstreamer_init has switched mute off   *)
(* and set a volume.                                                       *)
ControlInit ==
  /\ cv = [Volume |-> 0, VolumeDB |-> 0, Mute |-> FALSE]
  /\ \E volume \in Initials : heard = [volume |-> volume, mute |-> FALSE]
  /\ start = "read"
  /\ first = 0
  /\ early = FALSE

Starting == ReadOutputVolume \/ WriteFirstLevel \/ WriteFirstDecibel

ControlNext ==
  \/ Starting
  \/ \E mute \in BOOLEAN : SetMute(mute)
  \/ \E level \in Levels : SetVolume(level)
  \/ \E d \in Decibels : SetVolumeDB(d)

ControlSpec == ControlInit /\ [][ControlNext]_controlVars

-----------------------------------------------------------------------------
(* Properties. *)

MinVolumeDB == -(256 * 60)
MaxVolumeDB == 0

(* VolumeDB stays in the range that GetVolumeDBRange answers. *)
ControlTypeOK ==
  /\ cv \in [Volume : Int, VolumeDB : MinVolumeDB .. MaxVolumeDB, Mute : BOOLEAN]
  /\ heard \in [volume : Int, mute : BOOLEAN]
  /\ heard.volume \in Initials \/ heard.volume \in MinDB .. MaxDB
  /\ start \in {"read", "level", "decibel", "done"}
  /\ first \in Int
  /\ start = "decibel" => first \in MinDB .. MaxDB
  /\ early \in BOOLEAN

(* GetVolume and GetVolumeDB tell the same story whichever of SetVolume,   *)
(* SetVolumeDB and the start came last: VolumeDB is that of the level, and *)
(* a control point that turns it into decibels and sets it again leaves    *)
(* the level where it was, in spite of two roundings on the way.  Only a   *)
(* volume set while upnp_control_init runs can get between its two writes. *)
VolumeDBNamesVolume ==
  Ready /\ ~early =>
    /\ cv.VolumeDB = ShownDecibel(DecibelOf(cv.Volume))
    /\ LevelsOf(10 * cv.VolumeDB) = {Clamped(cv.Volume)}

(* What is heard is what is shown: the volume of the output belongs to the *)
(* level on display, and the output is mute exactly when Mute says so.     *)
(* Again a volume set during upnp_control_init may be lost from the        *)
(* display.                                                                *)
HeardIsShown ==
  /\ cv.Mute = heard.mute
  /\ Ready /\ ~early => Clamped(cv.Volume) \in LevelsOf(heard.volume)
=============================================================================
