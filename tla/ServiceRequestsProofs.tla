----------------------- MODULE ServiceRequestsProofs -----------------------
(***************************************************************************)
(* Proofs about RenderingControl, for any numbers that are sent and any    *)
(* volume of the output at the start, and about the requests of all three  *)
(* services, for any streams and documents too.                            *)
(*                                                                         *)
(* For RenderingControl: first the scale, levels and decibels there and    *)
(* back; then the inductive invariant ControlInv, what holds between the   *)
(* two writes of upnp_control_init.  For the requests: the tables of a     *)
(* service agree; a request does to the services what their own            *)
(* specifications allow; and RequestInv follows an answer while it is put  *)
(* together variable by variable.                                          *)
(***************************************************************************)
EXTENDS ServiceRequests, AVTransportProofs

-----------------------------------------------------------------------------
(* The scale. *)

(* The steps of the two pieces, as whole numbers of units. *)
LEMMA Scale ==
  /\ MinDB = -153600 /\ MidDB = -51200 /\ MaxDB = 0
  /\ MidPoint = 50 /\ MinLevel = 0 /\ MaxLevel = 100
  /\ (MidDB - MinDB) \div MidPoint = 2048
  /\ (MaxDB - MidDB) \div (MaxLevel - MidPoint) = 1024
BY SMT DEF MinDB, MidDB, MaxDB, MidPoint, MinLevel, MaxLevel, Unit

LEMMA Ends == MinDB = -153600 /\ MaxDB = 0
BY SMT DEF MinDB, MaxDB, Unit

LEMMA EndsAreWhole == MinDB \in Int /\ MaxDB \in Int
BY Ends, SMT

(* A decibel between the ends of the scale, in numbers *)
LEMMA OnScale ==
  ASSUME NEW d \in Int, MinDB <= d, d <= MaxDB
  PROVE  -153600 <= d /\ d <= 0
BY Ends, SMT

(* Clamped brings every number on the scale and leaves levels alone. *)
LEMMA ClampedLevel ==
  ASSUME NEW level \in Int
  PROVE  /\ Clamped(level) \in 0 .. 100
         /\ level \in 0 .. 100 => Clamped(level) = level
         /\ Clamped(Clamped(level)) = Clamped(level)
BY Scale, SMT DEF Clamped

(* volume_level_to_decibel, in numbers *)
LEMMA DecibelInNumbers ==
  ASSUME NEW level \in Int
  PROVE  DecibelOf(level) = IF Clamped(level) < 50
                            THEN -153600 + 2048 * Clamped(level)
                            ELSE -51200 + 1024 * (Clamped(level) - 50)
BY Scale, SMT DEF DecibelOf

LEMMA DecibelRange ==
  ASSUME NEW level \in Int
  PROVE  /\ DecibelOf(level) \in Int
         /\ DecibelOf(level) \in MinDB .. MaxDB
         /\ DecibelOf(level) = DecibelOf(Clamped(level))
<1>1. Clamped(level) \in Int /\ Clamped(Clamped(level)) = Clamped(level)
  BY ClampedLevel, SMT
<1>2. DecibelOf(level) = DecibelOf(Clamped(level))
  BY <1>1, SMT DEF DecibelOf
<1>3. PICK q \in 0 .. 100 : q = Clamped(level)
  BY ClampedLevel
<1>4. DecibelOf(level) = IF q < 50 THEN -153600 + 2048 * q ELSE -51200 + 1024 * (q - 50)
  BY <1>3, DecibelInNumbers
<1>5. /\ DecibelOf(level) \in Int
      /\ -153600 <= DecibelOf(level) /\ DecibelOf(level) <= 0
  BY <1>4, SMT
<1>6. MinDB \in Int /\ MaxDB \in Int
  BY Scale, SMT
<1>7. MinDB <= DecibelOf(level) /\ DecibelOf(level) <= MaxDB
  BY <1>5, Scale, SMT
<1>8. DecibelOf(level) \in MinDB .. MaxDB
  BY <1>5, <1>6, <1>7, SMT
<1> QED
  BY <1>2, <1>5, <1>8

(* volume_decibel_to_level, in numbers *)
LEMMA LevelInNumbers ==
  ASSUME NEW d \in Int
  PROVE  LevelBelow(d) = IF d < -153600 THEN 0
                         ELSE IF d > 0 THEN 100
                         ELSE IF d < -51200 THEN (d + 153600) \div 2048
                         ELSE (d + 51200) \div 1024 + 50
BY Scale, SMT DEF LevelBelow

(* Less than a level above its decibels, a level is found again. *)
LEMMA LevelFoundAgain ==
  ASSUME NEW level \in 0 .. 100, NEW r \in 0 .. 9, level = 100 => r = 0
  PROVE  LevelBelow(DecibelOf(level) + r) = level
<1>1. Clamped(level) = level
  BY ClampedLevel, SMT
<1>2. CASE level < 50
  <2>1. DecibelOf(level) = -153600 + 2048 * level
    BY <1>1, <1>2, DecibelInNumbers, SMT
  <2>2. /\ DecibelOf(level) + r \in Int
        /\ -153600 <= DecibelOf(level) + r /\ DecibelOf(level) + r < -51200
    BY <1>2, <2>1, SMT
  <2>3. (2048 * level + r) \div 2048 = level
    OBVIOUS
  <2> QED
    BY <2>1, <2>2, <2>3, LevelInNumbers, SMT
<1>3. CASE level >= 50
  <2>1. DecibelOf(level) = -51200 + 1024 * (level - 50)
    BY <1>1, <1>3, DecibelInNumbers, SMT
  <2>2. /\ DecibelOf(level) + r \in Int
        /\ -51200 <= DecibelOf(level) + r /\ DecibelOf(level) + r <= 0
    BY <1>3, <2>1, SMT
  <2>3. (1024 * (level - 50) + r) \div 1024 = level - 50
    BY <1>3, SMT
  <2> QED
    BY <2>1, <2>2, <2>3, LevelInNumbers, SMT
<1> QED
  BY <1>2, <1>3, SMT

(* A level is among the levels of its own decibels. *)
LEMMA LevelOfItsDecibels ==
  ASSUME NEW level \in Int
  PROVE  Clamped(level) \in LevelsOf(DecibelOf(level))
<1>1. LevelBelow(DecibelOf(Clamped(level)) + 0) = Clamped(level)
  BY ClampedLevel, LevelFoundAgain, SMT
<1>2. DecibelOf(level) \in Int
  BY DecibelRange, SMT
<1> QED
  BY <1>1, <1>2, DecibelRange, SMT DEF LevelsOf

(* Whatever the decibels, the level is on the scale. *)
LEMMA LevelsRange ==
  ASSUME NEW d \in Int
  PROVE  LevelsOf(d) \subseteq 0 .. 100
<1>1. LevelBelow(d) \in 0 .. 100
  BY LevelInNumbers, SMT
<1> QED
  BY <1>1, Scale, SMT DEF LevelsOf

(* VolumeDB: truncated towards zero, less than 1/256 dB above. *)
LEMMA ShownRange ==
  ASSUME NEW d \in MinDB .. MaxDB
  PROVE  /\ ShownDecibel(d) \in Int
         /\ ShownDecibel(d) \in MinVolumeDB .. MaxVolumeDB
         /\ 10 * ShownDecibel(d) - d \in 0 .. 9
         /\ d = 0 => ShownDecibel(d) = 0
<1>0. MinVolumeDB = -15360 /\ MaxVolumeDB = 0
  BY SMT DEF MinVolumeDB, MaxVolumeDB
<1>1. d \in Int /\ -153600 <= d /\ d <= 0
  <2>1. d \in Int /\ MinDB <= d /\ d <= MaxDB
    BY EndsAreWhole, SMT
  <2> QED
    BY <2>1, OnScale, SMT
<1>2. ShownDecibel(d) = -((-d) \div 10)
  BY SMT DEF ShownDecibel
<1>3. /\ ShownDecibel(d) \in Int /\ -15360 <= ShownDecibel(d) /\ ShownDecibel(d) <= 0
      /\ 10 * ShownDecibel(d) - d \in 0 .. 9
      /\ d = 0 => ShownDecibel(d) = 0
  BY <1>1, <1>2, SMT
<1>4. /\ MinVolumeDB \in Int /\ MaxVolumeDB \in Int
      /\ MinVolumeDB <= ShownDecibel(d) /\ ShownDecibel(d) <= MaxVolumeDB
  BY <1>0, <1>3, SMT
<1> QED
  BY <1>3, <1>4, SMT

(* A level, shown in 1/256 dB and set again, is the same level. *)
THEOREM LevelThereAndBack ==
  ASSUME NEW level \in Int
  PROVE  LevelsOf(10 * ShownDecibel(DecibelOf(level))) = {Clamped(level)}
<1> DEFINE d == DecibelOf(level)
           r == 10 * ShownDecibel(d) - d
<1>1. d \in MinDB .. MaxDB /\ d \in Int
  BY DecibelRange, SMT
<1>2. ShownDecibel(d) \in Int /\ r \in 0 .. 9
  <2> HIDE DEF d
  <2>1. ShownDecibel(d) \in Int /\ 10 * ShownDecibel(d) - d \in 0 .. 9
    BY <1>1, ShownRange
  <2> QED
    BY <2>1, SMT
<1>3. d = DecibelOf(Clamped(level)) /\ Clamped(level) \in 0 .. 100
  BY DecibelRange, ClampedLevel, SMT
<1>4. Clamped(level) = 100 => r = 0
  <2> SUFFICES ASSUME Clamped(level) = 100
               PROVE  r = 0
    OBVIOUS
  <2>1. d = 0
    BY DecibelInNumbers, SMT
  <2> QED
    BY <1>1, <2>1, ShownRange, SMT
<1>5. LevelBelow(10 * ShownDecibel(d)) = Clamped(level)
  <2>1. 10 * ShownDecibel(d) = d + r
    BY <1>1, <1>2, SMT
  <2> HIDE DEF d, r
  <2>2. LevelBelow(DecibelOf(Clamped(level)) + r) = Clamped(level)
    BY <1>2, <1>3, <1>4, LevelFoundAgain, SMT
  <2> QED
    BY <1>3, <2>1, <2>2, SMT
<1>6. (10 * ShownDecibel(d)) % 10 = 0
  BY <1>2, SMT
<1> QED
  BY <1>5, <1>6, SMT DEF LevelsOf

-----------------------------------------------------------------------------
(* The inductive invariant.  Between the two writes of upnp_control_init   *)
(* the volume is that of the output and the decibels wait in "first".      *)

LevelShown == Clamped(cv.Volume) \in LevelsOf(heard.volume)
DecibelShown == cv.VolumeDB = ShownDecibel(DecibelOf(cv.Volume))

Progress ==
  ~early => /\ start = "level" => first = heard.volume
            /\ start = "decibel" => LevelShown /\ first = DecibelOf(cv.Volume)
            /\ start = "done" => LevelShown /\ DecibelShown

ControlInv == /\ ControlTypeOK
              /\ cv.Mute = heard.mute
              /\ Progress

(* What follows from the invariant: the two properties of the runs. *)
LEMMA ControlInvSuffices ==
  ASSUME ControlInv
  PROVE  VolumeDBNamesVolume /\ HeardIsShown
<1>1. cv.Volume \in Int
  BY DEF ControlInv, ControlTypeOK
<1>2. LevelsOf(10 * ShownDecibel(DecibelOf(cv.Volume))) = {Clamped(cv.Volume)}
  BY <1>1, LevelThereAndBack
<1>3. VolumeDBNamesVolume
  BY <1>2 DEF ControlInv, Progress, DecibelShown, VolumeDBNamesVolume, Ready
<1>4. HeardIsShown
  BY DEF ControlInv, Progress, LevelShown, HeardIsShown, Ready
<1> QED
  BY <1>3, <1>4

LEMMA ControlInvHoldsAtStart == ControlInit => ControlInv
<1> SUFFICES ASSUME ControlInit
             PROVE  ControlInv
  OBVIOUS
<1>1. PICK volume \in Initials : heard = [volume |-> volume, mute |-> FALSE]
  BY DEF ControlInit
<1>2. volume \in Int
  BY <1>1, ControlAssumption
<1>3. 0 \in MinVolumeDB .. MaxVolumeDB
  BY SMT DEF MinVolumeDB, MaxVolumeDB
<1>4. ControlTypeOK
  <2>1. cv \in [Volume : Int, VolumeDB : MinVolumeDB .. MaxVolumeDB, Mute : BOOLEAN]
    BY <1>3 DEF ControlInit
  <2>2. heard \in [volume : Int, mute : BOOLEAN] /\ heard.volume \in Initials
    BY <1>1, <1>2
  <2> QED
    BY <2>1, <2>2 DEF ControlInit, ControlTypeOK
<1> QED
  BY <1>1, <1>4 DEF ControlInit, ControlInv, Progress

(* A volume that is set, by level or by decibels, is shown and heard.      *)
LEMMA VolumeIsSet ==
  ASSUME NEW level \in Int, NEW mute \in BOOLEAN, ControlInv,
         cv' = [ChangeVolume(cv, level, DecibelOf(level)) EXCEPT !.Mute = mute],
         heard' = [volume |-> DecibelOf(level), mute |-> mute],
         early' = (early \/ Between), UNCHANGED <<start, first>>
  PROVE  ControlInv'
<1>1. cv' = [Volume |-> level, VolumeDB |-> ShownDecibel(DecibelOf(level)), Mute |-> mute]
  BY DEF ChangeVolume, ControlInv, ControlTypeOK
<1>2. /\ DecibelOf(level) \in Int /\ DecibelOf(level) \in MinDB .. MaxDB
      /\ ShownDecibel(DecibelOf(level)) \in MinVolumeDB .. MaxVolumeDB
  BY DecibelRange, ShownRange
<1>3. ControlTypeOK'
  <2> DEFINE shown == ShownDecibel(DecibelOf(level))
  <2>0. shown \in MinVolumeDB .. MaxVolumeDB
    BY <1>2
  <2>1. cv' \in [Volume : Int, VolumeDB : MinVolumeDB .. MaxVolumeDB, Mute : BOOLEAN]
    <3>1. cv' = [Volume |-> level, VolumeDB |-> shown, Mute |-> mute]
      BY <1>1
    <3> HIDE DEF shown
    <3>2. [Volume |-> level, VolumeDB |-> shown, Mute |-> mute]
            \in [Volume : Int, VolumeDB : MinVolumeDB .. MaxVolumeDB, Mute : BOOLEAN]
      BY <2>0
    <3> QED
      BY <3>1, <3>2, Zenon
  <2>2. heard' \in [volume : Int, mute : BOOLEAN] /\ heard'.volume \in MinDB .. MaxDB
    BY <1>2
  <2>3. early' \in BOOLEAN
    BY DEF ControlInv, ControlTypeOK, Between
  <2> QED
    BY <2>1, <2>2, <2>3 DEF ControlInv, ControlTypeOK
<1>4. LevelShown' /\ DecibelShown'
  BY <1>1, LevelOfItsDecibels DEF LevelShown, DecibelShown
<1>5. Progress'
  BY <1>4 DEF Progress, Between
<1> QED
  BY <1>1, <1>3, <1>5 DEF ControlInv

LEMMA ControlInvIsKept == ControlInv /\ [ControlNext]_controlVars => ControlInv'
<1> SUFFICES ASSUME ControlInv, [ControlNext]_controlVars
             PROVE  ControlInv'
  OBVIOUS
<1> USE DEF ControlInv
<1>1. CASE ReadOutputVolume
  BY <1>1 DEF ReadOutputVolume, ControlTypeOK, Progress
<1>2. CASE WriteFirstLevel
  <2>1. PICK level \in LevelsOf(first) : cv' = [cv EXCEPT !.Volume = level]
                                        /\ first' = DecibelOf(level)
    BY <1>2 DEF WriteFirstLevel
  <2>2. level \in 0 .. 100
    BY <2>1, LevelsRange DEF ControlTypeOK
  <2>3. level \in Int /\ Clamped(level) = level
    BY <2>2, ClampedLevel
  <2>4. DecibelOf(level) \in Int /\ DecibelOf(level) \in MinDB .. MaxDB
    BY <2>3, DecibelRange
  <2>5. cv'.Volume = level
    BY <2>1 DEF ControlTypeOK
  <2>6. ControlTypeOK'
    BY <1>2, <2>1, <2>3, <2>4 DEF WriteFirstLevel, ControlTypeOK
  <2>7. Progress'
    BY <1>2, <2>1, <2>3, <2>5 DEF WriteFirstLevel, Progress, LevelShown
  <2> QED
    BY <1>2, <2>1, <2>6, <2>7 DEF WriteFirstLevel, ControlTypeOK
<1>3. CASE WriteFirstDecibel
  <2>1. ShownDecibel(first) \in MinVolumeDB .. MaxVolumeDB
    BY <1>3, ShownRange DEF WriteFirstDecibel, ControlTypeOK
  <2>2. /\ cv'.Volume = cv.Volume /\ cv'.Mute = cv.Mute
        /\ cv'.VolumeDB = ShownDecibel(first)
    BY <1>3 DEF WriteFirstDecibel, ControlTypeOK
  <2>3. ControlTypeOK'
    BY <1>3, <2>1 DEF WriteFirstDecibel, ControlTypeOK
  <2>4. Progress'
    BY <1>3, <2>2 DEF WriteFirstDecibel, Progress, LevelShown, DecibelShown
  <2> QED
    BY <1>3, <2>2, <2>3, <2>4 DEF WriteFirstDecibel
<1>4. ASSUME NEW mute \in BOOLEAN, SetMute(mute)
      PROVE  ControlInv'
  <2>1. ControlTypeOK' /\ cv'.Mute = heard'.mute
    BY <1>4 DEF SetMute, ControlTypeOK
  <2>2. /\ cv'.Volume = cv.Volume /\ cv'.VolumeDB = cv.VolumeDB
        /\ heard'.volume = heard.volume
    BY <1>4 DEF SetMute, ControlTypeOK
  <2>3. Progress'
    BY <1>4, <2>2 DEF SetMute, Progress, LevelShown, DecibelShown
  <2> QED
    BY <2>1, <2>3
<1>5. ASSUME NEW level \in Levels, SetVolume(level)
      PROVE  ControlInv'
  <2>1. level \in Int
    BY ControlAssumption
  <2> QED
    BY <1>5, <2>1, VolumeIsSet DEF SetVolume
<1>6. ASSUME NEW d \in Decibels, SetVolumeDB(d)
      PROVE  ControlInv'
  <2>1. d \in Int
    BY ControlAssumption
  <2>2. PICK level \in LevelsOf(d) :
          /\ cv' = ChangeVolume(cv, level, DecibelOf(level))
          /\ heard' = [heard EXCEPT !.volume = DecibelOf(level)]
          /\ early' = (early \/ Between)
          /\ UNCHANGED <<start, first>>
    BY <1>6 DEF SetVolumeDB
  <2>3. level \in Int
    BY <2>1, <2>2, LevelsRange
  <2>4. /\ cv' = [ChangeVolume(cv, level, DecibelOf(level)) EXCEPT !.Mute = cv.Mute]
        /\ heard' = [volume |-> DecibelOf(level), mute |-> cv.Mute]
        /\ cv.Mute \in BOOLEAN
    BY <2>2 DEF ChangeVolume, ControlTypeOK
  <2> QED
    BY <2>2, <2>3, <2>4, VolumeIsSet
<1>7. CASE UNCHANGED controlVars
  BY <1>7 DEF controlVars, ControlTypeOK, Progress, LevelShown, DecibelShown
<1> QED
  BY <1>1, <1>2, <1>3, <1>4, <1>5, <1>6, <1>7 DEF ControlNext, Starting

-----------------------------------------------------------------------------
(* Theorems. *)

LEMMA ControlInvHolds == ControlSpec => []ControlInv
BY ControlInvHoldsAtStart, ControlInvIsKept, PTL DEF ControlSpec

(* VolumeDB never leaves the range that GetVolumeDBRange answers.          *)
THEOREM ControlTypeCorrect == ControlSpec => []ControlTypeOK
<1>1. ControlInv => ControlTypeOK
  BY DEF ControlInv
<1> QED
  BY <1>1, ControlInvHolds, PTL

(* The level and the decibels on display belong together (change_volume).  *)
THEOREM VolumesAgree == ControlSpec => []VolumeDBNamesVolume
BY ControlInvSuffices, ControlInvHolds, PTL

(* The output plays at the level on display, and is mute when Mute says so.*)
THEOREM VolumeIsHeard == ControlSpec => []HeardIsShown
BY ControlInvSuffices, ControlInvHolds, PTL

-----------------------------------------------------------------------------
(* The tables of the services. *)

Entries(table) == {table[i] : i \in DOMAIN table}

(* What the handlers answer is what is described, but for OtherValue. *)
Agree(answers, described) ==
  /\ DOMAIN answers = DOMAIN described
  /\ \A i \in DOMAIN answers :
       /\ answers[i][1] = described[i][1]
       /\ answers[i][1] \in OtherValue \/ answers[i][2] = described[i][2]

Distinct(table) == \A i, j \in DOMAIN table : table[i][1] = table[j][1] => i = j

Readable(table) == table \in Seq(Entries(table)) /\ Distinct(table)

LEMMA Same == \A table : Agree(table, table)
BY DEF Agree

LEMMA OneEntry == \A n, v : Readable(<<<<n, v>>>>)
BY DEF Readable, Distinct, Entries

LEMMA TransportTables ==
  /\ \A action \in DOMAIN TransportAnswers : Readable(TransportAnswers[action])
  /\ \A action \in DOMAIN TransportAnswers \ Divergent :
       Agree(TransportAnswers[action], TransportDescribed[action])
<1> DEFINE Right(action) ==
             /\ Readable(TransportAnswers[action])
             /\ action \notin Divergent
                  => Agree(TransportAnswers[action], TransportDescribed[action])
<1>1. Right("GetMediaInfo")
  BY DEF TransportAnswers, TransportDescribed, Readable, Distinct, Entries, Agree, OtherValue
<1>2. Right("GetTransportInfo")
  <2>1. TransportAnswers.GetTransportInfo = TransportDescribed.GetTransportInfo
    BY DEF TransportAnswers, TransportDescribed
  <2>2. Readable(TransportAnswers.GetTransportInfo)
    BY DEF TransportAnswers, Readable, Distinct, Entries
  <2> QED BY <2>1, <2>2, Same
<1>3. Right("GetPositionInfo")
  <2>1. TransportAnswers.GetPositionInfo = TransportDescribed.GetPositionInfo
    BY DEF TransportAnswers, TransportDescribed
  <2>2. Readable(TransportAnswers.GetPositionInfo)
    BY DEF TransportAnswers, Readable, Distinct, Entries
  <2> QED BY <2>1, <2>2, Same
<1>4. Right("GetDeviceCapabilities") /\ Right("GetTransportSettings")
  BY DEF TransportAnswers, Divergent, Readable, Distinct, Entries
<1>5. Right("GetCurrentTransportActions")
  BY Same, OneEntry DEF TransportAnswers, TransportDescribed
<1>6. DOMAIN TransportAnswers = {"GetMediaInfo", "GetTransportInfo", "GetPositionInfo",
        "GetDeviceCapabilities", "GetTransportSettings", "GetCurrentTransportActions"}
  BY DEF TransportAnswers
<1> QED BY <1>1, <1>2, <1>3, <1>4, <1>5, <1>6

LEMMA ControlTables ==
  /\ \A action \in DOMAIN ControlAnswers : Readable(ControlAnswers[action])
  /\ \A action \in DOMAIN ControlAnswers \ Divergent :
       Agree(ControlAnswers[action], ControlDescribed[action])
<1>1. \A action \in DOMAIN ControlAnswers : \E n, v : ControlAnswers[action] = <<<<n, v>>>>
  BY DEF ControlAnswers
<1>2. \A action \in DOMAIN ControlAnswers :
        action # "GetVolumeDB" => ControlAnswers[action] = ControlDescribed[action]
  BY DEF ControlAnswers, ControlDescribed
<1>3. "GetVolumeDB" \in Divergent
  BY DEF Divergent
<1> QED BY <1>1, <1>2, <1>3, Same, OneEntry

LEMMA ConnectionTables ==
  /\ \A action \in DOMAIN ConnectionAnswers : Readable(ConnectionAnswers[action])
  /\ \A action \in DOMAIN ConnectionAnswers \ Divergent :
       Agree(ConnectionAnswers[action], ConnectionDescribed[action])
<1>1. Readable(ConnectionAnswers.GetProtocolInfo)
  BY DEF ConnectionAnswers, Readable, Distinct, Entries
<1>2. Readable(ConnectionAnswers.PrepareForConnection)
  BY DEF ConnectionAnswers, Readable, Distinct, Entries
<1>3. Readable(ConnectionAnswers.GetCurrentConnectionInfo)
  BY DEF ConnectionAnswers, Readable, Distinct, Entries
<1>4. Agree(ConnectionAnswers.PrepareForConnection, ConnectionDescribed.PrepareForConnection)
  BY DEF ConnectionAnswers, ConnectionDescribed, Agree, OtherValue
<1>5. \A action \in DOMAIN ConnectionAnswers :
        action # "PrepareForConnection" => ConnectionAnswers[action] = ConnectionDescribed[action]
  BY DEF ConnectionAnswers, ConnectionDescribed
<1>6. DOMAIN ConnectionAnswers
        = {"GetProtocolInfo", "PrepareForConnection", "GetCurrentConnectionInfo"}
  BY DEF ConnectionAnswers
<1> QED BY <1>1, <1>2, <1>3, <1>4, <1>5, <1>6, Same

(* The SCPD of each service and its handlers agree; set actions answer     *)
(* nothing, and two actions answer constants.                              *)
SetActions == {"SetAVTransportURI", "SetNextAVTransportURI", "Play", "Pause", "Stop", "Seek",
               "SetMute", "SetVolume", "SetVolumeDB"}

LEMMA TablesAgree ==
  ASSUME asked \in Services
  PROVE  /\ \A action \in DOMAIN Answers : Readable(Answers[action])
         /\ \A action \in DOMAIN Answers \ Divergent : Agree(Answers[action], Described[action])
<1>1. CASE asked = "AVTransport"
  BY <1>1, TransportTables DEF Answers, Described
<1>2. CASE asked = "RenderingControl"
  BY <1>2, ControlTables DEF Answers, Described
<1>3. CASE asked = "ConnectionManager"
  BY <1>3, ConnectionTables DEF Answers, Described
<1> QED BY <1>1, <1>2, <1>3 DEF Services

LEMMA SetActionsAnswerNothing ==
  ASSUME asked \in Services, NEW action \in SetActions, action \in DOMAIN Described
  PROVE  Described[action] = <<>>
<1>1. CASE asked = "AVTransport"
  BY <1>1 DEF SetActions, Described, TransportDescribed
<1>2. CASE asked = "RenderingControl"
  BY <1>2 DEF SetActions, Described, ControlDescribed
<1>3. CASE asked = "ConnectionManager"
  BY <1>3 DEF SetActions, Described, ConnectionDescribed
<1> QED BY <1>1, <1>2, <1>3 DEF Services

LEMMA RangeIsDescribed ==
  ASSUME asked \in Services, "GetVolumeDBRange" \in DOMAIN Described
  PROVE  Described["GetVolumeDBRange"] = <<<<"MinValue", "VolumeDB">>, <<"MaxValue", "VolumeDB">>>>
<1>1. CASE asked = "AVTransport"
  BY <1>1 DEF Described, TransportDescribed
<1>2. CASE asked = "RenderingControl"
  BY <1>2 DEF Described, ControlDescribed
<1>3. CASE asked = "ConnectionManager"
  BY <1>3 DEF Described, ConnectionDescribed
<1> QED BY <1>1, <1>2, <1>3 DEF Services

LEMMA ConnectionIDsAreDescribed ==
  ASSUME asked \in Services, "GetCurrentConnectionIDs" \in DOMAIN Described
  PROVE  /\ asked = "ConnectionManager"
         /\ Described["GetCurrentConnectionIDs"] = <<<<"ConnectionIDs", "CurrentConnectionIDs">>>>
<1>1. asked # "AVTransport"
  BY DEF Described, TransportDescribed
<1>2. asked # "RenderingControl"
  BY DEF Described, ControlDescribed
<1>3. asked = "ConnectionManager"
  BY <1>1, <1>2 DEF Services
<1> QED BY <1>3 DEF Described, ConnectionDescribed

LEMMA QueryIsNoAction ==
  ASSUME asked \in Services
  PROVE  "QueryStateVariable" \notin DOMAIN Described
<1>1. CASE asked = "AVTransport"
  BY <1>1 DEF Described, TransportDescribed
<1>2. CASE asked = "RenderingControl"
  BY <1>2 DEF Described, ControlDescribed
<1>3. CASE asked = "ConnectionManager"
  BY <1>3 DEF Described, ConnectionDescribed
<1> QED BY <1>1, <1>2, <1>3 DEF Services

-----------------------------------------------------------------------------
(* What a request does to the services. *)

ServicesInv == TransportInv /\ ControlInv

(* A handler of AVTransport, called by a request; Stop does nothing when   *)
(* STOPPED, and what is answered makes no difference.                      *)
LEMMA TransportRequests ==
  ASSUME TransportInv, NEW given,
         \/ RequestSetURI(given) \/ RequestSetNextURI(given) \/ RequestPlay(given)
         \/ RequestPause(given) \/ RequestStop(given) \/ RequestSeek(given)
  PROVE  [TransportNext]_sv /\ UNCHANGED controlVars
<1>1. CASE RequestSetURI(given)
  BY <1>1 DEF RequestSetURI, TransportNext, SetAVTransportURI
<1>2. CASE RequestSetNextURI(given)
  BY <1>2 DEF RequestSetNextURI, TransportNext, SetNextAVTransportURI,
              SetNextAVTransportURIWithoutMeta
<1>3. CASE RequestPlay(given)
  BY <1>3 DEF RequestPlay, TransportNext
<1>4. CASE RequestPause(given)
  BY <1>4 DEF RequestPause, TransportNext
<1>5. CASE RequestStop(given)
  <2>1. sv' = AfterStop(sv) /\ UNCHANGED controlVars
    BY <1>5 DEF RequestStop
  <2>2. CASE sv.TransportState = "STOPPED"
    BY <2>1, <2>2 DEF AfterStop, ChangeTransportState
  <2>3. CASE sv.TransportState # "STOPPED"
    <3>1. sv.TransportState \in {"PLAYING", "PAUSED_PLAYBACK"}
      BY <2>3 DEF TransportInv, TypeOK, TransportStates
    <3> QED BY <2>1, <3>1 DEF Stop, TransportNext
  <2> QED BY <2>2, <2>3
<1>6. CASE RequestSeek(given)
  BY <1>6 DEF RequestSeek
<1> QED BY <1>1, <1>2, <1>3, <1>4, <1>5, <1>6

LEMMA ControlRequests ==
  ASSUME NEW given, RequestControl(given)
  PROVE  ControlNext /\ UNCHANGED sv
BY DEF RequestControl, ControlNext

(* Every step of a request is one that each service could make by itself.  *)
LEMMA RequestSteps ==
  ASSUME TransportInv, [RequestNext]_requestVars
  PROVE  [TransportNext]_sv /\ [ControlNext]_controlVars
<1>1. ASSUME NEW action, NEW given,
             \/ MissingArgument(action, given) \/ BeginAnswer(action, given)
             \/ AnswerConstants(action, given)
      PROVE  UNCHANGED <<sv, controlVars>>
  BY <1>1 DEF MissingArgument, BeginAnswer, AnswerConstants
<1>2. ASSUME \/ \E v \in Variables \cup {"NoSuchVariable"} : QueryVariable(v)
             \/ UnknownAction \/ AppendVariable \/ EndAnswer \/ Return
      PROVE  UNCHANGED <<sv, controlVars>>
  BY <1>2 DEF QueryVariable, UnknownAction, AppendVariable, EndAnswer, Return
<1>3. CASE Others
  BY <1>3 DEF Others
<1>4. CASE UNCHANGED requestVars
  BY <1>4 DEF requestVars
<1> QED
  BY <1>1, <1>2, <1>3, <1>4, TransportRequests, ControlRequests DEF RequestNext

LEMMA ServicesInvIsKept == ServicesInv /\ [RequestNext]_requestVars => ServicesInv'
BY RequestSteps, NextTransportInv, ControlInvIsKept DEF ServicesInv

LEMMA ServicesInvHolds == RequestSpec => []ServicesInv
<1>1. RequestInit => ServicesInv
  BY InitTransportInv, ControlInvHoldsAtStart DEF RequestInit, ServicesInv
<1> QED BY <1>1, ServicesInvIsKept, PTL DEF RequestSpec

(* Requests of control points, which come through upnp_device.c, drive the *)
(* services as their specifications say: what is proved of AVTransport and *)
(* of RenderingControl holds for them.                                     *)
THEOREM RequestsDriveServices == RequestSpec => TransportSpec /\ ControlSpec
<1>1. RequestInit => TransportInit /\ ControlInit
  BY DEF RequestInit
<1>2. ServicesInv /\ [RequestNext]_requestVars => [TransportNext]_sv /\ [ControlNext]_controlVars
  BY RequestSteps DEF ServicesInv
<1> QED BY <1>1, <1>2, ServicesInvHolds, PTL DEF RequestSpec, TransportSpec, ControlSpec

(* So level, decibels and output tell one story for the requests of        *)
(* upnp_device.c too (unless one came before upnp_control_init was done),  *)
(* and while PLAYING the track shown is the one the transport was given.   *)
THEOREM RequestsKeepServicesRight ==
  RequestSpec => [](VolumeDBNamesVolume /\ HeardIsShown /\ PlayingShowsTransportURI)
BY RequestsDriveServices, VolumesAgree, VolumeIsHeard, SameTrackShown, PTL

-----------------------------------------------------------------------------
(* The answer. *)

RequestForm ==
  /\ req = [pc |-> req.pc, action |-> req.action, ev |-> req.ev, todo |-> req.todo,
            failed |-> req.failed]
  /\ req.pc \in {"idle", "answering", "done"}

(* How many variables upnp_append_variable has appended. *)
Appended == Len(Answers[req.action]) - Len(req.todo)

(* What is left to do is the rest of the table; what is done has the names *)
(* of its beginning, and their values while nothing changes.               *)
AnswerGrows ==
  LET table == Answers[req.action]
  IN  /\ req.action \in DOMAIN Answers
      /\ req.ev = [given |-> req.ev.given, status |-> req.ev.status, code |-> req.ev.code,
                   answer |-> req.ev.answer]
      /\ req.ev.status = 0 /\ req.ev.code = "unset"
      /\ req.todo \in Seq(Entries(table))
      /\ Appended \in 0 .. Len(table)
      /\ \A i \in DOMAIN req.todo : req.todo[i] = table[Appended + i]
      /\ DOMAIN req.ev.answer = {table[i][1] : i \in 1 .. Appended}
      /\ calm => \A i \in 1 .. Appended : req.ev.answer[table[i][1]] = ValueOf(table[i][2])

RequestInv ==
  /\ asked \in Services
  /\ RequestForm
  /\ req.pc = "answering" => AnswerGrows
  /\ ErrorsAreReported
  /\ AnswersAsDescribed

(* Values stay while nothing changes. *)
LEMMA SameValues ==
  ASSUME sv' = sv, cv' = cv, asked' = asked
  PROVE  \A v : ValueOf(v)' = ValueOf(v)
BY DEF ValueOf

LEMMA SameTables ==
  ASSUME asked' = asked
  PROVE  Answers' = Answers /\ Described' = Described
BY DEF Answers, Described

(* The arguments that the SCPD lists for an action. *)
Arguments(action) == {Described[action][i] : i \in DOMAIN Described[action]}

(* An answer is complete: it is right when its code tells of a failure, or *)
(* the handler is one that swallows it, and its arguments are those        *)
(* described.                                                              *)
LEMMA DoneIsRight ==
  ASSUME asked \in Services, asked' = asked,
         NEW action, NEW ev, NEW failed \in BOOLEAN, Done(action, ev, failed),
         ev.code \in ErrorCodes => failed /\ DOMAIN ev.answer = {},
         failed => ev.code \in ErrorCodes \/ action \in Swallowing,
         ev.code \notin ErrorCodes /\ action \in DOMAIN Described \ Divergent =>
           /\ DOMAIN ev.answer = {d[1] : d \in Arguments(action)}
           /\ calm' => \A d \in Arguments(action) :
                         d[1] \in OtherValue \/ ev.answer[d[1]] = ValueOf(d[2])'
  PROVE  RequestInv'
<1>1. req' = [pc |-> "done", action |-> action, ev |-> ev, todo |-> <<>>, failed |-> failed]
  BY DEF Done
<1>2. RequestForm' /\ req'.pc # "answering"
  BY <1>1 DEF RequestForm
<1>3. ErrorsAreReported'
  BY <1>1 DEF ErrorsAreReported
<1>4. AnswersAsDescribed'
  <2> SUFFICES ASSUME req'.ev.code \notin ErrorCodes, req'.action \in DOMAIN Described' \ Divergent
               PROVE  LET described == {Described'[req'.action][i] :
                                          i \in DOMAIN Described'[req'.action]}
                      IN  /\ DOMAIN req'.ev.answer = {d[1] : d \in described}
                          /\ calm' => \A d \in described :
                               \/ d[1] \in OtherValue
                               \/ req'.ev.answer[d[1]] = ValueOf(d[2])'
    BY DEF AnswersAsDescribed
  <2>1. Described' = Described
    BY SameTables
  <2>2. req'.ev = ev /\ req'.action = action
    BY <1>1
  <2>3. {Described'[req'.action][i] : i \in DOMAIN Described'[req'.action]} = Arguments(action)
    BY <2>1, <2>2 DEF Arguments
  <2>4. /\ DOMAIN ev.answer = {d[1] : d \in Arguments(action)}
        /\ calm' => \A d \in Arguments(action) :
                      d[1] \in OtherValue \/ ev.answer[d[1]] = ValueOf(d[2])'
    BY <2>1, <2>2
  <2> QED BY <2>2, <2>3, <2>4
<1> QED BY <1>2, <1>3, <1>4 DEF RequestInv

(* What becomes of an event that no argument is added to. *)
LEMMA Successes ==
  ASSUME NEW given
  PROVE  /\ Conclude(NewEvent(given), 0).code \notin ErrorCodes
         /\ DOMAIN Conclude(NewEvent(given), 0).answer = {}
BY DEF Conclude, NewEvent, Empty, ErrorCodes

LEMMA Failures ==
  ASSUME NEW given
  PROVE  LET failed == Conclude(SetError(NewEvent(given)), -1)
         IN  failed.code \in ErrorCodes /\ DOMAIN failed.answer = {}
BY DEF Conclude, SetError, Empty, ErrorCodes

(* Handlers that change something answer nothing. *)
LEMMA ChangedAnyhowIsRight ==
  ASSUME asked \in Services, asked' = asked,
         NEW action \in SetActions, NEW given, NEW refused \in BOOLEAN,
         refused => action \in Swallowing,
         action \in DOMAIN Described, ChangedAnyhow(action, given, refused)
  PROVE  RequestInv'
<1>1. Done(action, Conclude(NewEvent(given), 0), refused)
  BY DEF ChangedAnyhow
<1>2. Described[action] = <<>>
  BY SetActionsAnswerNothing
<1>3. Arguments(action) = {}
  BY <1>2 DEF Arguments
<1> QED BY <1>1, <1>3, Successes, DoneIsRight

LEMMA ChangedIsRight ==
  ASSUME asked \in Services, asked' = asked,
         NEW action \in SetActions, NEW given, NEW ok \in BOOLEAN,
         action \in DOMAIN Described, Changed(action, given, ok)
  PROVE  RequestInv'
<1>1. CASE ok
  <2>1. ChangedAnyhow(action, given, FALSE)
    BY <1>1 DEF Changed, ChangedAnyhow
  <2> QED BY <2>1, ChangedAnyhowIsRight
<1>2. CASE ~ok
  <2>1. Done(action, Conclude(SetError(NewEvent(given)), -1), TRUE)
    BY <1>2 DEF Changed
  <2> QED BY <2>1, Failures, DoneIsRight
<1> QED BY <1>1, <1>2

LEMMA SettersAreRight ==
  ASSUME RequestInv, asked' = asked, NEW given,
         \/ RequestSetURI(given) \/ RequestSetNextURI(given) \/ RequestPlay(given)
         \/ RequestPause(given) \/ RequestStop(given) \/ RequestSeek(given)
         \/ RequestControl(given)
  PROVE  RequestInv'
<1>0. asked \in Services
  BY DEF RequestInv
<1>1. \A action \in SetActions, ok \in BOOLEAN : \A g :
        action \in DOMAIN Described /\ Changed(action, g, ok) => RequestInv'
  <2> TAKE action \in SetActions, ok \in BOOLEAN
  <2> TAKE g
  <2> HAVE action \in DOMAIN Described /\ Changed(action, g, ok)
  <2> QED BY <1>0, ChangedIsRight
<1>9. \A action \in Swallowing, refused \in BOOLEAN : \A g :
        action \in DOMAIN Described /\ ChangedAnyhow(action, g, refused) => RequestInv'
  <2> TAKE action \in Swallowing, refused \in BOOLEAN
  <2> TAKE g
  <2> HAVE action \in DOMAIN Described /\ ChangedAnyhow(action, g, refused)
  <2>1. action \in SetActions
    BY DEF Swallowing, SetActions
  <2> QED BY <1>0, <2>1, ChangedAnyhowIsRight
<1>2. CASE RequestSetURI(given)
  BY <1>9, <1>2 DEF RequestSetURI, Accepted, Called, Swallowing
<1>3. CASE RequestSetNextURI(given)
  BY <1>1, <1>3 DEF RequestSetNextURI, Accepted, Called, SetActions
<1>4. CASE RequestPlay(given)
  BY <1>1, <1>4 DEF RequestPlay, Accepted, Called, SetActions
<1>5. CASE RequestPause(given)
  BY <1>1, <1>5 DEF RequestPause, Accepted, Called, SetActions
<1>6. CASE RequestStop(given)
  <2>1. PICK refused \in BOOLEAN : ChangedAnyhow("Stop", given, refused)
    BY <1>6 DEF RequestStop
  <2> QED BY <1>9, <1>6, <2>1 DEF RequestStop, Accepted, Called, Swallowing
<1>7. CASE RequestSeek(given)
  BY <1>9, <1>7 DEF RequestSeek, Accepted, Called, Swallowing
<1>8. CASE RequestControl(given)
  BY <1>1, <1>8 DEF RequestControl, Accepted, Called, SetActions
<1> QED BY <1>2, <1>3, <1>4, <1>5, <1>6, <1>7, <1>8

(* An argument that the handler checks is missing, or there is no such     *)
(* action.                                                                 *)
LEMMA MissingIsRight ==
  ASSUME RequestInv, asked' = asked, NEW action, NEW given, MissingArgument(action, given)
  PROVE  RequestInv'
<1>1. /\ Done(action, Conclude(GetStrings(NewEvent(given), Checked(action)), -1), TRUE)
      /\ ~(Checked(action) \subseteq given)
  BY DEF MissingArgument
<1>2. GetStrings(NewEvent(given), Checked(action)) = SetError(NewEvent(given))
  BY <1>1 DEF GetStrings, NewEvent
<1> QED BY <1>1, <1>2, Failures, DoneIsRight DEF RequestInv

LEMMA UnknownIsRight ==
  ASSUME RequestInv, asked' = asked, UnknownAction
  PROVE  RequestInv'
<1>1. Done("NoSuchAction", InvalidAction(NewEvent({})), TRUE)
  BY DEF UnknownAction
<1>2. /\ InvalidAction(NewEvent({})).code = "invalid_action"
      /\ DOMAIN InvalidAction(NewEvent({})).answer = {}
  BY DEF InvalidAction, NewEvent, Empty
<1> QED BY <1>1, <1>2, DoneIsRight DEF RequestInv, ErrorCodes

LEMMA QueryIsRight ==
  ASSUME RequestInv, asked' = asked, NEW v, QueryVariable(v)
  PROVE  RequestInv'
<1>1. CASE v \in Variables
  <2> DEFINE ev == [given |-> {v}, status |-> 0, code |-> "success",
                    answer |-> [n \in {v} |-> ValueOf(n)]]
  <2>1. Done("QueryStateVariable", ev, FALSE)
    BY <1>1 DEF QueryVariable
  <2>2. ev.code = "success"
    OBVIOUS
  <2> HIDE DEF ev
  <2> QED BY <2>1, <2>2, QueryIsNoAction, DoneIsRight DEF RequestInv, ErrorCodes
<1>2. CASE v \notin Variables
  <2> DEFINE ev == [given |-> {v}, status |-> 0, code |-> "invalid_variable",
                    answer |-> Empty]
  <2>1. Done("QueryStateVariable", ev, TRUE)
    BY <1>2 DEF QueryVariable
  <2>2. ev.code = "invalid_variable" /\ DOMAIN ev.answer = {}
    BY DEF Empty
  <2> HIDE DEF ev
  <2> QED BY <2>1, <2>2, DoneIsRight DEF RequestInv, ErrorCodes
<1> QED BY <1>1, <1>2

LEMMA ConstantsAreRight ==
  ASSUME RequestInv, asked' = asked, NEW action, NEW given, AnswerConstants(action, given)
  PROVE  RequestInv'
<1>1. CASE action = "GetVolumeDBRange"
  <2> DEFINE ev == Conclude(AddResponse(AddResponse(NewEvent(given), "MinValue",
                     VolumeDBRange.MinValue), "MaxValue", VolumeDBRange.MaxValue), 0)
  <2>1. Done(action, ev, FALSE) /\ action \in DOMAIN Described
    BY <1>1 DEF AnswerConstants, Accepted, Called
  <2>2. ev.code = "success" /\ DOMAIN ev.answer = {"MinValue", "MaxValue"}
    BY DEF Conclude, AddResponse, NewEvent, Empty
  <2>3. Described[action] = <<<<"MinValue", "VolumeDB">>, <<"MaxValue", "VolumeDB">>>>
    BY <1>1, <2>1, RangeIsDescribed DEF RequestInv
  <2>4. Arguments(action) = {<<"MinValue", "VolumeDB">>, <<"MaxValue", "VolumeDB">>}
    BY <2>3 DEF Arguments
  <2>5. DOMAIN ev.answer = {d[1] : d \in Arguments(action)}
    BY <2>2, <2>4
  <2>6. \A d \in Arguments(action) : d[1] \in OtherValue
    BY <2>4 DEF OtherValue
  <2> HIDE DEF ev
  <2> QED BY <2>1, <2>2, <2>5, <2>6, DoneIsRight DEF RequestInv, ErrorCodes
<1>2. CASE action = "GetCurrentConnectionIDs"
  <2> DEFINE ev == Conclude(AddResponse(NewEvent(given), "ConnectionIDs", "0"), -1)
  <2>1. Done(action, ev, FALSE) /\ action \in DOMAIN Described
    BY <1>2 DEF AnswerConstants, Accepted, Called
  <2>2. /\ ev.code = "unset" /\ DOMAIN ev.answer = {"ConnectionIDs"}
        /\ ev.answer["ConnectionIDs"] = "0"
    BY DEF Conclude, AddResponse, NewEvent, Empty
  <2>3. /\ asked = "ConnectionManager"
        /\ Described[action] = <<<<"ConnectionIDs", "CurrentConnectionIDs">>>>
    BY <1>2, <2>1, ConnectionIDsAreDescribed DEF RequestInv
  <2>4. Arguments(action) = {<<"ConnectionIDs", "CurrentConnectionIDs">>}
    BY <2>3 DEF Arguments
  <2>5. DOMAIN ev.answer = {d[1] : d \in Arguments(action)}
    BY <2>2, <2>4
  <2>6. ValueOf("CurrentConnectionIDs")' = "0"
    BY <2>3 DEF ValueOf, ConnectionConstants
  <2>7. \A d \in Arguments(action) : ev.answer[d[1]] = ValueOf(d[2])'
    BY <2>2, <2>4, <2>6
  <2> HIDE DEF ev
  <2> QED BY <2>1, <2>2, <2>5, <2>7, DoneIsRight DEF RequestInv, ErrorCodes
<1> QED BY <1>1, <1>2 DEF AnswerConstants

(* A handler begins to answer: nothing is appended yet. *)
LEMMA BeginIsRight ==
  ASSUME RequestInv, asked' = asked, NEW action, NEW given, BeginAnswer(action, given)
  PROVE  RequestInv'
<1> DEFINE table == Answers[action]
           ev == NewEvent(given)
<1>1. /\ req' = [pc |-> "answering", action |-> action, ev |-> ev, todo |-> table,
                 failed |-> FALSE]
      /\ action \in DOMAIN Answers
  BY DEF BeginAnswer
<1>2. Answers' = Answers
  BY SameTables
<1>3. table \in Seq(Entries(table))
  BY <1>1, TablesAgree DEF RequestInv, Readable
<1>4. /\ ev = [given |-> ev.given, status |-> ev.status, code |-> ev.code,
               answer |-> ev.answer]
      /\ ev.status = 0 /\ ev.code = "unset" /\ DOMAIN ev.answer = {}
  BY DEF NewEvent, Empty
<1> HIDE DEF table, ev
<1>5. /\ req'.pc = "answering" /\ req'.action = action /\ req'.ev = ev /\ req'.todo = table
      /\ Answers'[req'.action] = table
  BY <1>1, <1>2 DEF table
<1>6. Appended' = 0
  BY <1>3, <1>5 DEF Appended
<1>7. AnswerGrows'
  BY <1>1, <1>2, <1>3, <1>4, <1>5, <1>6 DEF AnswerGrows
<1>8. RequestForm' /\ ErrorsAreReported' /\ AnswersAsDescribed'
  BY <1>1 DEF RequestForm, ErrorsAreReported, AnswersAsDescribed
<1> QED BY <1>7, <1>8 DEF RequestInv

(* upnp_append_variable puts the next argument, and no other, into the     *)
(* answer.                                                                 *)
LEMMA AppendIsRight ==
  ASSUME RequestInv, asked' = asked, AppendVariable
  PROVE  RequestInv'
<1> DEFINE table == Answers[req.action]
           next == Head(req.todo)
           k == Appended
           ev == AddResponse(req.ev, next[1], ValueOf(next[2]))
<1>1. /\ req.pc = "answering" /\ req.todo # <<>> /\ AnswerGrows
      /\ req' = [req EXCEPT !.ev = ev, !.todo = Tail(req.todo)]
      /\ sv' = sv /\ cv' = cv /\ calm' = calm
  BY DEF AppendVariable, RequestInv, controlVars
<1>2. req' = [pc |-> "answering", action |-> req.action, ev |-> ev, todo |-> Tail(req.todo),
              failed |-> req.failed]
  BY <1>1 DEF RequestInv, RequestForm
<1>3. Answers' = Answers /\ \A v : ValueOf(v)' = ValueOf(v)
  BY <1>1, SameTables, SameValues
<1>4. table \in Seq(Entries(table)) /\ Distinct(table)
  BY <1>1, TablesAgree DEF RequestInv, AnswerGrows, Readable
<1>5. /\ req.todo \in Seq(Entries(table)) /\ k \in 0 .. Len(table)
      /\ k = Len(table) - Len(req.todo)
      /\ \A i \in DOMAIN req.todo : req.todo[i] = table[k + i]
  BY <1>1 DEF AnswerGrows, Appended
<1> HIDE DEF table, k
<1>6. /\ Len(req.todo) \in Nat \ {0} /\ Len(table) \in Nat
      /\ DOMAIN table = 1 .. Len(table) /\ k + 1 \in 1 .. Len(table)
      /\ k \in Nat /\ Len(table) = k + Len(req.todo)
  BY <1>1, <1>4, <1>5
<1>7. next = table[k + 1]
  <2>1. \A S : \A todo \in Seq(S) :
          todo # <<>> => Head(todo) = todo[1] /\ 1 \in DOMAIN todo
    OBVIOUS
  <2>2. next = req.todo[1] /\ 1 \in DOMAIN req.todo
    BY <1>1, <1>5, <2>1
  <2> QED BY <1>5, <1>6, <2>2
<1>8. /\ Tail(req.todo) \in Seq(Entries(table)) /\ Len(Tail(req.todo)) = Len(req.todo) - 1
      /\ \A i \in DOMAIN Tail(req.todo) : Tail(req.todo)[i] = table[(k + 1) + i]
  <2>1. /\ Tail(req.todo) \in Seq(Entries(table)) /\ Len(Tail(req.todo)) = Len(req.todo) - 1
        /\ \A i \in DOMAIN Tail(req.todo) :
             /\ i + 1 \in DOMAIN req.todo /\ i \in Nat
             /\ Tail(req.todo)[i] = req.todo[i + 1]
    BY <1>1, <1>5
  <2>2. \A i \in DOMAIN Tail(req.todo) : Tail(req.todo)[i] = table[(k + 1) + i]
    <3> TAKE i \in DOMAIN Tail(req.todo)
    <3>1. i + 1 \in DOMAIN req.todo /\ i \in Nat /\ Tail(req.todo)[i] = req.todo[i + 1]
      BY <2>1
    <3>2. req.todo[i + 1] = table[k + (i + 1)]
      BY <1>5, <3>1
    <3>3. k + (i + 1) = (k + 1) + i
      BY <1>6, <3>1
    <3> QED BY <3>1, <3>2, <3>3
  <2> QED BY <2>1, <2>2
<1>9. Appended' = k + 1 /\ Answers'[req'.action] = table
  <2>1. Len(table) - Len(Tail(req.todo)) = k + 1
    BY <1>6, <1>8
  <2>2. req'.action = req.action /\ req'.todo = Tail(req.todo)
    BY <1>2
  <2> QED BY <1>3, <2>1, <2>2 DEF Appended, table
<1>10. 1 .. (k + 1) = (1 .. k) \cup {k + 1}
  BY <1>6
<1>11. /\ req.ev = [given |-> req.ev.given, status |-> 0, code |-> "unset",
                    answer |-> req.ev.answer]
       /\ DOMAIN req.ev.answer = {table[i][1] : i \in 1 .. k}
       /\ calm => \A i \in 1 .. k : req.ev.answer[table[i][1]] = ValueOf(table[i][2])
  BY <1>1 DEF AnswerGrows, table, k
<1>12. ev = [given |-> req.ev.given, status |-> 0, code |-> "unset",
             answer |-> [n \in DOMAIN req.ev.answer \cup {next[1]} |->
                           IF n = next[1] THEN ValueOf(next[2]) ELSE req.ev.answer[n]]]
  BY <1>11 DEF AddResponse
<1> HIDE DEF ev, next
<1>13. DOMAIN ev.answer = {table[i][1] : i \in 1 .. (k + 1)}
  BY <1>7, <1>10, <1>11, <1>12
<1>14. ASSUME calm, NEW i \in 1 .. (k + 1)
       PROVE  ev.answer[table[i][1]] = ValueOf(table[i][2])
  <2>1. CASE i = k + 1
    BY <1>7, <1>12, <2>1
  <2>2. CASE i \in 1 .. k
    <3>1. i \in DOMAIN table /\ k + 1 \in DOMAIN table /\ i # k + 1
      BY <1>6, <2>2
    <3>2. table[i][1] # next[1]
      BY <1>4, <1>7, <3>1 DEF Distinct
    <3>3. table[i][1] \in DOMAIN req.ev.answer
      BY <1>11, <2>2
    <3>4. ev.answer[table[i][1]] = req.ev.answer[table[i][1]]
      BY <1>12, <3>2, <3>3
    <3> QED BY <1>11, <1>14, <2>2, <3>4
  <2> QED BY <1>10, <2>1, <2>2
<1>15. /\ req'.action = req.action /\ req'.ev = ev /\ req'.todo = Tail(req.todo)
       /\ req.action \in DOMAIN Answers
       /\ ev = [given |-> ev.given, status |-> ev.status, code |-> ev.code,
                answer |-> ev.answer]
       /\ ev.status = 0 /\ ev.code = "unset"
  BY <1>1, <1>2, <1>12 DEF AnswerGrows
<1>16. AnswerGrows'
  BY <1>1, <1>3, <1>6, <1>8, <1>9, <1>13, <1>14, <1>15 DEF AnswerGrows
<1>17. RequestForm' /\ ErrorsAreReported' /\ AnswersAsDescribed'
  BY <1>2 DEF RequestForm, ErrorsAreReported, AnswersAsDescribed
<1> QED BY <1>16, <1>17 DEF RequestInv

(* The answer is complete when everything is appended. *)
LEMMA EndIsRight ==
  ASSUME RequestInv, asked' = asked, EndAnswer
  PROVE  RequestInv'
<1> DEFINE action == req.action
           table == Answers[action]
           ev == Conclude(req.ev, 0)
<1>1. /\ Done(action, ev, FALSE) /\ AnswerGrows /\ req.todo = <<>>
      /\ sv' = sv /\ cv' = cv /\ calm' = calm
  BY DEF EndAnswer, RequestInv, controlVars
<1>2. /\ req.ev = [given |-> req.ev.given, status |-> req.ev.status, code |-> req.ev.code,
                   answer |-> req.ev.answer]
      /\ action \in DOMAIN Answers
  BY <1>1 DEF AnswerGrows
<1>3. ev.code = "success" /\ ev.answer = req.ev.answer
  BY <1>2 DEF Conclude
<1>4. table \in Seq(Entries(table))
  BY <1>2, TablesAgree DEF RequestInv, Readable
<1> HIDE DEF ev, action, table
<1>5. Appended = Len(table) /\ DOMAIN table = 1 .. Len(table)
  BY <1>1, <1>4 DEF Appended, table, action
<1>6. /\ DOMAIN req.ev.answer = {table[i][1] : i \in DOMAIN table}
      /\ calm => \A i \in DOMAIN table : req.ev.answer[table[i][1]] = ValueOf(table[i][2])
  BY <1>1, <1>5 DEF AnswerGrows, table, action
<1>7. ASSUME action \in DOMAIN Described \ Divergent
      PROVE  /\ DOMAIN ev.answer = {d[1] : d \in Arguments(action)}
             /\ calm' => \A d \in Arguments(action) :
                           d[1] \in OtherValue \/ ev.answer[d[1]] = ValueOf(d[2])'
  <2>1. Agree(table, Described[action])
    BY <1>2, <1>7, TablesAgree DEF RequestInv, table
  <2>2. DOMAIN ev.answer = {d[1] : d \in Arguments(action)}
    BY <1>3, <1>6, <2>1 DEF Agree, Arguments
  <2>3. ASSUME calm', NEW d \in Arguments(action), d[1] \notin OtherValue
        PROVE  ev.answer[d[1]] = ValueOf(d[2])'
    <3>1. PICK i \in DOMAIN table : d = Described[action][i]
      BY <2>1 DEF Agree, Arguments
    <3>2. d[1] = table[i][1] /\ d[2] = table[i][2]
      BY <2>1, <2>3, <3>1 DEF Agree
    <3>3. ev.answer[d[1]] = ValueOf(d[2])
      BY <1>1, <1>3, <1>6, <2>3, <3>2
    <3> QED BY <1>1, <3>3, SameValues
  <2> QED BY <2>2, <2>3
<1> QED BY <1>1, <1>3, <1>7, DoneIsRight DEF RequestInv, ErrorCodes

(* Other requests and the feedback of the output change no answer. *)
LEMMA OthersAreRight ==
  ASSUME RequestInv, asked' = asked, req.pc # "done",
         req' = req, calm' => req.pc = "idle" \/ (calm /\ sv' = sv /\ cv' = cv)
  PROVE  RequestInv'
<1>1. Answers' = Answers
  BY SameTables
<1>2. RequestForm' /\ ErrorsAreReported' /\ AnswersAsDescribed'
  BY DEF RequestInv, RequestForm, ErrorsAreReported, AnswersAsDescribed
<1>3. ASSUME req.pc = "answering" PROVE AnswerGrows'
  <2>1. AnswerGrows /\ Appended' = Appended
    BY <1>1, <1>3 DEF RequestInv, Appended
  <2>2. calm' => calm /\ \A v : ValueOf(v)' = ValueOf(v)
    BY <1>3, SameValues
  <2> QED BY <1>1, <2>1, <2>2 DEF AnswerGrows
<1> QED BY <1>2, <1>3 DEF RequestInv

LEMMA NothingAsked ==
  ASSUME asked' \in Services, req' = Idle
  PROVE  RequestInv'
BY DEF RequestInv, Idle, RequestForm, ErrorsAreReported, AnswersAsDescribed

LEMMA RequestInvHoldsAtStart == RequestInit => RequestInv
BY DEF RequestInit, RequestInv, Idle, RequestForm, ErrorsAreReported, AnswersAsDescribed

LEMMA RequestInvIsKept == RequestInv /\ [RequestNext]_requestVars => RequestInv'
<1> SUFFICES ASSUME RequestInv, [RequestNext]_requestVars PROVE RequestInv'
  OBVIOUS
<1>1. asked' = asked
  BY DEF RequestNext, requestVars
<1>2. ASSUME NEW action, NEW given,
             \/ MissingArgument(action, given) \/ BeginAnswer(action, given)
             \/ AnswerConstants(action, given)
      PROVE  RequestInv'
  BY <1>1, <1>2, MissingIsRight, BeginIsRight, ConstantsAreRight
<1>3. ASSUME NEW v, QueryVariable(v) PROVE RequestInv'
  BY <1>1, <1>3, QueryIsRight
<1>4. CASE UnknownAction \/ AppendVariable \/ EndAnswer
  BY <1>1, <1>4, UnknownIsRight, AppendIsRight, EndIsRight
<1>5. CASE Return
  BY <1>1, <1>5, NothingAsked DEF Return, RequestInv
<1>6. CASE Others
  BY <1>1, <1>6, OthersAreRight DEF Others
<1>7. CASE UNCHANGED requestVars
  <2>1. /\ UNCHANGED <<req, calm, asked>> /\ Answers' = Answers /\ Described' = Described
        /\ \A v : ValueOf(v)' = ValueOf(v)
    BY <1>7, SameTables, SameValues DEF requestVars, controlVars
  <2>2. Appended' = Appended
    BY <2>1 DEF Appended
  <2> QED
    BY <2>1, <2>2 DEF RequestInv, RequestForm, AnswerGrows, ErrorsAreReported,
                      AnswersAsDescribed
<1> QED
  BY <1>1, <1>2, <1>3, <1>4, <1>5, <1>6, <1>7, SettersAreRight DEF RequestNext

LEMMA RequestInvHolds == RequestSpec => []RequestInv
BY RequestInvHoldsAtStart, RequestInvIsKept, PTL DEF RequestSpec

(* Every action but GetDeviceCapabilities, GetTransportSettings and        *)
(* GetVolumeDB, unless it gets an error, is answered with exactly the      *)
(* arguments that the SCPD lists; and but for PlayMedium, ConnectionID,    *)
(* MinValue and MaxValue each has the value of its variable, unless        *)
(* something changed while upnp_append_variable collected them.            *)
THEOREM AnswersAreDescribed == RequestSpec => []AnswersAsDescribed
<1>1. RequestInv => AnswersAsDescribed
  BY DEF RequestInv
<1> QED BY <1>1, RequestInvHolds, PTL

(* A control point gets an error, without any part of an answer, only when *)
(* its request failed, and always then, but for failures of the output in  *)
(* SetAVTransportURI, Stop and Seek.                                       *)
THEOREM ErrorsReachControlPoints == RequestSpec => []ErrorsAreReported
<1>1. RequestInv => ErrorsAreReported
  BY DEF RequestInv
<1> QED BY <1>1, RequestInvHolds, PTL
=============================================================================
