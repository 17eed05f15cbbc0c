------------------------------ MODULE MCAtDemo ------------------------------
(***************************************************************************)
(* Instances of AtDemo: the frames of the water sensor's MCU, with their   *)
(* real bytes.                                                             *)
(***************************************************************************)
EXTENDS AtDemo

\* A Tuya frame: header, command, length, data, sum of all of it.
Frame(cmd, data) ==
  LET f == <<85, 170, 0, cmd, Len(data) \div 256, Len(data) % 256>> \o data
  IN Append(f, FoldSeq(LAMBDA x, y : x + y, 0, f) % 256)

Dp(id, val) == <<id, 4, 0, 1, val>>

Alarm      == Frame(5, Dp(1, 0))                 \* 12 bytes
AllNormal  == Frame(5, Dp(1, 1) \o Dp(3, 2))     \* 17 bytes
BatteryLow == Frame(5, Dp(3, 0) \o Dp(9, 1))     \* with a unit of no interest
WifiTest   == Frame(7, <<>>)
StatusAck  == Frame(2, <<>>)

ShortFrames  == {Alarm, AllNormal, BatteryLow, WifiTest, StatusAck}
ReportFrames == {Alarm, AllNormal}

ASSUME FramesAssumption == \A f \in ShortFrames : Regular(f)
=============================================================================
