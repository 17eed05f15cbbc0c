------------------------------ MODULE AtConfig ------------------------------
(***************************************************************************)
(* The settings of the AT command firmware (project/at_demo/functions.c    *)
(* and src/atcmd): AT&W saves them with a counter in the older of two      *)
(* flash areas, each managed by Fdcm; at start the newer one is loaded,    *)
(* and where there is none the factory settings are saved.                 *)
(*                                                                         *)
(* An area is here what Fdcm shows it to be, an NVRegister: a write cut    *)
(* short leaves the old record, the new one, none, erased bytes, which     *)
(* fdcm_read hands over as any others, or bytes partly programmed.         *)
(***************************************************************************)
EXTENDS Integers

CONSTANTS Cfgs,       \* the settings a user may make
          Default,    \* default_cfg
          W,          \* bound: the counter wraps at W, in the code at 2^32
          CutLeaves   \* what a write cut short may leave of the record before it

\* A record, and what is found in an area without one.
Missing == [cnt |-> 0, cfg |-> "missing"]
Blank   == [cnt |-> W - 1, cfg |-> "blank"]

ASSUME AtConfigAssumption ==
  /\ W \in Nat /\ 3 < W
  /\ CutLeaves \subseteq {"missing", "blank", "garbage"}
  /\ (Cfgs \cup {Default}) \cap {"missing", "blank", "garbage", "idle"} = {}

VARIABLES
  area,  \* the record fdcm_read finds in each area
  pc,    \* "boot", "ready" for a command, or "write": in fdcm_write
  cfg,   \* at_cfg
  idx,   \* save: the area to write
  new,   \* save: the record to write
  may    \* history: the settings the next start may load

vars == <<area, pc, cfg, idx, new, may>>

Settings == Cfgs \cup {Default}
Counts   == 0 .. W - 1
Contents == Settings \cup {"blank", "garbage"}
Records  == [cnt : Counts, cfg : Contents]
Garbage  == [cnt : Counts, cfg : {"garbage"}]

-----------------------------------------------------------------------------
(* save and load read both areas.                                          *)

Found(i) == area[i] # Missing

\* load: the area with the greater counter, the second of equals.
LoadFrom ==
  CASE Found(0) /\ Found(1) -> IF area[0].cnt > area[1].cnt THEN 0 ELSE 1
    [] Found(0) /\ ~Found(1) -> 0
    [] OTHER -> 1

\* Mutant of SaveTo: the test is that of load.
SaveToNewer == LoadFrom

\* save: the other one, the first when nothing was saved yet.
SaveTo ==
  CASE Found(0) /\ Found(1) -> IF area[0].cnt > area[1].cnt THEN 1 ELSE 0
    [] Found(0) /\ ~Found(1) -> 1
    [] OTHER -> 0

\* Mutant of NextCnt: the counter of the area written is taken.
NextCntOwn == IF Found(SaveTo) THEN (area[SaveTo].cnt + 1) % W ELSE 1

\* The counter of the record save writes: one more than the one load would
\* take, as an unsigned number.
NextCnt ==
  IF Found(0) \/ Found(1) THEN (area[1 - SaveTo].cnt + 1) % W ELSE 1

Save(c) ==
  /\ NextCnt # W - 1   \* bound: fewer than W - 2 saves
  /\ idx' = SaveTo
  /\ new' = [cnt |-> NextCnt, cfg |-> c]
  /\ may' = may \cup {c}
  /\ pc' = "write"
  /\ UNCHANGED area

-----------------------------------------------------------------------------
Init ==
  /\ area = [i \in 0 .. 1 |-> Missing]
  /\ pc = "boot" /\ cfg = Default
  /\ idx = 0 /\ new = [cnt |-> 0, cfg |-> Default]
  /\ may = {Default}

\* at_init: load, ...
Load ==
  /\ pc = "boot"
  /\ Found(0) \/ Found(1)
  /\ cfg' = area[LoadFrom].cfg
  /\ pc' = "ready"
  /\ UNCHANGED <<area, idx, new, may>>

\* ... or the factory settings, which are saved.
Factory ==
  /\ pc = "boot" /\ ~Found(0) /\ ~Found(1)
  /\ cfg' = Default
  /\ Save(Default)

\* AT&F.
AtFactory == pc = "ready" /\ cfg' = Default /\ Save(Default)

\* AT+S.SCFG and AT+S.SSIDTXT change the settings in memory.
AtSetCfg ==
  /\ pc = "ready"
  /\ cfg' \in Cfgs
  /\ UNCHANGED <<area, pc, idx, new, may>>

\* AT&W.
AtSave ==
  /\ pc = "ready"
  /\ Save(cfg)
  /\ UNCHANGED cfg

\* Mutant of Written: the record goes to the other area.
WrittenOther ==
  /\ pc = "write"
  /\ area' = [area EXCEPT ![1 - idx] = new]
  /\ may' = {new.cfg}
  /\ pc' = "ready"
  /\ UNCHANGED <<cfg, idx, new>>

\* fdcm_write succeeds, and the command answers OK.
Written ==
  /\ pc = "write"
  /\ area' = [area EXCEPT ![idx] = new]
  /\ may' = {new.cfg}
  /\ pc' = "ready"
  /\ UNCHANGED <<cfg, idx, new>>

\* What fdcm_write may leave when it does not end.
Left ==
  {area[idx], new}
    \cup (IF "missing" \in CutLeaves THEN {Missing} ELSE {})
    \cup (IF "blank"   \in CutLeaves THEN {Blank}   ELSE {})
    \cup (IF "garbage" \in CutLeaves THEN Garbage   ELSE {})

PowerFails ==
  /\ pc # "boot"
  /\ IF pc = "write" THEN \E r \in Left : area' = [area EXCEPT ![idx] = r]
                     ELSE UNCHANGED area
  /\ pc' = "boot"
  /\ UNCHANGED <<cfg, idx, new, may>>

\* fdcm_write reports an error: save returns AEC_UNDEFINED.  at_save and
\* factory drop it, and the command answers OK although nothing is saved.
WriteFails ==
  /\ pc = "write"
  /\ \E r \in Left : area' = [area EXCEPT ![idx] = r]
  /\ pc' = "ready"
  /\ UNCHANGED <<cfg, idx, new, may>>

Next ==
  \/ Load \/ Factory \/ AtFactory \/ AtSetCfg \/ AtSave
  \/ Written \/ PowerFails \/ WriteFails

Spec == Init /\ [][Next]_vars

-----------------------------------------------------------------------------
(* Properties.                                                             *)

TypeOK ==
  /\ area \in [0 .. 1 -> {Missing} \cup Records]
  /\ pc \in {"boot", "ready", "write"}
  /\ cfg \in Contents
  /\ idx \in 0 .. 1
  /\ new \in Records
  /\ may \subseteq Contents

\* What a start would load now.
Loaded == IF Found(0) \/ Found(1) THEN area[LoadFrom].cfg ELSE Default

\* A start loads the settings saved last, or those of a save that was cut
\* short or failed after it; never older ones and never bytes nobody saved.
LoadIsSaved == pc # "write" => Loaded \in may

\* The area a save is going to write is not the one a start would load: the
\* record in use survives the save, whatever it finds in the areas.
SparesLoaded ==
  pc # "write" /\ pc' = "write" /\ (Found(0) \/ Found(1)) => idx' # LoadFrom

SaveSparesLoaded == [][SparesLoaded]_vars

\* Each area is used as a store of one record is meant to be: it changes only
\* in a write to it, to the record written or to none.
Lost == {Missing, Blank} \cup Garbage
Idle == [cnt |-> 0, cfg |-> "idle"]
Erase == [cnt |-> 0, cfg |-> "erase"]
Doing(i) == IF pc = "write" /\ idx = i THEN new ELSE Idle

Area0 == INSTANCE NVRegister WITH Vals <- Records, reg <- area[0], doing <- Doing(0)
Area1 == INSTANCE NVRegister WITH Vals <- Records, reg <- area[1], doing <- Doing(1)

AreasAreRegisters == Area0!Spec /\ Area1!Spec
=============================================================================
