--------------------------- MODULE OtaBootProofs ----------------------------
(***************************************************************************)
(* Proofs about OtaBoot, for every number of sections and every size of    *)
(* the area of an image.                                                   *)
(***************************************************************************)
EXTENDS OtaBoot, TLAPS

USE OtaBootAssumption DEF OtaBootAssumption, IMAGE_SEQ_NUM, Seqs, NoSeq, Chunks,
    App, Ver, Sound, Policy, Running

\* An update goes on with an image whose sections were found valid, and with
\* its verification data if they were written.
Updating ==
  /\ pc \in {"erase", "fetch"} => ~due
  /\ pc = "write" /\ due => Ver < k
  /\ pc \in {"write", "check", "verify"} /\ due => area[Upd][Ver] \in Sound
  /\ pc \in {"verify", "setcfg", "reboot"} => Whole(Upd)
  /\ pc \in {"setcfg", "reboot"} => want = Upd /\ (due => Exact(want))
  /\ pc = "reboot" => cfg = want

\* Until the new image is named, the configuration leads to the one that runs.
Agreed ==
  /\ Whole(First)
  /\ pc \in Running => run = booted /\ Whole(booted)
  /\ pc \in Running \ {"setcfg", "reboot"} => cfg = booted
  /\ pc = "start" => cfg = booted
  /\ pc = "bootcfg" => want = 0 /\ booted = 0 /\ cfg = NoSeq

IInv == TypeOK /\ Updating /\ (~upset => Agreed)

-----------------------------------------------------------------------------
LEMMA SeqFacts ==
  ASSUME TypeOK
  PROVE  First \in Seqs /\ Upd \in Seqs /\ Upd = 1 - run /\ Upd # run
BY DEF TypeOK, First, Upd

\* The bootloader starts the first image it tries, if that loads.
LEMMA BootFirst ==
  ASSUME TypeOK, Loads(First)
  PROVE  \A s \in Seqs : Booted(s) <=> s = First
<1>1. LoadSeq(0) = First /\ \A i \in Seqs : LoadSeq(i) \in Seqs
  BY SeqFacts DEF LoadSeq
<1>2. ASSUME NEW s \in Seqs, Booted(s) PROVE s = First
  <2>1. PICK i \in Seqs : s = LoadSeq(i) /\ \A j \in 0 .. i - 1 : ~Loads(LoadSeq(j))
    BY <1>2 DEF Booted
  <2>2. CASE i = 0
    BY <2>1, <2>2, <1>1
  <2>3. CASE i = 1
    BY <2>1, <2>3, <1>1
  <2>4. QED
    BY <2>2, <2>3
<1>3. Booted(First)
  BY <1>1 DEF Booted
<1>4. QED
  BY <1>2, <1>3

\* A chunk put into the image to update leaves the other one alone.
LEMMA PutFacts ==
  ASSUME TypeOK, NEW c \in Chunk, Put(c)
  PROVE  /\ area' \in [Seqs -> [Chunks -> Chunk]]
         /\ area'[run] = area[run]
         /\ \A s \in Seqs : s # Upd => area'[s] = area[s]
         /\ \A i \in Chunks : i # k => area'[Upd][i] = area[Upd][i]
         /\ area'[Upd][k] = c
BY SeqFacts DEF TypeOK, Put

LEMMA TypeStep == TypeOK /\ [Next]_vars => TypeOK'
<1> SUFFICES ASSUME TypeOK, [Next]_vars PROVE TypeOK'
  OBVIOUS
<1> USE SeqFacts DEF TypeOK
<1>1. CASE Boot
  BY <1>1 DEF Boot
<1>2. CASE Upgrade
  BY <1>2 DEF Upgrade
<1>3. CASE Start
  <2>1. run' \in Seqs
    BY <1>3 DEF Start
  <2>2. upset' \in BOOLEAN
    BY <1>3, Zenon DEF Start
  <2>3. QED
    BY <1>3, <2>1, <2>2 DEF Start
<1>4. CASE CfgLost \/ CfgStored \/ CfgFails
  BY <1>4 DEF CfgLost, CfgStored, CfgFails
<1>5. CASE Skip \/ SkipFails \/ Eof \/ ReceiveFails
  BY <1>5 DEF Skip, SkipFails, Eof, ReceiveFails, Back
<1>6. CASE GetImage
  <2>1. due' \in BOOLEAN
    BY <1>6, Zenon DEF GetImage
  <2>2. 1 \in Chunks
    OBVIOUS
  <2>3. QED
    BY <1>6, <2>1, <2>2 DEF GetImage
<1>7. CASE EraseChunk
  <2>1. area' \in [Seqs -> [Chunks -> Chunk]]
    BY <1>7, PutFacts DEF EraseChunk, Chunk
  <2>2. QED
    BY <1>7, <2>1 DEF EraseChunk
<1>8. CASE EraseFails
  <2>1. area' \in [Seqs -> [Chunks -> Chunk]]
    BY <1>8, PutFacts DEF EraseFails, Chunk
  <2>2. QED
    BY <1>8, <2>1 DEF EraseFails, Back
<1>9. CASE Write
  <2>1. area' \in [Seqs -> [Chunks -> Chunk]] /\ due' \in BOOLEAN
    BY <1>9, PutFacts DEF Write, Chunk
  <2>2. QED
    BY <1>9, <2>1 DEF Write
<1>10. CASE WriteFails
  <2>1. area' \in [Seqs -> [Chunks -> Chunk]]
    BY <1>10, PutFacts DEF WriteFails, Chunk
  <2>2. QED
    BY <1>10, <2>1 DEF WriteFails
<1>11. CASE CheckSections \/ VerifyImage \/ Reboot
  BY <1>11 DEF CheckSections, VerifyImage, Reboot
<1>12. CASE PowerFails
  <2>1. area' \in [Seqs -> [Chunks -> Chunk]]
    BY <1>12, PutFacts DEF PowerFails, Chunk
  <2>2. QED
    BY <1>12, <2>1 DEF PowerFails
<1>13. CASE UNCHANGED vars
  BY <1>13 DEF vars
<1>14. QED
  BY <1>1, <1>2, <1>3, <1>4, <1>5, <1>6, <1>7, <1>8, <1>9, <1>10, <1>11, <1>12, <1>13
     DEF Next

LEMMA UpdatingStep == TypeOK /\ Updating /\ [Next]_vars => Updating'
<1> SUFFICES ASSUME TypeOK, Updating, [Next]_vars PROVE Updating'
  OBVIOUS
<1> USE SeqFacts DEF Updating
<1>1. CASE Boot \/ Upgrade \/ Start
  BY <1>1 DEF Boot, Upgrade, Start
<1>2. CASE CfgLost \/ CfgStored \/ CfgFails
  BY <1>2 DEF CfgLost, CfgStored, CfgFails, Setting, Upd, Whole, Exact
<1>3. CASE GetImage \/ SkipFails \/ ReceiveFails \/ Reboot \/ PowerFails \/ EraseFails
  BY <1>3 DEF GetImage, SkipFails, ReceiveFails, Reboot, PowerFails, EraseFails, Back
<1>4. CASE Skip \/ Eof
  BY <1>4 DEF Skip, Eof, Upd
<1>5. CASE EraseChunk
  BY <1>5 DEF EraseChunk
<1>6. CASE Write
  <2>1. PICK c \in {"bad", "weak", "good"} :
          Put(c) /\ due' = (due \/ (k = Ver /\ c \in Sound))
    BY <1>6 DEF Write
  <2>2. c \in Chunk /\ Upd' = Upd /\ k \in Chunks /\ Ver \in Chunks
    BY <1>6 DEF Write, Chunk, Upd, TypeOK
  <2>3. due' => area'[Upd][Ver] \in Sound /\ Ver < k + 1
    <3>1. ASSUME due PROVE area'[Upd][Ver] \in Sound /\ Ver < k + 1
      <4>1. Ver < k /\ area[Upd][Ver] \in Sound /\ k \in Nat
        BY <3>1, <1>6 DEF Write, TypeOK
      <4>2. area'[Upd][Ver] = area[Upd][Ver]
        BY <2>1, <2>2, <4>1, PutFacts
      <4>3. QED
        BY <4>1, <4>2
    <3>2. ASSUME k = Ver, c \in Sound PROVE area'[Upd][Ver] \in Sound /\ Ver < k + 1
      BY <2>1, <2>2, <3>2, PutFacts
    <3>3. QED
      BY <2>1, <3>1, <3>2
  <2>4. QED
    BY <1>6, <2>2, <2>3 DEF Write
<1>7. CASE WriteFails
  <2>1. PICK c \in {"blank", "bad"} : Put(c)
    BY <1>7 DEF WriteFails
  <2>2. c \in Chunk /\ Upd' = Upd /\ due' = due /\ Ver \in Chunks
    BY <1>7 DEF WriteFails, Chunk, Upd
  <2>3. due' => area'[Upd][Ver] \in Sound
    BY <2>1, <2>2, <1>7, PutFacts DEF WriteFails
  <2>4. QED
    BY <1>7, <2>2, <2>3 DEF WriteFails
<1>8. CASE CheckSections
  BY <1>8 DEF CheckSections, Upd, Whole
<1>9. CASE VerifyImage
  <2>1. Upd' = Upd /\ area' = area
    BY <1>9 DEF VerifyImage, Upd
  <2>2. CASE Verified
    <3>1. Whole(Upd)' /\ (due' => Exact(Upd)')
      BY <1>9, <2>1, <2>2 DEF VerifyImage, Verified, Whole, Exact
    <3>2. QED
      BY <1>9, <2>1, <2>2, <3>1 DEF VerifyImage, Whole, Exact
  <2>3. CASE ~Verified
    BY <1>9, <2>3 DEF VerifyImage
  <2>4. QED
    BY <2>2, <2>3
<1>10. CASE UNCHANGED vars
  BY <1>10 DEF vars, Upd, Whole, Exact
<1>11. QED
  BY <1>1, <1>2, <1>3, <1>4, <1>5, <1>6, <1>7, <1>8, <1>9, <1>10 DEF Next

\* Before the new image is named, a step that touches no more than the image to
\* update keeps the agreement.
LEMMA AgreedKept ==
  ASSUME TypeOK, Agreed, pc \in Running \ {"setcfg", "reboot"},
         UNCHANGED <<cfg, booted, run>>, area'[run] = area[run],
         pc' \in {"off", "upgrade"} \cup Running
  PROVE  Agreed'
<1>1. cfg = run /\ First = run /\ First' = run /\ run \in Seqs /\ booted = run
  BY DEF Agreed, First, TypeOK
<1>2. Whole(run)'
  BY <1>1 DEF Agreed, Whole
<1>3. QED
  BY <1>1, <1>2 DEF Agreed, Whole

LEMMA AgreedStep == IInv /\ [Next]_vars /\ ~upset' => Agreed'
<1> SUFFICES ASSUME IInv, [Next]_vars, ~upset' PROVE Agreed'
  OBVIOUS
<1> USE SeqFacts
<1>1. TypeOK /\ Updating /\ First \in Seqs
  BY DEF IInv
<1>2. ~upset /\ Agreed
  <2>1. ~upset
    BY DEF Next, vars, Boot, Upgrade, Start, CfgLost, CfgStored, CfgFails, GetImage,
           EraseChunk, EraseFails, Skip, SkipFails, Write, Eof, ReceiveFails, WriteFails,
           CheckSections, VerifyImage, Reboot, PowerFails, Back
  <2>2. QED
    BY <2>1 DEF IInv
<1>3. CASE Boot
  <2>1. Loads(First)
    BY <1>1, <1>2 DEF Agreed, Whole, Loads
  <2>2. booted' = First /\ want' = First
    BY <1>1, <1>3, <2>1, BootFirst DEF Boot
  <2>3. First' = First /\ Whole(First)'
    BY <1>2, <1>3 DEF Boot, First, Agreed, Whole
  <2>4. pc' = IF First = cfg THEN "start" ELSE "bootcfg"
    BY <1>1, <1>3, <2>1, BootFirst DEF Boot
  <2>5. QED
    BY <1>3, <2>2, <2>3, <2>4 DEF Boot, Agreed, First
<1>4. CASE Upgrade
  BY <1>2, <1>4 DEF Upgrade, Agreed, First, Whole
<1>5. CASE Start
  BY <1>1, <1>2, <1>5 DEF Start, Agreed, First, Whole, TypeOK
<1>6. CASE CfgLost
  <2>1. CASE pc = "bootcfg"
    BY <1>1, <1>2, <1>6, <2>1 DEF CfgLost, Agreed, First, Whole, TypeOK
  <2>2. CASE pc = "setcfg"
    <3>1. Whole(run) /\ Whole(Upd) /\ run = booted
      BY <1>1, <1>2, <2>2 DEF Agreed, Updating
    <3>2. Whole(0)
      BY <1>1, <3>1 DEF Upd, TypeOK
    <3>3. First' = 0 /\ UNCHANGED <<area, pc, run, booted>>
      BY <1>6 DEF CfgLost, First
    <3>4. QED
      BY <2>2, <3>1, <3>2, <3>3 DEF Agreed, Whole
  <2>3. QED
    BY <1>6, <2>1, <2>2 DEF CfgLost, Setting
<1>7. CASE CfgStored
  <2>1. CASE pc = "bootcfg"
    BY <1>1, <1>2, <1>7, <2>1 DEF CfgStored, Agreed, First, Whole, TypeOK
  <2>2. CASE pc = "setcfg"
    BY <1>1, <1>2, <1>7, <2>2 DEF CfgStored, Agreed, Updating, First, Whole, TypeOK
  <2>3. QED
    BY <1>7, <2>1, <2>2 DEF CfgStored, Setting
<1>8. CASE CfgFails
  BY <1>8 DEF CfgFails
<1>9. CASE GetImage \/ Skip \/ SkipFails \/ Eof \/ ReceiveFails
  BY <1>1, <1>2, <1>9, AgreedKept DEF GetImage, Skip, SkipFails, Eof, ReceiveFails, Back
<1>10. CASE EraseChunk
  BY <1>1, <1>2, <1>10, AgreedKept, PutFacts DEF EraseChunk, Chunk
<1>11. CASE EraseFails
  BY <1>1, <1>2, <1>11, AgreedKept, PutFacts DEF EraseFails, Back, Chunk
<1>12. CASE Write
  BY <1>1, <1>2, <1>12, AgreedKept, PutFacts DEF Write, Chunk
<1>13. CASE WriteFails
  BY <1>1, <1>2, <1>13, AgreedKept, PutFacts DEF WriteFails, Chunk
<1>14. CASE CheckSections
  BY <1>1, <1>2, <1>14, AgreedKept DEF CheckSections
<1>15. CASE VerifyImage
  BY <1>1, <1>2, <1>15, AgreedKept DEF VerifyImage
<1>16. CASE Reboot
  BY <1>2, <1>16 DEF Reboot, Agreed, First, Whole
<1>17. CASE PowerFails
  <2>1. CASE UNCHANGED area
    BY <1>2, <1>17, <2>1 DEF PowerFails, Agreed, First, Whole
  <2>2. CASE pc \in {"erase", "write"} /\ Put("bad")
    BY <1>1, <1>2, <1>17, <2>2, AgreedKept, PutFacts DEF PowerFails, Chunk
  <2>3. QED
    BY <1>17, <2>1, <2>2 DEF PowerFails
<1>18. CASE UNCHANGED vars
  BY <1>2, <1>18 DEF vars, Agreed, First, Whole
<1>19. QED
  BY <1>3, <1>4, <1>5, <1>6, <1>7, <1>8, <1>9, <1>10, <1>11, <1>12, <1>13, <1>14, <1>15,
     <1>16, <1>17, <1>18 DEF Next

LEMMA Inductive == Spec => []IInv
<1>1. Init => IInv
  <2> SUFFICES ASSUME Init PROVE IInv
    OBVIOUS
  <2>1. TypeOK
    <3>1. due \in BOOLEAN /\ upset \in BOOLEAN
      BY Zenon DEF Init
    <3>2. area \in [Seqs -> [Chunks -> Chunk]]
      BY DEF Init, Chunk
    <3>3. QED
      BY <3>1, <3>2 DEF Init, TypeOK
  <2>2. Updating
    BY DEF Init, Updating
  <2>3. Agreed
    <3>1. pc = "off" /\ First = 0
      BY DEF Init, First
    <3>2. \A i \in 1 .. Secs : area[0][i] = "good"
      BY DEF Init
    <3>3. QED
      BY <3>1, <3>2 DEF Agreed, Whole
  <2>4. QED
    BY <2>1, <2>2, <2>3 DEF IInv
<1>2. IInv /\ [Next]_vars => IInv'
  BY TypeStep, UpdatingStep, AgreedStep DEF IInv
<1>3. QED
  BY <1>1, <1>2, PTL DEF Spec

-----------------------------------------------------------------------------
\* Images, configuration and positions keep their types.
THEOREM TypeCorrect == Spec => []TypeOK
<1>1. IInv => TypeOK
  BY DEF IInv
<1>2. QED
  BY <1>1, Inductive, PTL

\* Wherever the power fails, the image tried first is whole, as long as the
\* configuration could be written and read.
THEOREM BootsWholeCorrect == Spec => []BootsWhole
<1>1. IInv => BootsWhole
  BY DEF IInv, Agreed, BootsWhole
<1>2. QED
  BY <1>1, Inductive, PTL

\* The restart after an update starts the new image, with or without trouble
\* before it.
THEOREM UpdateTakesCorrect == Spec => []UpdateTakes
<1>1. IInv => UpdateTakes
  <2> SUFFICES ASSUME IInv, pc = "reboot"
               PROVE  Booted(want) /\ Whole(want) /\ (~upset => want # booted)
    BY DEF UpdateTakes
  <2>1. TypeOK /\ Updating /\ want \in Seqs /\ want = Upd /\ cfg = want /\ Whole(want)
    BY DEF IInv, Updating, TypeOK
  <2>2. First = want /\ Loads(First)
    BY <2>1 DEF First, Whole, Loads
  <2>3. Booted(want)
    BY <2>1, <2>2, BootFirst
  <2>4. ~upset => want # booted
    BY <2>1, SeqFacts DEF IInv, Agreed
  <2>5. QED
    BY <2>1, <2>3, <2>4
<1>2. QED
  BY <1>1, Inductive, PTL

\* No image is named against its verification data, even if the last write of
\* the area failed.
THEOREM DigestHeededCorrect == Spec => []DigestHeeded
<1>1. IInv => DigestHeeded
  BY DEF IInv, Updating, DigestHeeded
<1>2. QED
  BY <1>1, Inductive, PTL

\* The flash of the running image is not touched, as long as the configuration
\* could be written and read.
THEOREM RunningKeptCorrect == Spec => RunningKept
<1>1. IInv /\ [Next]_vars => [KeepsRunning]_vars
  <2> SUFFICES ASSUME IInv, Next, ~upset', pc \in Running PROVE area'[booted] = area[booted]
    BY DEF KeepsRunning
  <2>1. TypeOK
    BY DEF IInv
  <2>2. CASE UNCHANGED area
    BY <2>2
  <2>3. CASE \E c \in Chunk : Put(c) /\ upset' = upset
    BY <2>1, <2>3, PutFacts DEF IInv, Agreed
  <2>4. UNCHANGED area \/ \E c \in Chunk : Put(c) /\ upset' = upset
    BY DEF Next, Boot, Upgrade, Start, CfgLost, CfgStored, CfgFails, GetImage, EraseChunk,
           EraseFails, Skip, SkipFails, Write, Eof, ReceiveFails, WriteFails,
           CheckSections, VerifyImage, Reboot, PowerFails, Back, Chunk
  <2>5. QED
    BY <2>2, <2>3, <2>4
<1>2. QED
  BY <1>1, Inductive, PTL DEF Spec, RunningKept

\* The configuration is used as an NVRegister.
THEOREM RegisterCorrect == Spec => CfgIsRegister
<1>1. Init => Cfg!Init
  BY DEF Init, Cfg!Init, Setting
<1>2. IInv /\ [Next]_vars => [Cfg!Next]_(Cfg!vars)
  <2> SUFFICES ASSUME TypeOK, [Next]_vars PROVE [Cfg!Next]_(Cfg!vars)
    BY DEF IInv
  <2> USE SeqFacts DEF Setting, Cfg!vars, TypeOK
  <2>1. CASE Boot \/ VerifyImage
    BY <2>1 DEF Boot, VerifyImage, Cfg!Next, Cfg!Begin
  <2>2. CASE CfgLost
    BY <2>2 DEF CfgLost, Cfg!Next, Cfg!Lose
  <2>3. CASE CfgStored
    BY <2>3 DEF CfgStored, Cfg!Next, Cfg!Store
  <2>4. CASE CfgFails
    BY <2>4 DEF CfgFails, Cfg!Next, Cfg!Store, Cfg!Lose, Cfg!GiveUp
  <2>5. CASE PowerFails
    BY <2>5 DEF PowerFails, Cfg!Next, Cfg!GiveUp
  <2>6. CASE Upgrade \/ Start \/ GetImage \/ EraseChunk \/ EraseFails \/ Skip \/ SkipFails
    BY <2>6 DEF Upgrade, Start, GetImage, EraseChunk, EraseFails, Skip, SkipFails, Back
  <2>7. CASE Write \/ Eof \/ ReceiveFails \/ WriteFails \/ CheckSections \/ Reboot
    BY <2>7 DEF Write, Eof, ReceiveFails, WriteFails, CheckSections, Reboot, Back
  <2>8. CASE UNCHANGED vars
    BY <2>8 DEF vars
  <2>9. QED
    BY <2>1, <2>2, <2>3, <2>4, <2>5, <2>6, <2>7, <2>8 DEF Next
<1>3. QED
  BY <1>1, <1>2, Inductive, PTL DEF Spec, CfgIsRegister, Cfg!Spec
=============================================================================
