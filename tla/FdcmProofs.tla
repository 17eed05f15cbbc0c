----------------------------- MODULE FdcmProofs -----------------------------
(***************************************************************************)
(* Proofs about Fdcm, for every set of records and of their sizes and for  *)
(* every area its 16 bit bitmap size can describe.                         *)
(***************************************************************************)
EXTENDS Fdcm, TLAPS

-----------------------------------------------------------------------------
(* The layout.                                                             *)

Quotient(d) == (Size - HeaderSize - 1) \div (8 * d + 1)

\* The quotient the size of the bitmap is computed from fits its 16 bits, and
\* is the greatest whose bits and slots, with a byte each, fit the area.
LEMMA QuotientFacts ==
  ASSUME NEW d \in RecSizes
  PROVE  /\ Quotient(d) \in Nat /\ Quotient(d) < 65535
         /\ (Quotient(d) + 1) * (8 * d + 1) >= Size - HeaderSize
<1> USE LayoutAssumption DEF LayoutAssumption
<1> DEFINE n == Size - HeaderSize - 1
           k == 8 * d + 1
           q == n \div k
<1>1. n \in Nat /\ n < 9 * 65535 /\ k \in Nat /\ k >= 9
  OBVIOUS
<1>2. q \in Int /\ q * k <= n /\ n < (q + 1) * k
  <2> HIDE DEF n, k
  <2>1. n \div k \in Int /\ k * (n \div k) <= n /\ n < k * (n \div k) + k
    BY <1>1
  <2>2. QED
    BY <2>1, <1>1
<1>3. q >= 0
  <2>1. SUFFICES ASSUME q + 1 <= 0 PROVE FALSE
    BY <1>2
  <2> HIDE DEF n, k, q
  <2>2. (q + 1) * k <= 0
    BY <2>1, <1>1, <1>2
  <2>3. QED
    BY <2>2, <1>1, <1>2
<1>4. q < 65535
  <2>1. SUFFICES ASSUME q >= 65535 PROVE FALSE
    BY <1>2
  <2> HIDE DEF n, k, q
  <2>2. q * k >= q * 9
    BY <1>1, <1>2, <1>3
  <2>3. QED
    BY <2>1, <2>2, <1>1, <1>2
<1>5. QED
  BY <1>2, <1>3, <1>4 DEF Quotient

\* The bitmap has a byte at least and never overflows its field.
LEMMA BitmapSizeFacts ==
  ASSUME NEW d \in RecSizes
  PROVE  /\ BitmapSize(d) = Min2(Quotient(d) + 1, IndexMax)
         /\ BitmapSize(d) \in Nat /\ 0 < BitmapSize(d)
<1>1. Quotient(d) \in Nat /\ Quotient(d) < 65535
  BY QuotientFacts
<1>2. (Quotient(d) + 1) % 65536 = Quotient(d) + 1
  BY <1>1
<1>3. QED
  BY <1>1, <1>2, LayoutAssumption DEF BitmapSize, Quotient, Min2, LayoutAssumption

\* A slot that is not beyond the last has a number below the area's size, and
\* a record that fits at all fits the first slot.
LEMMA SlotFacts ==
  ASSUME NEW d \in RecSizes, NEW n \in Nat
  PROVE  /\ ~Full(d, n) => n \in SlotIdx /\ n + 1 <= Size
         /\ Fits(d) => ~Full(d, 0) /\ BitmapSize(d) + HeaderSize < Size
<1> USE LayoutAssumption DEF LayoutAssumption
<1> DEFINE b == BitmapSize(d)
<1>1. b \in Nat /\ 0 < b
  BY BitmapSizeFacts
<1>2. d \in Nat /\ 0 < d /\ d * (n + 1) >= n + 1
  OBVIOUS
<1>3. d * (0 + 1) = d
  BY <1>2
<1>4. d * (n + 1) \in Nat
  BY <1>2
<1> HIDE DEF b
<1>5. ~Full(d, n) => HeaderSize + b + d * (n + 1) <= Size
  BY <1>1, <1>4 DEF Full, b
<1>6. ~Full(d, n) => n \in SlotIdx /\ n + 1 <= Size
  BY <1>1, <1>2, <1>4, <1>5 DEF SlotIdx
<1>7. Fits(d) => ~Full(d, 0) /\ b + HeaderSize < Size
  BY <1>1, <1>2, <1>3 DEF Full, Fits, b
<1>8. QED
  BY <1>6, <1>7 DEF b

\* The bitmap, unless it has its greatest size, has a bit for every record
\* the rest of the area has bytes for.
THEOREM BitmapCovers ==
  ASSUME NEW d \in RecSizes, NEW n \in Nat,
         BitmapSize(d) # IndexMax,
         HeaderSize + BitmapSize(d) + d * (n + 1) <= Size
  PROVE  n < 8 * BitmapSize(d)
<1> USE LayoutAssumption DEF LayoutAssumption
<1> DEFINE b == BitmapSize(d)
<1>1. b \in Nat /\ 0 < b /\ b * (8 * d + 1) >= Size - HeaderSize
  BY BitmapSizeFacts, QuotientFacts DEF Min2
<1>2. b * (8 * d + 1) = d * (8 * b) + b
  BY <1>1
<1>3. d * (n + 1) <= Size - HeaderSize - b
  BY <1>1
<1>4. d * (n + 1) <= d * (8 * b)
  BY <1>1, <1>2, <1>3
<1>5. QED
  <2>1. SUFFICES ASSUME n >= 8 * b PROVE FALSE
    BY <1>1
  <2> HIDE DEF b
  <2>2. d * (n + 1) >= d * (8 * b + 1)
    BY <2>1, <1>1
  <2>3. d * (8 * b + 1) = d * (8 * b) + d
    BY <1>1
  <2>4. QED
    BY <2>2, <2>3, <1>1, <1>4

\* What the rest needs of the constants.
LEMMA Sizes ==
  Size \in Nat /\ Size > 1 /\ HeaderSize \in Nat /\ \A d \in RecSizes : d \in Nat /\ d > 0
BY LayoutAssumption DEF LayoutAssumption

USE Sizes

-----------------------------------------------------------------------------
(* The inductive invariant.                                                *)

\* A header is only ever found above slots of its size; what is above the
\* slots in use is blank.
AreaInv ==
  /\ hdr \notin RecSizes => used = 0
  /\ hdr \in RecSizes =>
       /\ Fits(hdr)
       /\ used > 0 => ~Full(hdr, used - 1)
       /\ \A i \in SlotIdx : i >= used => slot[i] = "blank"

\* What is so before each flash operation of a write.
OpInv ==
  /\ op \in {"idle", "wipe"} => arg = None
  /\ op \notin {"idle", "wipe"} => arg \in Vals /\ Fits(rsz)
  /\ op = "bitmap" => hdr = rsz /\ cnt = used /\ ~Full(rsz, used)
  /\ op = "header" => hdr = NoHdr /\ slot = AllBlank
  /\ op = "first_bit" => hdr = rsz /\ used = 0
  /\ op = "data" => hdr = rsz /\ used = cnt + 1 /\ slot[cnt] = "blank"

\* The record of a write that succeeded is in the last slot in use.
StableInv ==
  stable # <<>> =>
    /\ op = "idle"
    /\ hdr = stable[2] /\ used > 0 /\ slot[used - 1] = stable[1]

IInv == TypeOK /\ AreaInv /\ OpInv /\ StableInv

-----------------------------------------------------------------------------
LEMMA MarksFacts ==
  /\ NoHdr \notin RecSizes /\ TornHdr \notin RecSizes
  /\ AllBlank \in [SlotIdx -> Vals \cup Marks]
  /\ \A i \in SlotIdx : AllBlank[i] = "blank"
  /\ 0 \in SlotIdx
BY DEF NoHdr, TornHdr, AllBlank, Marks, SlotIdx

\* Programming a blank slot stores the record.
LEMMA ProgramFacts ==
  ASSUME NEW v \in Vals
  PROVE  Program("blank", v) = v
BY DEF Program

LEMMA InitInv == Init => IInv
BY MarksFacts DEF Init, IInv, TypeOK, AreaInv, OpInv, StableInv, Marks, SlotIdx

\* What an operation cut short leaves satisfies the area's invariant.
LEMMA CutShortInv ==
  ASSUME IInv, CutShort, op # "idle"
  PROVE  /\ AreaInv'
         /\ hdr' \in RecSizes \cup {NoHdr, TornHdr}
         /\ used' \in 0 .. Size
         /\ slot' \in [SlotIdx -> Vals \cup Marks]
<1> USE DEF IInv, TypeOK
<1>1. CASE UNCHANGED area
  BY <1>1 DEF area, AreaInv, SlotIdx, Marks
<1>2. CASE op \in {"bitmap", "first_bit"} /\ used' = used + 1 /\ UNCHANGED <<hdr, slot>>
  <2>1. hdr = rsz /\ Fits(rsz) /\ ~Full(rsz, used) /\ used \in Nat
    BY <1>2, SlotFacts DEF OpInv
  <2>2. used + 1 \in 0 .. Size /\ (used + 1) - 1 = used
    BY <2>1, SlotFacts
  <2>3. \A i \in SlotIdx : i >= used + 1 => slot[i] = "blank"
    BY <2>1, <2>2 DEF AreaInv, SlotIdx
  <2>4. QED
    BY <1>2, <2>1, <2>2, <2>3 DEF AreaInv
<1>3. CASE /\ op = "data"
           /\ \E v \in {"torn", Program(slot[cnt], arg)} : slot' = [slot EXCEPT ![cnt] = v]
           /\ UNCHANGED <<hdr, used>>
  <2>1. PICK v \in {"torn", Program(slot[cnt], arg)} : slot' = [slot EXCEPT ![cnt] = v]
    BY <1>3, Zenon
  <2>2. v \in Vals \cup Marks
    BY <1>3, <2>1, ProgramFacts DEF OpInv, Marks
  <2>3. hdr = rsz /\ used = cnt + 1
    BY <1>3 DEF OpInv
  <2>4. \A i \in SlotIdx : i >= used => slot'[i] = slot[i]
    BY <2>1, <2>3 DEF SlotIdx
  <2>5. QED
    BY <1>3, <2>1, <2>2, <2>3, <2>4 DEF AreaInv
<1>4. CASE op = "header" /\ hdr' \in {TornHdr, rsz} /\ UNCHANGED <<used, slot>>
  <2>1. used = 0 /\ slot = AllBlank /\ Fits(rsz)
    BY <1>4, MarksFacts DEF OpInv, AreaInv
  <2>2. QED
    BY <1>4, <2>1, MarksFacts DEF AreaInv
<1>5. CASE /\ op \in {"erase", "wipe"}
           /\ hdr' \in {NoHdr, TornHdr} /\ used' = 0
           /\ \E n \in 0 .. Size :
                slot' = [i \in SlotIdx |-> IF i < n THEN "blank" ELSE slot[i]]
  <2>1. PICK n \in 0 .. Size :
               slot' = [i \in SlotIdx |-> IF i < n THEN "blank" ELSE slot[i]]
    BY <1>5
  <2>2. slot' \in [SlotIdx -> Vals \cup Marks]
    BY <2>1 DEF Marks
  <2>3. QED
    BY <1>5, <2>2, MarksFacts DEF AreaInv
<1>6. QED
  BY <1>1, <1>2, <1>3, <1>4, <1>5 DEF CutShort

LEMMA StepInv == IInv /\ [Next]_vars => IInv'
<1> SUFFICES ASSUME IInv, [Next]_vars PROVE IInv'
  OBVIOUS
<1> USE DEF IInv, TypeOK
<1>2. CASE WriteBegin
  <2>1. UNCHANGED <<hdr, used, slot, rsz>> /\ cnt' \in SlotIdx \cup {Size}
    BY <1>2 DEF WriteBegin, area, SlotIdx
  <2>2. arg' \in Vals /\ Fits(rsz)' /\ op' \in {"bitmap", "erase"}
    BY <1>2, <2>1 DEF WriteBegin
  <2>3. op' = "bitmap" => (hdr = rsz /\ cnt = used /\ ~Full(rsz, used))'
    BY <1>2, <2>1 DEF WriteBegin, Valid, Full, BitmapSize
  <2>4. stable' = <<>>
    BY <1>2 DEF WriteBegin
  <2>5. AreaInv'
    BY <2>1 DEF AreaInv, SlotIdx
  <2>6. OpInv'
    BY <2>2, <2>3 DEF OpInv
  <2>7. QED
    BY <2>1, <2>2, <2>4, <2>5, <2>6 DEF StableInv
<1>3. CASE WriteBitmap
  <2>1. hdr = rsz /\ cnt = used /\ ~Full(rsz, used) /\ arg \in Vals /\ Fits(rsz)
    BY <1>3 DEF WriteBitmap, OpInv
  <2>2. used \in SlotIdx /\ used + 1 \in 0 .. Size /\ (used + 1) - 1 = used
    BY <2>1, SlotFacts
  <2>3. slot[used] = "blank" /\ \A i \in SlotIdx : i >= used + 1 => slot[i] = "blank"
    BY <2>1, <2>2 DEF AreaInv, SlotIdx
  <2>4. UNCHANGED <<hdr, slot, rsz, arg, cnt, stable>> /\ used' = used + 1 /\ op' = "data"
    BY <1>3, <2>1 DEF WriteBitmap
  <2>5. AreaInv'
    BY <2>1, <2>2, <2>3, <2>4 DEF AreaInv, SlotIdx
  <2>6. OpInv'
    BY <2>1, <2>3, <2>4 DEF OpInv
  <2>7. StableInv'
    BY <1>3, <2>4 DEF StableInv, WriteBitmap
  <2>8. QED
    BY <2>2, <2>4, <2>5, <2>6, <2>7
<1>4. CASE WriteData
  <2>1. hdr = rsz /\ used = cnt + 1 /\ slot[cnt] = "blank" /\ arg \in Vals /\ cnt \in SlotIdx
    BY <1>4 DEF WriteData, OpInv, SlotIdx
  <2>2. slot' = [slot EXCEPT ![cnt] = arg]
    BY <1>4, <2>1, ProgramFacts DEF WriteData
  <2>3. /\ UNCHANGED <<hdr, used, rsz>>
        /\ stable' = <<arg, rsz>> /\ op' = "idle" /\ arg' = None /\ cnt' = 0
    BY <1>4 DEF WriteData
  <2>4. slot' \in [SlotIdx -> Vals \cup Marks] /\ slot'[cnt] = arg
        /\ \A i \in SlotIdx : i >= used => slot'[i] = slot[i]
    BY <2>1, <2>2 DEF SlotIdx
  <2>5. AreaInv'
    BY <2>1, <2>3, <2>4 DEF AreaInv, SlotIdx
  <2>6. StableInv' /\ stable' \in {<<>>} \cup (Vals \X RecSizes)
    BY <2>1, <2>3, <2>4 DEF StableInv, SlotIdx
  <2>7. OpInv'
    BY <2>3 DEF OpInv
  <2>8. QED
    BY <2>3, <2>4, <2>5, <2>6, <2>7, MarksFacts
<1>5. CASE RewriteErase
  <2>1. /\ hdr' = NoHdr /\ used' = 0 /\ slot' = AllBlank /\ op' = "header"
        /\ UNCHANGED <<rsz, arg, cnt, stable>>
    BY <1>5 DEF RewriteErase
  <2>2. arg \in Vals /\ Fits(rsz) /\ stable = <<>>
    BY <1>5 DEF RewriteErase, OpInv, StableInv
  <2>3. AreaInv' /\ OpInv' /\ StableInv'
    BY <2>1, <2>2, MarksFacts DEF AreaInv, OpInv, StableInv
  <2>4. QED
    BY <2>1, <2>3, MarksFacts
<1>6. CASE RewriteHeader
  <2>1. /\ hdr' = rsz /\ op' = "first_bit"
        /\ UNCHANGED <<used, slot, rsz, arg, cnt, stable>>
    BY <1>6 DEF RewriteHeader
  <2>2. used = 0 /\ slot = AllBlank /\ arg \in Vals /\ Fits(rsz) /\ stable = <<>>
    BY <1>6, MarksFacts DEF RewriteHeader, AreaInv, OpInv, StableInv
  <2>3. AreaInv' /\ OpInv' /\ StableInv'
    BY <2>1, <2>2, MarksFacts DEF AreaInv, OpInv, StableInv
  <2>4. QED
    BY <2>1, <2>3
<1>7. CASE RewriteBitmap
  <2>1. /\ used' = 1 /\ cnt' = 0 /\ op' = "data"
        /\ UNCHANGED <<hdr, slot, rsz, arg, stable>>
    BY <1>7 DEF RewriteBitmap
  <2>2. hdr = rsz /\ used = 0 /\ arg \in Vals /\ Fits(rsz) /\ stable = <<>>
    BY <1>7 DEF RewriteBitmap, OpInv, StableInv
  <2>3. ~Full(rsz, 0) /\ \A i \in SlotIdx : slot[i] = "blank"
    BY <2>2, SlotFacts DEF AreaInv, SlotIdx
  <2>4. AreaInv' /\ OpInv' /\ StableInv'
    BY <2>1, <2>2, <2>3, MarksFacts DEF AreaInv, OpInv, StableInv, SlotIdx
  <2>5. QED
    BY <2>1, <2>4, MarksFacts
<1>8. CASE EraseBegin
  BY <1>8 DEF EraseBegin, area, AreaInv, OpInv, StableInv, SlotIdx
<1>9. CASE EraseDone
  <2>1. /\ hdr' = NoHdr /\ used' = 0 /\ slot' = AllBlank /\ op' = "idle"
        /\ UNCHANGED <<rsz, arg, cnt, stable>>
    BY <1>9 DEF EraseDone
  <2>2. arg = None /\ stable = <<>>
    BY <1>9 DEF EraseDone, OpInv, StableInv
  <2>3. AreaInv' /\ OpInv' /\ StableInv'
    BY <2>1, <2>2, MarksFacts DEF AreaInv, OpInv, StableInv
  <2>4. QED
    BY <2>1, <2>3, MarksFacts
<1>10. CASE Interrupted
  <2>1. /\ op # "idle" /\ CutShort /\ op' = "idle" /\ arg' = None /\ cnt' = 0
        /\ UNCHANGED <<rsz, stable>>
    BY <1>10 DEF Interrupted
  <2>2. stable = <<>>
    BY <2>1 DEF StableInv
  <2>3. OpInv' /\ StableInv'
    BY <2>1, <2>2 DEF OpInv, StableInv
  <2>4. QED
    BY <2>1, <2>3, CutShortInv, MarksFacts
<1>11. CASE Upgrade
  <2>1. rsz' \in RecSizes /\ UNCHANGED <<hdr, used, slot, op, arg, cnt, stable>> /\ op = "idle"
    BY <1>11 DEF Upgrade, area
  <2>2. AreaInv' /\ OpInv' /\ StableInv'
    BY <2>1 DEF AreaInv, OpInv, StableInv, SlotIdx
  <2>3. QED
    BY <2>1, <2>2
<1>12. CASE UNCHANGED vars
  BY <1>12 DEF vars, area, local, AreaInv, OpInv, StableInv, SlotIdx
<1>13. QED
  BY <1>2, <1>3, <1>4, <1>5, <1>6, <1>7, <1>8, <1>9, <1>10, <1>11, <1>12 DEF Next

THEOREM Invariance == Spec => []IInv
BY InitInv, StepInv, PTL DEF Spec

\* Every variable keeps its type: no operation counts beyond the slots of the
\* area.
THEOREM TypeCorrect == Spec => []TypeOK
<1>1. IInv => TypeOK
  BY DEF IInv
<1>2. QED
  BY <1>1, Invariance, PTL

\* The record of a write that succeeded is the one every later read of its
\* size finds.
THEOREM StableCorrect == Spec => []StableIsRead
<1>1. IInv => StableIsRead
  <2>1. SUFFICES ASSUME IInv, NEW v \in Vals, NEW d \in RecSizes, stable = <<v, d>>,
                        NEW s \in RecSizes
                 PROVE  ReadResult(s) = IF s = d THEN v ELSE "missing"
    BY DEF StableIsRead
  <2>2. hdr = d /\ used > 0 /\ slot[used - 1] = v /\ Fits(d)
    BY <2>1 DEF IInv, StableInv, AreaInv
  <2>3. BitmapSize(d) # 0 /\ BitmapSize(d) + HeaderSize < Size
    BY <2>2, SlotFacts, BitmapSizeFacts
  <2>4. Valid(s) <=> s = d
    BY <2>2, <2>3 DEF Valid
  <2>5. v # "torn" /\ used # 0
    BY <2>2, ValsAssumption DEF Marks, IInv, TypeOK
  <2>6. QED
    BY <2>2, <2>4, <2>5 DEF ReadResult
<1>2. QED
  BY <1>1, Invariance, PTL

\* No slot and no header is programmed over what was programmed before.
THEOREM ProgramsBlankCorrect == Spec => NeverOverprograms
<1>1. IInv /\ [Next]_vars => [ProgramsBlank]_vars
  <2> SUFFICES ASSUME IInv, Next PROVE ProgramsBlank
    OBVIOUS
  <2> USE DEF IInv, TypeOK, ProgramsBlank
  <2>2. CASE WriteBegin \/ WriteBitmap \/ RewriteBitmap \/ EraseBegin \/ Upgrade
    BY <2>2 DEF WriteBegin, WriteBitmap, RewriteBitmap, EraseBegin, Upgrade, area
  <2>3. CASE WriteData
    BY <2>3 DEF WriteData, OpInv
  <2>4. CASE RewriteErase \/ EraseDone
    BY <2>4, MarksFacts DEF RewriteErase, EraseDone
  <2>5. CASE RewriteHeader
    BY <2>5 DEF RewriteHeader, OpInv
  <2>6. CASE Interrupted
    BY <2>6, MarksFacts DEF Interrupted, CutShort, OpInv, area
  <2>7. QED
    BY <2>2, <2>3, <2>4, <2>5, <2>6 DEF Next
<1>2. QED
  BY <1>1, Invariance, PTL DEF Spec, NeverOverprograms

\* The area is erased only when it is used up.
THEOREM WearCorrect == Spec => WearSpread
<1>1. IInv /\ [Next]_vars => [ErasesUsedUp]_vars
  <2>1. SUFFICES ASSUME IInv, Next, op = "idle", op' = "erase", Valid(rsz),
                        BitmapSize(rsz) # IndexMax
                 PROVE  HeaderSize + BitmapSize(rsz) + rsz * (used + 1) > Size
    BY DEF ErasesUsedUp
  <2>2. rsz \in RecSizes /\ used \in Nat
    BY <2>1 DEF IInv, TypeOK
  <2>3. Full(rsz, used)
    BY <2>1 DEF Next, WriteBegin, WriteBitmap, WriteData, RewriteErase, RewriteHeader,
                RewriteBitmap, EraseBegin, EraseDone, Interrupted, Upgrade
  <2>4. QED
    BY <2>1, <2>2, <2>3, BitmapCovers, BitmapSizeFacts DEF Full
<1>2. QED
  BY <1>1, Invariance, PTL DEF Spec, WearSpread

-----------------------------------------------------------------------------
(* The area implements the register.                                       *)

\* Every header found is one fdcm_read accepts.
HdrValid == hdr \in RecSizes => Valid(hdr)

LEMMA HdrIsValid ==
  ASSUME IInv, IInv'
  PROVE  HdrValid /\ HdrValid'
<1>1. ASSUME NEW d \in RecSizes, Fits(d)
      PROVE  BitmapSize(d) # 0 /\ BitmapSize(d) + HeaderSize < Size
  BY <1>1, SlotFacts, BitmapSizeFacts
<1>2. hdr \in RecSizes => Fits(hdr)
  BY DEF IInv, AreaInv
<1>3. hdr' \in RecSizes => Fits(hdr')
  BY DEF IInv, AreaInv
<1>4. QED
  BY <1>1, <1>2, <1>3 DEF HdrValid, Valid

\* Every step of the area loses the record found, stores the one being
\* written, or changes nothing of what is found; a power failure anywhere,
\* and a version of the firmware with records of another size, included.
THEOREM RegisterCorrect == Spec => IsRegister
<1>1. Init => Register!Init
  BY MarksFacts DEF Init, Register!Init, Lost, found, doing
<1>2. IInv /\ IInv' /\ [Next]_vars => [Register!Next]_(Register!vars)
  <2> SUFFICES ASSUME IInv, IInv', [Next]_vars
               PROVE  [Register!Next]_(Register!vars)
    OBVIOUS
  <2> USE DEF IInv, TypeOK
  <2>1. HdrValid /\ HdrValid'
    BY HdrIsValid
  <2>2. \A v \in Vals : v # None /\ v # Idle /\ v # Erase /\ v # "torn" /\ v # "blank"
    BY ValsAssumption DEF Marks
  <2>3. CASE WriteBegin
    <3>1. found' = found /\ doing = Idle /\ doing' = arg' /\ arg' \in Vals
      BY <2>2, <2>3 DEF WriteBegin, OpInv, area, found, doing, ReadResult, Valid
    <3>2. Register!Begin
      BY <3>1 DEF Register!Begin
    <3>3. QED
      BY <3>2 DEF Register!Next
  <2>4. CASE WriteBitmap
    <3>1. hdr = rsz /\ used' = used + 1 /\ slot' = slot /\ hdr' = hdr /\ arg' = arg
          /\ slot[used] = "blank"
      BY <2>4, SlotFacts DEF WriteBitmap, OpInv, AreaInv
    <3>2. found' = "blank" /\ doing' = doing /\ doing # Idle
      BY <2>1, <2>2, <2>4, <3>1 DEF WriteBitmap, OpInv, found, doing, ReadResult, HdrValid
    <3>3. QED
      BY <3>2 DEF Register!Lose, Lost, Register!Next
  <2>5. CASE WriteData
    <3>1. /\ hdr = rsz /\ used = cnt + 1 /\ arg \in Vals /\ slot[cnt] = "blank"
          /\ UNCHANGED <<hdr, used>> /\ arg' = None
          /\ slot' = [slot EXCEPT ![cnt] = arg]
      BY <2>5, ProgramFacts DEF WriteData, OpInv
    <3>2. slot'[used' - 1] = arg /\ used' # 0 /\ hdr' \in RecSizes
      BY <3>1 DEF SlotIdx
    <3>3. found' = arg /\ doing = arg /\ doing' = Idle
      BY <2>1, <2>2, <2>5, <3>1, <3>2 DEF WriteData, OpInv, found, doing, ReadResult, HdrValid
    <3>4. Register!Store
      BY <2>2, <3>1, <3>3 DEF Register!Store
    <3>5. QED
      BY <3>4 DEF Register!Next
  <2>6. CASE RewriteErase \/ EraseDone
    <3>1. found' = "missing" /\ doing' \in {doing, Idle} /\ doing # Idle
      BY <2>2, <2>6, MarksFacts DEF RewriteErase, EraseDone, OpInv, found, doing, Erase, Idle
    <3>2. QED
      BY <3>1 DEF Register!Lose, Lost, Register!Next
  <2>7. CASE RewriteHeader
    <3>1. used' = 0 /\ hdr' \in RecSizes /\ arg' = arg
      BY <2>7, MarksFacts DEF RewriteHeader, OpInv, AreaInv
    <3>2. found' = "garbage" /\ doing' = doing /\ doing # Idle
      BY <2>1, <2>2, <2>7, <3>1 DEF RewriteHeader, OpInv, found, doing, ReadResult, HdrValid
    <3>3. QED
      BY <3>2 DEF Register!Lose, Lost, Register!Next
  <2>8. CASE RewriteBitmap
    <3>1. used' = 1 /\ slot' = slot /\ hdr' = hdr /\ hdr \in RecSizes /\ arg' = arg
          /\ slot[0] = "blank"
      BY <2>8, MarksFacts DEF RewriteBitmap, OpInv, AreaInv
    <3>2. found' = "blank" /\ doing' = doing /\ doing # Idle
      BY <2>1, <2>2, <2>8, <3>1 DEF RewriteBitmap, OpInv, found, doing, ReadResult, HdrValid
    <3>3. QED
      BY <3>2 DEF Register!Lose, Lost, Register!Next
  <2>9. CASE Upgrade \/ UNCHANGED vars
    <3>1. found' = found /\ doing' = doing
      BY <2>9 DEF Upgrade, vars, area, local, found, doing, ReadResult, Valid
    <3>2. QED
      BY <3>1 DEF Register!vars
  <2>10. CASE EraseBegin
    <3>1. found' = found /\ doing = Idle /\ doing' = Erase
      BY <2>10 DEF EraseBegin, OpInv, area, found, doing, ReadResult, Valid
    <3>2. QED
      BY <3>1 DEF Register!Begin, Register!Next
  <2>11. CASE Interrupted
    <3>1. /\ doing' = Idle /\ doing # Idle
          /\ op \notin {"idle", "wipe"} => arg \in Vals /\ doing = arg
      BY <2>2, <2>11 DEF Interrupted, OpInv, doing, Erase, Idle
    <3>2. CASE UNCHANGED area
      <4>1. found' = found
        BY <3>2 DEF area, found, ReadResult, Valid
      <4>2. QED
        BY <3>1, <4>1 DEF Register!GiveUp, Register!Next
    <3>3. CASE op \in {"bitmap", "first_bit"} /\ used' = used + 1 /\ UNCHANGED <<hdr, slot>>
      <4>1. hdr \in RecSizes /\ slot[used] = "blank"
        BY <3>3, SlotFacts, MarksFacts DEF OpInv, AreaInv
      <4>2. found' = "blank"
        BY <2>1, <3>3, <4>1 DEF found, ReadResult, HdrValid
      <4>3. QED
        BY <3>1, <4>2 DEF Register!Lose, Lost, Register!Next
    <3>4. CASE /\ op = "data"
               /\ \E v \in {"torn", Program(slot[cnt], arg)} : slot' = [slot EXCEPT ![cnt] = v]
               /\ UNCHANGED <<hdr, used>>
      <4>1. PICK v \in {"torn", Program(slot[cnt], arg)} : slot' = [slot EXCEPT ![cnt] = v]
        BY <3>4, Zenon
      <4>2. hdr \in RecSizes /\ used = cnt + 1 /\ arg \in Vals /\ v \in {"torn", arg}
        BY <3>4, <4>1, ProgramFacts DEF OpInv
      <4>3. slot'[used' - 1] = v /\ used' # 0 /\ hdr' \in RecSizes
        BY <3>4, <4>1, <4>2 DEF SlotIdx
      <4>4. found' = IF v = "torn" THEN "garbage" ELSE v
        BY <2>1, <4>3 DEF found, ReadResult, HdrValid
      <4>5. CASE v = "torn"
        BY <3>1, <4>4, <4>5 DEF Register!Lose, Lost, Register!Next
      <4>6. CASE v = arg
        <5>1. Register!Store
          BY <2>2, <3>1, <3>4, <4>2, <4>4, <4>6 DEF Register!Store
        <5>2. QED
          BY <5>1 DEF Register!Next
      <4>7. QED
        BY <4>2, <4>5, <4>6
    <3>5. CASE op = "header" /\ hdr' \in {TornHdr, rsz} /\ UNCHANGED <<used, slot>>
      <4>1. used' = 0
        BY <3>5, MarksFacts DEF OpInv, AreaInv
      <4>2. found' \in {"missing", "garbage"}
        BY <2>1, <3>5, <4>1, MarksFacts DEF found, ReadResult, HdrValid
      <4>3. QED
        BY <3>1, <4>2 DEF Register!Lose, Lost, Register!Next
    <3>6. CASE op \in {"erase", "wipe"} /\ hdr' \in {NoHdr, TornHdr} /\ used' = 0
      <4>1. found' = "missing"
        BY <3>6, MarksFacts DEF found
      <4>2. QED
        BY <3>1, <4>1 DEF Register!Lose, Lost, Register!Next
    <3>7. QED
      BY <2>11, <3>2, <3>3, <3>4, <3>5, <3>6 DEF Interrupted, CutShort
  <2>12. QED
    BY <2>3, <2>4, <2>5, <2>6, <2>7, <2>8, <2>9, <2>10, <2>11 DEF Next
<1>3. QED
  BY <1>1, <1>2, Invariance, PTL DEF Spec, Register!Spec, IsRegister
=============================================================================
