-------------------------------- MODULE Fdcm --------------------------------
(***************************************************************************)
(* The flash data chunk manager (src/image/fdcm.c): an area of NOR flash   *)
(* holds the newest of a series of records.  A header names the size of a  *)
(* record, a bitmap with a bit for every slot says how many slots are      *)
(* used, and the slots follow.  A write clears the next bit and programs   *)
(* the next slot; when none is left, or the header is not what it expects, *)
(* it erases the area and starts again.                                    *)
(*                                                                         *)
(* Every flash operation is a step, since the power may fail at each of    *)
(* them, and so may the driver.  The handle has no state of its own: what  *)
(* a failed operation leaves is what a power failure leaves.               *)
(***************************************************************************)
EXTENDS Integers

CONSTANTS Vals,        \* the records
          RecSizes,    \* their sizes in bytes, one for every version of the firmware
          Size,        \* bytes of the area
          HeaderSize,  \* sizeof(fdcm_header_t)
          IndexMax     \* FDCM_INDEX_MAX, bytes of the bitmap at most

Marks == {"blank", "torn"}   \* what a slot holds that is no record
NoHdr   == 0                 \* no header, and one half programmed
TornHdr == -1
None  == "none"
Idle  == "idle"
Erase == "erase"

ASSUME LayoutAssumption ==
  /\ \A d \in RecSizes : d \in Nat /\ 0 < d /\ d < 65536
  /\ HeaderSize \in Nat
  /\ IndexMax \in Nat /\ 0 < IndexMax /\ IndexMax < 65536
  /\ Size \in Nat /\ HeaderSize + 1 < Size /\ Size < HeaderSize + 9 * 65535

ASSUME ValsAssumption ==
  Vals \cap (Marks \cup {None, Idle, Erase, "missing", "garbage"}) = {}

VARIABLES
  hdr,     \* header.data_size on flash, or no valid header
  used,    \* cleared bits of the bitmap
  slot,    \* what each slot holds
  rsz,     \* data_size of the firmware running
  op,      \* the flash operation to come next, or idle
  arg,     \* the record fdcm_write was given
  cnt,     \* its bit_cnt
  stable   \* history: record and size of the last write, if it succeeded

area  == <<hdr, used, slot>>
local == <<rsz, op, arg, cnt>>
vars  == <<area, local, stable>>

-----------------------------------------------------------------------------
(* The layout of the area.                                                 *)

SlotIdx == 0 .. Size - 1
AllBlank == [i \in SlotIdx |-> "blank"]

Min2(a, b) == IF a < b THEN a ELSE b

\* Bytes of the bitmap for records of d bytes, a 16 bit field of the header.
BitmapSize(d) ==
  Min2(((Size - HeaderSize - 1) \div (8 * d + 1) + 1) % 65536, IndexMax)

\* fdcm_read and fdcm_write trust the header.
Valid(d) ==
  hdr = d /\ BitmapSize(d) # 0 /\ BitmapSize(d) + HeaderSize < Size

Fits(d) == d <= Size - HeaderSize - BitmapSize(d)

\* With n slots used no other can be.
Full(d, n) ==
  \/ n >= 8 * BitmapSize(d)
  \/ HeaderSize + BitmapSize(d) + d * (n + 1) > Size

\* Where fdcm_read finds the record, from the start of the area.
ReadOffset(d) == HeaderSize + BitmapSize(d) + d * (used - 1)

\* What fdcm_read hands over when it asks for d bytes; "garbage" are bytes
\* that are no record's.
ReadResult(d) ==
  CASE ~Valid(d) -> "missing"
    [] Valid(d) /\ used = 0 -> "garbage"
    [] OTHER -> IF slot[used - 1] = "torn" THEN "garbage" ELSE slot[used - 1]

\* Programming flash only clears bits.
Program(old, v) == IF old \in {"blank", v} THEN v ELSE "torn"

-----------------------------------------------------------------------------
Init ==
  /\ hdr = NoHdr /\ used = 0 /\ slot = AllBlank
  /\ rsz \in RecSizes
  /\ op = "idle" /\ arg = None /\ cnt = 0 /\ stable = <<>>

\* fdcm_write, up to its first change of the flash.  A record that cannot
\* fit is refused.
WriteBegin ==
  /\ op = "idle"
  /\ Fits(rsz)
  /\ arg' \in Vals
  /\ cnt' = used
  /\ op' = IF Valid(rsz) /\ ~Full(rsz, used) THEN "bitmap" ELSE "erase"
  /\ stable' = <<>>
  /\ UNCHANGED <<area, rsz>>

\* The bit of the next slot is cleared, before the slot is programmed.
WriteBitmap ==
  /\ op = "bitmap"
  /\ used' = cnt + 1
  /\ op' = "data"
  /\ UNCHANGED <<hdr, slot, rsz, arg, cnt, stable>>

\* Mutant of WriteData: the record goes where the last one is.
WriteDataLast ==
  /\ op = "data"
  /\ LET i == IF cnt = 0 THEN 0 ELSE cnt - 1
     IN slot' = [slot EXCEPT ![i] = Program(@, arg)]
  /\ stable' = <<arg, rsz>>
  /\ op' = "idle" /\ arg' = None /\ cnt' = 0
  /\ UNCHANGED <<hdr, used, rsz>>

WriteData ==
  /\ op = "data"
  /\ slot' = [slot EXCEPT ![cnt] = Program(@, arg)]
  /\ stable' = <<arg, rsz>>
  /\ op' = "idle" /\ arg' = None /\ cnt' = 0
  /\ UNCHANGED <<hdr, used, rsz>>

\* Mutant of RewriteErase: only the block of header and bitmap is erased.
RewriteEraseFirst ==
  /\ op = "erase"
  /\ hdr' = NoHdr /\ used' = 0
  /\ op' = "header"
  /\ UNCHANGED <<slot, rsz, arg, cnt, stable>>

\* fdcm_rewrite erases the area, ...
RewriteErase ==
  /\ op = "erase"
  /\ hdr' = NoHdr /\ used' = 0 /\ slot' = AllBlank
  /\ op' = "header"
  /\ UNCHANGED <<rsz, arg, cnt, stable>>

\* ... writes a header, ...
RewriteHeader ==
  /\ op = "header"
  /\ hdr' = rsz
  /\ op' = "first_bit"
  /\ UNCHANGED <<used, slot, rsz, arg, cnt, stable>>

\* ... and a bitmap with the first bit cleared; the record follows.
RewriteBitmap ==
  /\ op = "first_bit"
  /\ used' = 1 /\ cnt' = 0
  /\ op' = "data"
  /\ UNCHANGED <<hdr, slot, rsz, arg, stable>>

EraseBegin ==
  /\ op = "idle"
  /\ op' = "wipe" /\ stable' = <<>>
  /\ UNCHANGED <<area, rsz, arg, cnt>>

EraseDone ==
  /\ op = "wipe"
  /\ hdr' = NoHdr /\ used' = 0 /\ slot' = AllBlank
  /\ op' = "idle"
  /\ UNCHANGED <<rsz, arg, cnt, stable>>

\* What an operation cut short leaves: nothing or all of its effect, a record
\* or a header half programmed, the first of the blocks erased.
CutShort ==
  \/ UNCHANGED area
  \/ /\ op \in {"bitmap", "first_bit"}
     /\ used' = used + 1 /\ UNCHANGED <<hdr, slot>>
  \/ /\ op = "data"
     /\ \E v \in {"torn", Program(slot[cnt], arg)} : slot' = [slot EXCEPT ![cnt] = v]
     /\ UNCHANGED <<hdr, used>>
  \/ /\ op = "header"
     /\ hdr' \in {TornHdr, rsz} /\ UNCHANGED <<used, slot>>
  \/ /\ op \in {"erase", "wipe"}
     /\ hdr' \in {NoHdr, TornHdr} /\ used' = 0
     /\ \E n \in 0 .. Size : slot' = [i \in SlotIdx |-> IF i < n THEN "blank" ELSE slot[i]]

\* The power fails, or flash_erase or flash_write reports an error and the
\* call returns; malloc of the bitmap may fail before anything was written.
Interrupted ==
  /\ op # "idle"
  /\ CutShort
  /\ op' = "idle" /\ arg' = None /\ cnt' = 0
  /\ UNCHANGED <<rsz, stable>>

\* Another version of the firmware, with another size of its record, starts.
Upgrade ==
  /\ op = "idle"
  /\ rsz' \in RecSizes \ {rsz}
  /\ UNCHANGED <<area, op, arg, cnt, stable>>

Next ==
  \/ WriteBegin \/ WriteBitmap \/ WriteData
  \/ RewriteErase \/ RewriteHeader \/ RewriteBitmap
  \/ EraseBegin \/ EraseDone
  \/ Interrupted \/ Upgrade

Spec == Init /\ [][Next]_vars

-----------------------------------------------------------------------------
(* Properties.                                                             *)

TypeOK ==
  /\ hdr \in RecSizes \cup {NoHdr, TornHdr}
  /\ used \in 0 .. Size
  /\ slot \in [SlotIdx -> Vals \cup Marks]
  /\ rsz \in RecSizes
  /\ op \in {"idle", "bitmap", "data", "erase", "header", "first_bit", "wipe"}
  /\ arg \in Vals \cup {None}
  /\ cnt \in SlotIdx \cup {Size}
  /\ stable \in {<<>>} \cup (Vals \X RecSizes)

\* A write that returned the size of the record is found by every fdcm_read
\* of that size until another write or an erase begins, whatever firmware
\* ran meanwhile, and no read of another size takes its bytes for a record.
StableIsRead ==
  \A v \in Vals, d \in RecSizes :
    stable = <<v, d>> => \A s \in RecSizes :
      ReadResult(s) = IF s = d THEN v ELSE "missing"

\* Flash is programmed only where it is erased: a slot is programmed once
\* between two erasures, and a header is written to an area that is all
\* blank, whatever interrupted the calls before.
ProgramsBlank ==
  /\ \A i \in SlotIdx : slot'[i] \in {slot[i], "blank"} \/ slot[i] = "blank"
  /\ hdr' # hdr /\ hdr' \in RecSizes => slot = AllBlank /\ hdr = NoHdr

NeverOverprograms == [][ProgramsBlank]_vars

\* fdcm_write wears the flash as little as the layout allows: it erases an
\* area with a header it accepts only when the bytes of another record would
\* go beyond its end, or the bitmap has its greatest size.
ErasesUsedUp ==
  op = "idle" /\ op' = "erase" /\ Valid(rsz) =>
    \/ HeaderSize + BitmapSize(rsz) + rsz * (used + 1) > Size
    \/ BitmapSize(rsz) = IndexMax

WearSpread == [][ErasesUsedUp]_vars

\* The area is a store of one record.  Between the header and the first bit
\* of a fresh bitmap fdcm_read accepts bytes that are no record's.
Lost == {"missing", "blank", "garbage"}
found == IF hdr \notin RecSizes THEN "missing" ELSE ReadResult(hdr)
doing ==
  CASE op = "wipe" -> Erase
    [] arg = None /\ op # "wipe" -> Idle
    [] arg # None -> arg

Register == INSTANCE NVRegister WITH reg <- found

IsRegister == Register!Spec

-----------------------------------------------------------------------------
(* What a comment says, and the code does not keep (README, 5). *)

\* fdcm_read reads from the area it was given.  A header over a bitmap with no
\* slot used makes it read before it, if a record is longer than both.
ReadInArea == \A d \in RecSizes : Valid(d) => ReadOffset(d) >= 0
=============================================================================
