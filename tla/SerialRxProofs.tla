--------------------------- MODULE SerialRxProofs ---------------------------
(***************************************************************************)
(* Proofs about SerialRx, for every size of the ring, of a record, of the  *)
(* FIFO and of the caller's buffer.                                        *)
(***************************************************************************)
EXTENDS SerialRx, SequenceTheorems, TLAPS

\* What the handler knows of the cache while it runs: its local copies of cnt
\* and widx are not stale, since the thread cannot run.
IsrInv ==
  /\ ipc # "idle" => icnt = cnt
  /\ ipc = "fill" => iidx = widx /\ icnt < BufNum

\* What serial_read knows of the cache at each of its steps.
ReadInv ==
  /\ rpc \in {"wait", "check", "count", "copy", "release"} => rpos = ridx
  /\ rpc = "advance" => rpos = Next1(ridx)
  /\ rpc \in {"advance", "release"} => rlen >= 0

IInv == TypeOK /\ IsrInv /\ ReadInv /\ TokensExact /\ RingConsistent

USE SerialRxAssumption DEF SerialRxAssumption

-----------------------------------------------------------------------------
\* Wrapping an index stays inside the ring, and the slot before the next one
\* is the slot itself.
LEMMA IndexFacts ==
  ASSUME NEW i \in Slots
  PROVE  /\ Next1(i) \in Slots
         /\ Prev1(i) \in Slots
         /\ Prev1(Next1(i)) = i
         /\ Wrap(i) = i
BY DEF Slots, Next1, Prev1, Wrap

\* Moving the front of a window of n slots one on, and shortening it by one,
\* leaves its end where it is; lengthening it moves the end one on.
LEMMA WindowFacts ==
  ASSUME NEW i \in Slots, NEW n \in 0 .. BufNum
  PROVE  /\ Wrap(i + n) \in Slots
         /\ n < BufNum => Wrap(i + (n + 1)) = Next1(Wrap(i + n))
         /\ n > 0 => Wrap(Next1(i) + (n - 1)) = Wrap(i + n)
BY DEF Slots, Next1, Wrap

\* Two different places of a window no longer than the ring are different slots.
LEMMA WindowDistinct ==
  ASSUME NEW i \in Slots, NEW n \in 0 .. BufNum - 1, NEW q \in 0 .. n - 1
  PROVE  Wrap(i + q) # Wrap(i + n)
BY DEF Slots, Wrap

\* What is handed to the caller is a sequence of bytes.
LEMMA RecordType ==
  ASSUME NEW b \in Contents, NEW n \in 0 .. BufSize
  PROVE  SubSeq(b, 1, n) \in Seq(Bytes)
<1>1. b \in Seq(Bytes) /\ Len(b) = BufSize
  BY DEF Contents
<1>2. QED
  BY <1>1, SubSeqProperties DEF Bytes

-----------------------------------------------------------------------------
\* Before serial_init every fact of the invariant holds.
LEMMA InitIInv == Init => IInv
<1> SUFFICES ASSUME Init PROVE IInv
  OBVIOUS
<1>1. NoData \in Contents
  BY DEF NoData, Contents, Bytes
<1>2. TypeOK
  BY <1>1 DEF TypeOK, Init, Slots, Bytes, IsrPc, ReadPc
<1>3. QED
  BY <1>2 DEF IInv, IsrInv, ReadInv, TokensExact, RingConsistent, InHand,
              Oldest, Place, Wrap, Slots, Init

-----------------------------------------------------------------------------
\* Every step keeps the variables in their types.
LEMMA TypeStep == IInv /\ [Next]_vars => TypeOK'
<1> SUFFICES ASSUME IInv, [Next]_vars PROVE TypeOK'
  OBVIOUS
<1> USE DEF IInv, TypeOK, line, cache, control, isr, rd
<1>1. CASE ByteArrives
  <2>1. sent + 1 \in Bytes /\ sent' \in 0 .. MaxBytes
    BY <1>1 DEF ByteArrives, Bytes
  <2>2. fifo' \in Seq(Bytes) /\ Len(fifo') <= FifoLen
    BY <1>1, <2>1 DEF ByteArrives
  <2>3. QED
    BY <1>1, <2>1, <2>2 DEF ByteArrives
<1>2. CASE IsrEnter
  BY <1>2 DEF IsrEnter, IsrPc
<1>3. CASE IsrStore \/ IsrStoreLast
  <2>1. /\ Head(fifo) \in Bytes
        /\ fifo' \in Seq(Bytes) /\ Len(fifo') <= FifoLen
    <3>1. fifo # <<>> /\ fifo' = Tail(fifo)
      BY <1>3 DEF IsrStore, IsrStoreLast
    <3>2. QED
      BY <3>1, HeadTailProperties
  <2>2. buf' \in [Slots -> Contents]
    <3>1. buf' = [buf EXCEPT ![iidx] = [buf[iidx] EXCEPT ![ilen + 1] = Head(fifo)]]
      BY <1>3 DEF IsrStore, IsrStoreLast
    <3>2. [buf[iidx] EXCEPT ![ilen + 1] = Head(fifo)] \in Contents
      BY <2>1 DEF Contents
    <3>3. QED
      BY <3>1, <3>2
  <2>3. CASE IsrStore
    BY <2>1, <2>2, <2>3 DEF IsrStore
  <2>4. CASE IsrStoreLast
    <3>1. len' \in [Slots -> 0 .. BufSize] /\ cnt' \in 0 .. BufNum /\ icnt' \in 0 .. BufNum
      BY <2>4 DEF IsrStoreLast, Commit, IsrInv
    <3>2. widx' \in Slots /\ iidx' \in Slots
      BY <2>4, IndexFacts DEF IsrStoreLast, Commit
    <3>3. QED
      BY <2>1, <2>2, <2>4, <3>1, <3>2 DEF IsrStoreLast, Commit, IsrPc
  <2>5. QED
    BY <1>3, <2>3, <2>4
<1>4. CASE IsrFlush
  <2>1. len' \in [Slots -> 0 .. BufSize] /\ cnt' \in 0 .. BufNum
    BY <1>4 DEF IsrFlush, Commit, IsrInv
  <2>2. widx' \in Slots
    BY <1>4, IndexFacts DEF IsrFlush, Commit
  <2>3. QED
    BY <1>4, <2>1, <2>2 DEF IsrFlush, Commit, IsrPc
<1>5. CASE IsrSpin
  BY <1>5 DEF IsrSpin, vars
<1>6. CASE IsrDiscard
  BY <1>6 DEF IsrDiscard
<1>7. CASE IsrDrained
  BY <1>7 DEF IsrDrained, IsrPc
<1>8. CASE ReadBegin
  BY <1>8 DEF ReadBegin, ReadPc
<1>9. CASE ReadTakeToken
  BY <1>9 DEF ReadTakeToken, ReadPc
<1>10. CASE ReadTimeout
  BY <1>10 DEF ReadTimeout, ReadPc
<1>11. CASE ReadCheckState
  BY <1>11 DEF ReadCheckState, ReadPc
<1>12. CASE ReadCount
  BY <1>12 DEF ReadCount, ReadPc
<1>13. CASE ReadCopy
  <2>1. /\ rpc' \in ReadPc /\ dropped' \in Nat
        /\ rlen' \in Int /\ rlen' <= BufSize
    BY <1>13 DEF ReadCopy, ReadPc
  <2>2. rpos' \in Slots
    BY <1>13, IndexFacts DEF ReadCopy
  <2>3. rbuf' \in Contents
    BY <1>13 DEF ReadCopy
  <2>4. UNCHANGED <<line, cache, sem, control, isr, rcnt, out>>
    BY <1>13 DEF ReadCopy
  <2>5. QED
    BY <2>1, <2>2, <2>3, <2>4
<1>14. CASE ReadAdvance
  BY <1>14 DEF ReadAdvance, ReadPc
<1>15. CASE ReadRelease
  <2>1. cnt' \in 0 .. BufNum
    BY <1>15 DEF ReadRelease, Thread, TokensExact, InHand
  <2>2. out' \in Seq(Bytes)
    <3>1. rlen \in 0 .. BufSize
      BY <1>15 DEF ReadRelease, Thread, ReadInv
    <3>2. QED
      BY <1>15, <3>1, RecordType DEF ReadRelease
  <2>3. QED
    BY <1>15, <2>1, <2>2 DEF ReadRelease, ReadPc
<1>16. CASE SerialInit
  <2>1. NoData \in Contents
    BY DEF NoData, Contents, Bytes
  <2>2. QED
    BY <1>16, <2>1 DEF SerialInit, Slots
<1>17. CASE SerialStart \/ SerialEnable
  BY <1>17 DEF SerialStart, SerialEnable
<1>18. CASE SerialStop \/ SerialDisable \/ SerialDeinit
  <2>1. stops' \in 0 .. MaxStops
    <3>1. stops' = stops \/ (stops < MaxStops /\ stops' = stops + 1)
      BY <1>18 DEF SerialStop, SerialDisable, SerialDeinit
    <3>2. stops \in 0 .. MaxStops /\ MaxStops \in Nat
      OBVIOUS
    <3>3. QED
      BY ONLY <3>1, <3>2
  <2>2. CASE SerialStop
    BY <2>1, <2>2 DEF SerialStop
  <2>3. CASE SerialDisable
    BY <2>1, <2>3 DEF SerialDisable
  <2>4. CASE SerialDeinit
    <3>1. dropped' \in Nat /\ sem' \in Nat
      BY <2>4 DEF SerialDeinit
    <3>2. QED
      BY <2>1, <2>4, <3>1 DEF SerialDeinit
  <2>5. QED
    BY <1>18, <2>2, <2>3, <2>4
<1>19. CASE UNCHANGED vars
  BY <1>19 DEF vars
<1>20. QED
  BY <1>1, <1>2, <1>3, <1>4, <1>5, <1>6, <1>7, <1>8, <1>9, <1>10, <1>11,
     <1>12, <1>13, <1>14, <1>15, <1>16, <1>17, <1>18, <1>19 DEF Next, Isr, Read, Control

-----------------------------------------------------------------------------
\* Every step keeps what the two routines know of the cache, the tokens and
\* the position of the write index.
LEMMA KnowledgeStep ==
  IInv /\ [Next]_vars => IsrInv' /\ ReadInv' /\ TokensExact' /\ RingConsistent'
<1> SUFFICES ASSUME IInv, [Next]_vars
             PROVE  IsrInv' /\ ReadInv' /\ TokensExact' /\ RingConsistent'
  OBVIOUS
<1> USE DEF IsrInv, ReadInv, TokensExact, RingConsistent, InHand, Oldest, Place, Thread,
            line, cache, control, isr, rd
<1>0. /\ cnt \in 0 .. BufNum /\ widx \in Slots /\ ridx \in Slots
      /\ sem \in Nat /\ dropped \in Nat
      /\ ipc \in IsrPc /\ icnt \in 0 .. BufNum /\ iidx \in Slots
      /\ rpc \in ReadPc /\ rpos \in Slots /\ rlen \in Int
      /\ len \in [Slots -> 0 .. BufSize]
      /\ IsrInv /\ ReadInv /\ TokensExact /\ RingConsistent
  BY DEF IInv, TypeOK
<1>a. Oldest \in Slots
  BY <1>0, IndexFacts
<1>1. CASE ByteArrives \/ IsrSpin \/ IsrDiscard \/ UNCHANGED vars
  BY <1>0, <1>1 DEF ByteArrives, IsrSpin, IsrDiscard, vars
<1>2. CASE IsrEnter
  BY <1>0, <1>2 DEF IsrEnter
<1>3. CASE IsrStore \/ IsrDrained
  BY <1>0, <1>3 DEF IsrStore, IsrDrained
<1>4. CASE IsrStoreLast \/ IsrFlush
  <2>1. /\ ipc = "fill" /\ cnt < BufNum
        /\ cnt' = cnt + 1 /\ sem' = sem + 1 /\ widx' = Next1(widx)
        /\ UNCHANGED <<ridx, rpc, rpos, rlen, dropped>>
    BY <1>0, <1>4 DEF IsrStoreLast, IsrFlush, Commit
  <2>2. IsrInv'
    BY <1>0, <1>4, <2>1 DEF IsrStoreLast, IsrFlush, Commit
  <2>3. ReadInv' /\ TokensExact'
    BY <1>0, <2>1
  <2>4. RingConsistent'
    BY <1>0, <1>a, <2>1, WindowFacts
  <2>5. QED
    BY <2>2, <2>3, <2>4
<1>5. CASE ReadBegin
  BY <1>0, <1>5 DEF ReadBegin
<1>6. CASE ReadTakeToken
  BY <1>0, <1>6 DEF ReadTakeToken
<1>7. CASE ReadTimeout \/ ReadCheckState
  BY <1>0, <1>7 DEF ReadTimeout, ReadCheckState
<1>8. CASE ReadCount
  BY <1>0, <1>8 DEF ReadCount
<1>9. CASE ReadCopy
  BY <1>0, <1>9 DEF ReadCopy
<1>10. CASE ReadAdvance
  <2>1. Prev1(ridx') = ridx
    BY <1>0, <1>10, IndexFacts DEF ReadAdvance
  <2>2. QED
    BY <1>0, <1>10, <2>1 DEF ReadAdvance
<1>11. CASE ReadRelease
  <2>1. /\ rpc = "release" /\ rpc' = "idle" /\ cnt' = cnt - 1 /\ cnt > 0
        /\ UNCHANGED <<widx, ridx, sem, dropped, ipc, icnt, iidx>> /\ ipc = "idle"
    BY <1>0, <1>11 DEF ReadRelease
  <2>2. Next1(Prev1(ridx)) = ridx
    BY <1>0 DEF Slots, Next1, Prev1
  <2>3. RingConsistent'
    BY <1>0, <1>a, <2>1, <2>2, WindowFacts
  <2>4. QED
    BY <1>0, <2>1, <2>3
<1>12. CASE SerialInit
  BY <1>0, <1>12, IndexFacts DEF SerialInit, Slots
<1>13. CASE SerialStart \/ SerialStop \/ SerialDisable \/ SerialEnable \/ SerialDeinit
  BY <1>0, <1>13 DEF SerialStart, SerialStop, SerialDisable, SerialEnable, SerialDeinit
<1>14. QED
  BY <1>1, <1>2, <1>3, <1>4, <1>5, <1>6, <1>7, <1>8, <1>9, <1>10, <1>11, <1>12,
     <1>13 DEF Next, Isr, Read, Control

-----------------------------------------------------------------------------
\* The inductive invariant holds in every reachable state.
THEOREM Invariance == Spec => []IInv
<1>1. IInv /\ [Next]_vars => IInv'
  BY TypeStep, KnowledgeStep DEF IInv
<1>2. QED
  BY InitIInv, <1>1, PTL DEF Spec

\* The indices and counts of serial.c stay inside the arrays of serial->cache,
\* whatever the interleaving of the interrupt with serial_read and with the
\* other calls of the port.
THEOREM TypeCorrect == Spec => []TypeOK
BY Invariance, PTL DEF IInv

\* The write index stays cnt slots after the oldest record held: serial.c never
\* loses count of a slot.
THEOREM RingCorrect == Spec => []RingConsistent
BY Invariance, PTL DEF IInv

\* Each record in the cache has its token, but for those serial_read and
\* serial_deinit are known to give up: none is stranded behind the semaphore, and
\* serial_read never finds the cache empty after a successful wait.
THEOREM TokensCorrect == Spec => []TokensExact
BY Invariance, PTL DEF IInv

LEMMA NoOverwriteFact == ASSUME IInv PROVE NoOverwrite
<1> SUFFICES ASSUME ipc = "fill", NEW q \in 0 .. cnt - 1
             PROVE  Place(q) # iidx
  BY DEF NoOverwrite
<1>1. cnt \in 0 .. BufNum - 1 /\ iidx = Wrap(Oldest + cnt)
  BY DEF IInv, TypeOK, IsrInv, RingConsistent, Place
<1>2. Oldest \in Slots
  BY IndexFacts DEF IInv, TypeOK, Oldest
<1>3. QED
  BY <1>1, <1>2, WindowDistinct DEF Place

\* serial_rx_callback never writes into a slot that still holds a record, the
\* one serial_read is copying included.
THEOREM NoOverwriteCorrect == Spec => []NoOverwrite
BY Invariance, NoOverwriteFact, PTL

-----------------------------------------------------------------------------
(* The cache implements RecordQueue.                                       *)

Sent == 1 .. MaxBytes            \* the bytes the MCU sends
Item == UNION {[1 .. n -> Sent] : n \in 1 .. BufSize}

\* What was sent is in the FIFO and in the record being filled, and the reader
\* holds a copy of the oldest record.
CopyInv ==
  /\ fifo \in Seq(Sent)
  /\ ipc = "fill" => \A p \in 1 .. ilen : buf[iidx][p] \in Sent
  /\ rpc \in {"advance", "release"} => rlen = len[Oldest] /\ rbuf = buf[Oldest]

QInv == IInv /\ CopyInv

LEMMA OldestFacts ==
  ASSUME IInv
  PROVE  /\ cnt \in 0 .. BufNum /\ Oldest \in Slots
         /\ \A q \in 0 .. cnt - 1 : Place(q) \in Slots
         /\ cnt > 0 => Place(0) = Oldest
<1>1. cnt \in 0 .. BufNum /\ Oldest \in Slots
  BY IndexFacts DEF IInv, TypeOK, Oldest
<1>2. ASSUME NEW q \in 0 .. cnt - 1 PROVE Place(q) \in Slots
  BY <1>1, WindowFacts DEF Place
<1>3. Place(0) = Oldest
  <2>1. Oldest + 0 = Oldest
    BY <1>1 DEF Slots
  <2>2. QED
    BY <1>1, <2>1, IndexFacts DEF Place
<1>4. QED
  BY <1>1, <1>2, <1>3

\* The queue, place by place, for any cache.
Records(c, o, l, b) == [q \in 1 .. c |-> SubSeq(b[Wrap(o + (q - 1))], 1, l[Wrap(o + (q - 1))])]

LEMMA RecordsFacts ==
  ASSUME NEW c \in 0 .. BufNum, NEW o \in Slots,
         NEW l \in [Slots -> 0 .. BufSize], NEW b \in [Slots -> Contents]
  PROVE  /\ Records(c, o, l, b) \in Seq(Seq(Bytes))
         /\ Len(Records(c, o, l, b)) = c
<1> DEFINE i(q) == Wrap(o + (q - 1))
           e(q) == SubSeq(b[i(q)], 1, l[i(q)])
<1>1. c \in Nat
  OBVIOUS
<1>2. ASSUME NEW q \in 1 .. c PROVE e(q) \in Seq(Bytes)
  <2>1. q - 1 \in 0 .. BufNum
    OBVIOUS
  <2>2. i(q) \in Slots
    BY <2>1, WindowFacts
  <2>3. b[i(q)] \in Contents /\ l[i(q)] \in 0 .. BufSize
    BY <2>2
  <2>4. QED
    BY <2>3, RecordType
<1>3. Records(c, o, l, b) = [q \in 1 .. c |-> e(q)]
  BY DEF Records
<1> HIDE DEF e
<1> DEFINE r == [q \in 1 .. c |-> e(q)]
<1>4. r \in Seq(Seq(Bytes)) /\ Len(r) = c
  <2>1. r \in [1 .. c -> Seq(Bytes)]
    BY <1>2
  <2> HIDE DEF r
  <2>2. QED
    BY ONLY <1>1, <2>1
<1>5. QED
  BY <1>3, <1>4

LEMMA QueuedFacts ==
  ASSUME IInv
  PROVE  /\ Queued \in Seq(Seq(Bytes))
         /\ Len(Queued) = cnt
         /\ \A q \in 1 .. cnt : Queued[q] = Record(Place(q - 1))
<1>1. /\ cnt \in 0 .. BufNum /\ Oldest \in Slots
      /\ len \in [Slots -> 0 .. BufSize] /\ buf \in [Slots -> Contents]
  BY OldestFacts DEF IInv, TypeOK
<1>2. Queued = Records(cnt, Oldest, len, buf)
  BY DEF Queued, Records, Record, Place
<1>3. Queued \in Seq(Seq(Bytes)) /\ Len(Queued) = cnt
  BY <1>1, <1>2, RecordsFacts
<1>4. \A q \in 1 .. cnt : Queued[q] = Record(Place(q - 1))
  BY DEF Queued
<1>5. QED
  BY <1>3, <1>4

LEMMA QueuedNext ==
  ASSUME IInv'
  PROVE  /\ cnt' \in 0 .. BufNum /\ Oldest' \in Slots
         /\ Queued' \in Seq(Seq(Bytes))
         /\ Len(Queued') = cnt'
         /\ \A q \in 1 .. cnt' : Queued'[q] = Record(Place(q - 1))'
<1>1. /\ cnt' \in 0 .. BufNum /\ Oldest' \in Slots
      /\ len' \in [Slots -> 0 .. BufSize] /\ buf' \in [Slots -> Contents]
  BY IndexFacts DEF IInv, TypeOK, Oldest
<1>2. Queued' = Records(cnt', Oldest', len', buf')
  BY DEF Queued, Records, Record, Place
<1>3. Queued' \in Seq(Seq(Bytes)) /\ Len(Queued') = cnt'
  BY <1>1, <1>2, RecordsFacts
<1>4. \A q \in 1 .. cnt' : Queued'[q] = Record(Place(q - 1))'
  BY DEF Queued
<1>5. QED
  BY <1>1, <1>3, <1>4

\* A step that leaves the records held where they are leaves the queue.
LEMMA QueuedKept ==
  ASSUME cnt' = cnt, Oldest' = Oldest, IInv,
         \A q \in 0 .. cnt - 1 : buf'[Place(q)] = buf[Place(q)] /\ len'[Place(q)] = len[Place(q)]
  PROVE  Queued' = Queued
<1>1. ASSUME NEW q \in 1 .. cnt
      PROVE  Record(Place(q - 1))' = Record(Place(q - 1))
  <2>1. q - 1 \in 0 .. cnt - 1
    BY OldestFacts
  <2>2. Place(q - 1)' = Place(q - 1)
    BY DEF Place
  <2>3. QED
    BY <2>1, <2>2 DEF Record
<1>2. QED
  BY <1>1 DEF Queued

\* What a byte the handler takes out of the FIFO does to the slot it fills.
LEMMA StoreFacts ==
  ASSUME QInv, IsrStore \/ IsrStoreLast
  PROVE  /\ fifo' \in Seq(Sent)
         /\ \A p \in 1 .. ilen + 1 : buf'[iidx][p] \in Sent
         /\ \A i \in Slots : i # iidx => buf'[i] = buf[i]
         /\ ipc = "fill" /\ iidx \in Slots /\ ilen \in 0 .. BufSize - 1
<1>1. /\ fifo \in Seq(Sent) /\ fifo # <<>> /\ fifo' = Tail(fifo) /\ ipc = "fill"
      /\ buf' = [buf EXCEPT ![iidx] = [buf[iidx] EXCEPT ![ilen + 1] = Head(fifo)]]
      /\ \A p \in 1 .. ilen : buf[iidx][p] \in Sent
  BY DEF IsrStore, IsrStoreLast, QInv, CopyInv
<1>2. Head(fifo) \in Sent /\ fifo' \in Seq(Sent)
  BY <1>1, HeadTailProperties
<1>3. iidx \in Slots /\ ilen \in 0 .. BufSize - 1 /\ buf \in [Slots -> Contents]
  BY DEF QInv, IInv, TypeOK
<1>4. buf'[iidx] = [buf[iidx] EXCEPT ![ilen + 1] = Head(fifo)] /\ buf[iidx] \in Contents
  BY <1>1, <1>3
<1>5. ASSUME NEW p \in 1 .. ilen + 1 PROVE buf'[iidx][p] \in Sent
  <2>1. p \in 1 .. BufSize /\ (p = ilen + 1 \/ p \in 1 .. ilen)
    BY <1>3
  <2>2. buf'[iidx][p] = IF p = ilen + 1 THEN Head(fifo) ELSE buf[iidx][p]
    BY <1>4, <2>1 DEF Contents
  <2>3. QED
    BY <1>1, <1>2, <2>1, <2>2
<1>6. QED
  BY <1>1, <1>2, <1>3, <1>5

\* The record committed is an item, and goes to the end of the queue.
LEMMA PutFacts ==
  ASSUME QInv, NEW n \in 1 .. BufSize, Commit(n), ipc = "fill", UNCHANGED <<ridx, rpc, out>>,
         \A i \in Slots : i # iidx => buf'[i] = buf[i],
         buf'[iidx] \in Contents, \A p \in 1 .. n : buf'[iidx][p] \in Sent, IInv'
  PROVE  /\ cnt < BufNum
         /\ \E x \in Item : Queued' = Append(Queued, x)
<1> DEFINE x == SubSeq(buf'[iidx], 1, n)
<1>1. /\ IInv /\ cnt \in 0 .. BufNum /\ icnt = cnt /\ icnt < BufNum
      /\ len \in [Slots -> 0 .. BufSize] /\ iidx \in Slots
  BY OldestFacts DEF QInv, IInv, IsrInv, TypeOK
<1>2. cnt' = cnt + 1 /\ len' = [len EXCEPT ![iidx] = n] /\ Oldest' = Oldest
  BY <1>1 DEF Commit, Oldest
<1>3. x \in Item
  <2>1. x \in Seq(Sent) /\ Len(x) = n
    BY SubSeqProperties
  <2>2. x \in [1 .. n -> Sent]
    BY <2>1, LenProperties
  <2>3. QED
    BY <2>2 DEF Item
<1>4. x \in Seq(Bytes)
  BY RecordType
<1>5. Wrap(Oldest' + cnt) = iidx
  BY <1>1, <1>2 DEF IInv, IsrInv, RingConsistent, Place
<1>6. ASSUME NEW q \in 1 .. cnt PROVE Record(Place(q - 1))' = Record(Place(q - 1))
  <2>1. q - 1 \in 0 .. cnt - 1
    BY <1>1
  <2>2. Place(q - 1) \in Slots /\ Place(q - 1) # iidx
    BY <1>1, <2>1, OldestFacts, NoOverwriteFact DEF NoOverwrite
  <2>3. Place(q - 1)' = Place(q - 1)
    BY <1>2 DEF Place
  <2>4. QED
    BY <1>1, <1>2, <2>2, <2>3 DEF Record
<1>7. /\ Queued \in Seq(Seq(Bytes)) /\ Len(Queued) = cnt
      /\ \A q \in 1 .. cnt : Queued[q] = Record(Place(q - 1))
  BY <1>1, QueuedFacts
<1>8. /\ Queued' \in Seq(Seq(Bytes)) /\ Len(Queued') = cnt + 1
      /\ \A q \in 1 .. cnt + 1 : Queued'[q] = Record(Place(q - 1))'
  <2>1. /\ Queued' \in Seq(Seq(Bytes)) /\ Len(Queued') = cnt'
        /\ \A q \in 1 .. cnt' : Queued'[q] = Record(Place(q - 1))'
    BY QueuedNext
  <2>2. QED
    BY <1>2, <2>1
<1> HIDE DEF x
<1>9. /\ Append(Queued, x) \in Seq(Seq(Bytes)) /\ Len(Append(Queued, x)) = cnt + 1
      /\ \A q \in 1 .. cnt : Append(Queued, x)[q] = Queued[q]
      /\ Append(Queued, x)[cnt + 1] = x
  BY <1>4, <1>7, AppendProperties
<1>10. ASSUME NEW q \in 1 .. cnt + 1 PROVE Queued'[q] = Append(Queued, x)[q]
  <2>1. CASE q \in 1 .. cnt
    BY <1>6, <1>7, <1>8, <1>9, <2>1
  <2>2. CASE q = cnt + 1
    <3>1. q - 1 = cnt
      BY <1>1, <2>2
    <3>2. Queued'[q] = Record(Place(q - 1))'
      BY <1>8
    <3>3. Place(q - 1)' = iidx
      <4>1. Place(q - 1)' = Wrap(Oldest' + (q - 1))
        BY DEF Place
      <4>2. QED
        BY <1>5, <3>1, <4>1
    <3>4. Record(Place(q - 1))' = x
      BY <1>1, <1>2, <3>3 DEF Record, x
    <3>5. QED
      BY <1>9, <2>2, <3>2, <3>4
  <2>3. q \in 1 .. cnt \/ q = cnt + 1
    BY <1>1
  <2>4. QED
    BY <2>1, <2>2, <2>3
<1>11. Queued' = Append(Queued, x)
  BY <1>8, <1>9, <1>10, SeqEqual
<1>12. QED
  BY <1>1, <1>3, <1>11

\* serial_read hands over the oldest record, and gives its slot back.
LEMMA GetFacts ==
  ASSUME QInv, QInv', ReadRelease
  PROVE  Queued # <<>> /\ out' = Head(Queued) /\ Queued' = Tail(Queued)
<1>1. /\ IInv /\ IInv' /\ cnt \in 0 .. BufNum /\ Oldest \in Slots /\ Oldest' \in Slots
      /\ rpc = "release" /\ rpc' = "idle" /\ cnt' = cnt - 1 /\ UNCHANGED <<ridx, len, buf>>
      /\ rlen = len[Oldest] /\ rbuf = buf[Oldest] /\ out' = SubSeq(rbuf, 1, rlen)
  BY OldestFacts, QueuedNext DEF ReadRelease, Thread, QInv, CopyInv
<1>2. cnt > 0
  BY <1>1 DEF IInv, TypeOK, TokensExact, InHand
<1>3. /\ Queued \in Seq(Seq(Bytes)) /\ Len(Queued) = cnt
      /\ \A q \in 1 .. cnt : Queued[q] = Record(Place(q - 1))
  BY <1>1, QueuedFacts
<1>4. /\ Queued' \in Seq(Seq(Bytes)) /\ Len(Queued') = cnt - 1
      /\ \A q \in 1 .. cnt - 1 : Queued'[q] = Record(Place(q - 1))'
  <2>1. /\ Queued' \in Seq(Seq(Bytes)) /\ Len(Queued') = cnt'
        /\ \A q \in 1 .. cnt' : Queued'[q] = Record(Place(q - 1))'
    BY <1>1, QueuedNext
  <2>2. QED
    BY <1>1, <2>1
<1>5. Queued # <<>>
  BY <1>2, <1>3
<1>6. out' = Head(Queued)
  <2>1. Head(Queued) = Queued[1]
    BY <1>3, <1>5
  <2>2. Queued[1] = Record(Place(0))
    BY <1>1, <1>2, <1>3
  <2>3. QED
    BY <1>1, <1>2, <2>1, <2>2, OldestFacts DEF Record
<1>7. Oldest' = Next1(Oldest)
  <2>1. ridx \in Slots
    BY <1>1 DEF IInv, TypeOK
  <2>2. Next1(Prev1(ridx)) = ridx
    BY <2>1 DEF Slots, Next1, Prev1
  <2>3. QED
    BY <1>1, <2>2 DEF Oldest
<1>8. ASSUME NEW q \in 1 .. cnt - 1 PROVE Place(q - 1)' = Place(q)
  <2>1. Wrap(Next1(Oldest) + (q - 1)) = Wrap(Oldest + q)
    BY <1>1, WindowFacts
  <2>2. Place(q - 1)' = Wrap(Oldest' + (q - 1))
    BY DEF Place
  <2>3. QED
    BY <1>7, <2>1, <2>2 DEF Place
<1>9. /\ Tail(Queued) \in Seq(Seq(Bytes)) /\ Len(Tail(Queued)) = cnt - 1
      /\ \A q \in 1 .. cnt - 1 : Tail(Queued)[q] = Queued[q + 1]
  BY <1>1, <1>3, <1>5, HeadTailProperties
<1>10. ASSUME NEW q \in 1 .. cnt - 1 PROVE Queued'[q] = Tail(Queued)[q]
  <2>1. q + 1 \in 1 .. cnt /\ (q + 1) - 1 = q
    BY <1>1
  <2>2. Record(Place(q - 1))' = Record(Place(q))
    BY <1>1, <1>8 DEF Record
  <2>3. Queued[q + 1] = Record(Place(q))
    BY <1>3, <2>1
  <2>4. QED
    BY <1>4, <1>9, <2>2, <2>3
<1>11. Queued' = Tail(Queued)
  BY <1>4, <1>9, <1>10, SeqEqual
<1>12. QED
  BY <1>5, <1>6, <1>11

LEMMA OldestApart ==
  ASSUME QInv, ipc = "fill", rpc \in {"advance", "release"}
  PROVE  cnt > 0 /\ Oldest \in Slots /\ Oldest # iidx
<1>1. IInv /\ NoOverwrite
  BY NoOverwriteFact DEF QInv
<1>2. cnt \in Nat /\ sem \in Nat /\ dropped \in Nat /\ sem + 1 + dropped = cnt
  BY <1>1 DEF IInv, TypeOK, TokensExact, InHand
<1>3. cnt > 0 /\ 0 \in 0 .. cnt - 1
  BY <1>2
<1>4. QED
  BY <1>1, <1>3, OldestFacts DEF NoOverwrite

LEMMA CopyInit == Init => CopyInv
BY DEF Init, CopyInv

LEMMA CopyStep == QInv /\ [Next]_vars => CopyInv'
<1> SUFFICES ASSUME QInv, [Next]_vars PROVE CopyInv'
  OBVIOUS
<1> DEFINE Copied == rpc \in {"advance", "release"} => rlen = len[Oldest] /\ rbuf = buf[Oldest]
<1>0. /\ IInv /\ fifo \in Seq(Sent) /\ Copied
      /\ ipc = "fill" => \A p \in 1 .. ilen : buf[iidx][p] \in Sent
      /\ sent \in 0 .. MaxBytes /\ ridx \in Slots /\ iidx \in Slots /\ ilen \in 0 .. BufSize - 1
      /\ len \in [Slots -> 0 .. BufSize] /\ buf \in [Slots -> Contents]
      /\ IsrInv /\ ReadInv
  BY DEF QInv, CopyInv, IInv, TypeOK
<1>a. ASSUME UNCHANGED <<fifo, ipc, iidx, ilen, buf, len, rlen, rbuf, Oldest>>,
             rpc' \in {"advance", "release"} => rpc \in {"advance", "release"}
      PROVE  CopyInv'
  BY <1>0, <1>a DEF CopyInv
<1>1. CASE ByteArrives
  <2>1. fifo' \in Seq(Sent)
    <3>1. sent + 1 \in Sent
      BY <1>0, <1>1 DEF ByteArrives, Sent
    <3>2. fifo' = fifo \/ fifo' = Append(fifo, sent + 1)
      BY <1>1 DEF ByteArrives
    <3>3. Append(fifo, sent + 1) \in Seq(Sent)
      BY ONLY <1>0, <3>1, AppendProperties
    <3>4. QED
      BY <1>0, <3>2, <3>3
  <2>2. UNCHANGED <<ipc, iidx, ilen, buf, len, rlen, rbuf, rpc, ridx>>
    BY <1>1 DEF ByteArrives, cache, isr, rd
  <2>3. QED
    BY <1>0, <2>1, <2>2 DEF CopyInv, Oldest
<1>2. CASE IsrEnter
  <2>1. UNCHANGED <<fifo, buf, len, rlen, rbuf, rpc, ridx>> /\ ilen' = 0
    BY <1>2 DEF IsrEnter, line, cache, rd
  <2>2. QED
    BY <1>0, <2>1 DEF CopyInv, Oldest
<1>3. CASE IsrStore \/ IsrStoreLast
  <2>1. /\ fifo' \in Seq(Sent)
        /\ \A p \in 1 .. ilen + 1 : buf'[iidx][p] \in Sent
        /\ \A i \in Slots : i # iidx => buf'[i] = buf[i]
        /\ ipc = "fill"
    BY <1>3, StoreFacts
  <2>2. UNCHANGED <<rlen, rbuf, rpc, ridx>> /\ \A i \in Slots : i # iidx => len'[i] = len[i]
    BY <1>0, <1>3 DEF IsrStore, IsrStoreLast, Commit, rd
  <2>3. Oldest' = Oldest
    BY <2>2 DEF Oldest
  <2>4. Copied'
    <3> SUFFICES ASSUME rpc' \in {"advance", "release"}
                 PROVE  rlen' = len'[Oldest'] /\ rbuf' = buf'[Oldest']
      OBVIOUS
    <3>1. Oldest \in Slots /\ Oldest # iidx /\ rlen = len[Oldest] /\ rbuf = buf[Oldest]
      BY <1>0, <2>1, <2>2, OldestApart
    <3>2. QED
      BY <2>1, <2>2, <2>3, <3>1
  <2>5. ipc' = "fill" => \A p \in 1 .. ilen' : buf'[iidx'][p] \in Sent
    <3>1. CASE IsrStore
      <4>1. iidx' = iidx /\ ilen' = ilen + 1
        BY <3>1 DEF IsrStore
      <4>2. QED
        BY <2>1, <4>1
    <3>2. CASE IsrStoreLast
      <4>1. ilen' = 0
        BY <3>2 DEF IsrStoreLast
      <4>2. QED
        BY <4>1
    <3>3. QED
      BY <1>3, <3>1, <3>2
  <2>6. QED
    BY <2>1, <2>4, <2>5 DEF CopyInv
<1>4. CASE IsrFlush
  <2>1. /\ UNCHANGED <<fifo, buf, rlen, rbuf, rpc, ridx>> /\ ipc = "fill" /\ ipc' = "idle"
        /\ \A i \in Slots : i # iidx => len'[i] = len[i]
    BY <1>0, <1>4 DEF IsrFlush, Commit, line, rd
  <2>2. Oldest' = Oldest
    BY <2>1 DEF Oldest
  <2>3. Copied'
    <3> SUFFICES ASSUME rpc' \in {"advance", "release"}
                 PROVE  rlen' = len'[Oldest'] /\ rbuf' = buf'[Oldest']
      OBVIOUS
    <3>1. Oldest \in Slots /\ Oldest # iidx /\ rlen = len[Oldest] /\ rbuf = buf[Oldest]
      BY <1>0, <2>1, OldestApart
    <3>2. QED
      BY <2>1, <2>2, <3>1
  <2>4. QED
    BY <1>0, <2>1, <2>3 DEF CopyInv
<1>5. CASE IsrDiscard
  <2>1. fifo' \in Seq(Sent)
    BY <1>0, <1>5 DEF IsrDiscard
  <2>2. UNCHANGED <<ipc, iidx, ilen, buf, len, rlen, rbuf, rpc, ridx>>
    BY <1>5 DEF IsrDiscard, cache, isr, rd
  <2>3. QED
    BY <1>0, <2>1, <2>2 DEF CopyInv, Oldest
<1>6. CASE IsrDrained
  <2>1. UNCHANGED <<fifo, buf, len, rlen, rbuf, rpc, ridx>> /\ ipc' = "idle"
    BY <1>6 DEF IsrDrained, line, cache, rd
  <2>2. QED
    BY <1>0, <2>1 DEF CopyInv, Oldest
<1>7. CASE IsrSpin \/ UNCHANGED vars
  BY <1>7, <1>a DEF IsrSpin, vars, line, cache, isr, rd, Oldest
<1>8. CASE ReadCopy
  <2>1. /\ UNCHANGED <<fifo, buf, len, ridx, ipc, iidx, ilen>> /\ rpos = ridx /\ rpc = "copy"
        /\ \/ rpc' = "idle"
           \/ rpc' = "advance" /\ rlen' = len[rpos] /\ rbuf' = buf[rpos]
    BY <1>0, <1>8 DEF ReadCopy, Thread, ReadInv, line, cache, isr
  <2>2. QED
    BY <1>0, <2>1 DEF CopyInv, Oldest
<1>9. CASE ReadAdvance
  <2>1. /\ UNCHANGED <<fifo, buf, len, ipc, iidx, ilen, rlen, rbuf>>
        /\ rpc = "advance" /\ rpc' = "release" /\ ridx' = Next1(ridx)
    BY <1>0, <1>9 DEF ReadAdvance, Thread, ReadInv, line, isr
  <2>2. Oldest' = Oldest
    BY <1>0, <2>1, IndexFacts DEF Oldest
  <2>3. QED
    BY <1>0, <2>1, <2>2 DEF CopyInv
<1>10. CASE ReadRelease \/ ReadBegin \/ ReadTakeToken \/ ReadTimeout \/ ReadCheckState \/ ReadCount
  <2>1. /\ UNCHANGED <<fifo, buf, len, ipc, iidx, ilen>>
        /\ rpc' \notin {"advance", "release"}
    BY <1>10 DEF ReadRelease, ReadBegin, ReadTakeToken, ReadTimeout, ReadCheckState, ReadCount,
                 line, cache, isr
  <2>2. QED
    BY <1>0, <2>1 DEF CopyInv
<1>11. CASE Control
  <2>1. /\ UNCHANGED <<fifo, ipc, iidx, ilen, rpc>> /\ ipc = "idle" /\ rpc = "idle"
    BY <1>11 DEF Control, SerialInit, SerialStart, SerialStop, SerialDisable, SerialEnable,
                 SerialDeinit, Thread, line, isr, rd
  <2>2. QED
    BY <1>0, <2>1 DEF CopyInv
<1>12. QED
  BY <1>1, <1>2, <1>3, <1>4, <1>5, <1>6, <1>7, <1>8, <1>9, <1>10, <1>11 DEF Next, Isr, Read

LEMMA QInvSpec == Spec => []QInv
<1>1. QInv /\ [Next]_vars => QInv'
  BY TypeStep, KnowledgeStep, CopyStep DEF QInv, IInv
<1>2. QED
  BY InitIInv, CopyInit, <1>1, PTL DEF Spec, QInv

\* Every step of the port is one of the queue, or leaves it as it is: a commit
\* puts a record in, the release takes the oldest out, serial_init empties it.
LEMMA QueueStep ==
  ASSUME QInv, QInv', [Next]_vars
  PROVE  [Abstract!Next]_(Abstract!vars)
<1> DEFINE Put == /\ cnt < BufNum
                  /\ \E x \in Item : Queued' = Append(Queued, x)
                  /\ UNCHANGED out
           Get == Queued # <<>> /\ out' = Head(Queued) /\ Queued' = Tail(Queued)
           Cleared == Queued' = <<>> /\ UNCHANGED out
           Same == UNCHANGED <<Queued, out>>
<1>0. IInv /\ IInv' /\ Len(Queued) = cnt
  BY QueuedFacts DEF QInv
<1>1. Put => [Abstract!Next]_(Abstract!vars)
  BY <1>0 DEF Abstract!Next, Abstract!Put, Item, Sent
<1>2. Get => [Abstract!Next]_(Abstract!vars)
  BY DEF Abstract!Next, Abstract!Take
<1>3. Cleared => [Abstract!Next]_(Abstract!vars)
  BY DEF Abstract!Next, Abstract!Clear
<1>4. Same => [Abstract!Next]_(Abstract!vars)
  BY DEF Abstract!vars
<1>5. CASE IsrStoreLast \/ IsrFlush
  <2>1. CASE IsrStoreLast
    <3>1. /\ \A p \in 1 .. ilen + 1 : buf'[iidx][p] \in Sent
          /\ \A i \in Slots : i # iidx => buf'[i] = buf[i]
          /\ ipc = "fill" /\ iidx \in Slots /\ ilen + 1 \in 1 .. BufSize
      BY <2>1, StoreFacts
    <3>2. Commit(ilen + 1) /\ UNCHANGED <<ridx, rpc, out>> /\ buf'[iidx] \in Contents
      BY <1>0, <2>1, <3>1 DEF IsrStoreLast, rd, IInv, TypeOK
    <3>3. cnt < BufNum /\ \E x \in Item : Queued' = Append(Queued, x)
      BY <1>0, <3>1, <3>2, PutFacts
    <3>4. QED
      BY <1>1, <3>2, <3>3
  <2>2. CASE IsrFlush
    <3>1. /\ ipc = "fill" /\ ilen \in 1 .. BufSize /\ Commit(ilen) /\ UNCHANGED <<ridx, rpc, out, buf>>
          /\ iidx \in Slots /\ buf[iidx] \in Contents
      BY <1>0, <2>2 DEF IsrFlush, rd, IInv, TypeOK
    <3>2. \A p \in 1 .. ilen : buf'[iidx][p] \in Sent
      BY <3>1 DEF QInv, CopyInv
    <3>3. cnt < BufNum /\ \E x \in Item : Queued' = Append(Queued, x)
      BY <1>0, <3>1, <3>2, PutFacts
    <3>4. QED
      BY <1>1, <3>1, <3>3
  <2>3. QED
    BY <1>5, <2>1, <2>2
<1>6. CASE ReadRelease
  BY <1>2, <1>6, GetFacts
<1>7. CASE SerialInit
  <2>1. cnt' = 0 /\ UNCHANGED out
    BY <1>7 DEF SerialInit
  <2>2. Queued' \in Seq(Seq(Bytes)) /\ Len(Queued') = 0
    BY <1>0, <2>1, QueuedNext
  <2>3. Queued' = <<>>
    BY <2>2
  <2>4. QED
    BY <1>3, <2>1, <2>3
<1>8. ASSUME UNCHANGED <<cnt, len, buf, ridx, out>>,
             rpc' # "release", rpc # "release"
      PROVE  [Abstract!Next]_(Abstract!vars)
  <2>1. Oldest' = Oldest
    BY <1>8 DEF Oldest
  <2>2. Queued' = Queued
    BY <1>0, <1>8, <2>1, QueuedKept
  <2>3. QED
    BY <1>4, <1>8, <2>2
<1>9. ASSUME UNCHANGED <<cnt, len, buf, ridx, rpc, out>>
      PROVE  [Abstract!Next]_(Abstract!vars)
  <2>1. Oldest' = Oldest
    BY <1>9 DEF Oldest
  <2>2. Queued' = Queued
    BY <1>0, <1>9, <2>1, QueuedKept
  <2>3. QED
    BY <1>4, <1>9, <2>2
<1>10. CASE IsrStore
  <2>1. /\ \A i \in Slots : i # iidx => buf'[i] = buf[i]
        /\ ipc = "fill" /\ UNCHANGED <<cnt, len, ridx, rpc, out>>
    BY <1>10, StoreFacts DEF IsrStore, rd
  <2>2. Oldest' = Oldest
    BY <2>1 DEF Oldest
  <2>3. \A q \in 0 .. cnt - 1 : buf'[Place(q)] = buf[Place(q)]
    BY <1>0, <2>1, OldestFacts, NoOverwriteFact DEF NoOverwrite
  <2>4. Queued' = Queued
    BY <1>0, <2>1, <2>2, <2>3, QueuedKept
  <2>5. QED
    BY <1>4, <2>1, <2>4
<1>11. CASE ByteArrives \/ IsrEnter \/ IsrSpin \/ IsrDiscard \/ IsrDrained \/ UNCHANGED vars
  BY <1>9, <1>11 DEF ByteArrives, IsrEnter, IsrSpin, IsrDiscard, IsrDrained, vars, cache, rd
<1>12. CASE ReadAdvance
  <2>1. /\ UNCHANGED <<cnt, len, buf, out>> /\ rpc = "advance" /\ rpc' = "release"
        /\ ridx' = Next1(ridx) /\ ridx \in Slots
    BY <1>0, <1>12 DEF ReadAdvance, Thread, IInv, ReadInv, TypeOK
  <2>2. Oldest' = Oldest
    BY <2>1, IndexFacts DEF Oldest
  <2>3. Queued' = Queued
    BY <1>0, <2>1, <2>2, QueuedKept
  <2>4. QED
    BY <1>4, <2>1, <2>3
<1>13. CASE ReadBegin \/ ReadTakeToken \/ ReadTimeout \/ ReadCheckState \/ ReadCount \/ ReadCopy
  <2>1. UNCHANGED <<cnt, len, buf, ridx, out>> /\ rpc # "release" /\ rpc' # "release"
    BY <1>13 DEF ReadBegin, ReadTakeToken, ReadTimeout, ReadCheckState, ReadCount, ReadCopy,
                 Thread, cache
  <2>2. QED
    BY <1>8, <2>1
<1>14. CASE SerialStart \/ SerialStop \/ SerialDisable \/ SerialEnable \/ SerialDeinit
  BY <1>9, <1>14 DEF SerialStart, SerialStop, SerialDisable, SerialEnable, SerialDeinit, cache, rd
<1>15. QED
  BY <1>5, <1>6, <1>7, <1>10, <1>11, <1>12, <1>13, <1>14 DEF Next, Isr, Read, Control

\* The receive cache of serial.c is a bounded first-in first-out queue of records,
\* for every size of the ring, of a record and of the FIFO, whatever the
\* interleaving of the handler with serial_read and the other calls.
THEOREM QueueCorrect == Spec => IsRecordQueue
<1>1. Init => Abstract!Init
  <2> SUFFICES ASSUME Init PROVE Abstract!Init
    OBVIOUS
  <2>1. Len(Queued) = 0 /\ Queued \in Seq(Seq(Bytes)) /\ out = <<>>
    BY InitIInv, QueuedFacts DEF Init
  <2>2. QED
    BY <2>1 DEF Abstract!Init
<1>2. QInv /\ QInv' /\ [Next]_vars => [Abstract!Next]_(Abstract!vars)
  BY QueueStep
<1>3. QED
  BY <1>1, <1>2, QInvSpec, PTL DEF Spec, IsRecordQueue, Abstract!Spec

-----------------------------------------------------------------------------
(* The bytes on their way keep their order.                                *)

\* A stream of parts 0 .. c, of which h[q] bytes of d[q] are held, followed by
\* the bytes f, all of them among the first s that were sent.
Ordered(c, h, d, f, s) ==
  /\ \A q \in 0 .. c - 1 : h[q] > 0
  /\ \A q, m \in 0 .. c : \A i \in 1 .. h[q], p \in 1 .. h[m] :
        q < m \/ (q = m /\ i < p) => d[q][i] < d[m][p]
  /\ \A q \in 0 .. c : \A i \in 1 .. h[q], p \in 1 .. Len(f) : d[q][i] < f[p]
  /\ \A i, p \in 1 .. Len(f) : i < p => f[i] < f[p]
  /\ \A q \in 0 .. c : \A i \in 1 .. h[q] : d[q][i] <= s
  /\ \A p \in 1 .. Len(f) : f[p] <= s

HeldOf == [q \in 0 .. cnt |-> Held(q)]
DataOf == [q \in 0 .. cnt |-> buf[Slot(q)]]

SeqInv == Ordered(cnt, HeldOf, DataOf, fifo, sent)

PartSizes(c) == [0 .. c -> 0 .. BufSize]
Parts(c)     == [0 .. c -> Contents]

\* A stream of which every part holds what a part of the other holds, in the
\* same order, is ordered as that one is.
LEMMA OrderedShift ==
  ASSUME NEW c \in Nat, NEW c2 \in Nat, NEW n \in Nat, c2 + n = c,
         NEW h \in PartSizes(c), NEW d \in Parts(c),
         NEW h2 \in PartSizes(c2), NEW d2 \in Parts(c2),
         NEW f, NEW s,
         Ordered(c, h, d, f, s),
         \A q \in 0 .. c2 : /\ h2[q] = h[q + n]
                            /\ \A i \in 1 .. h2[q] : d2[q][i] = d[q + n][i]
  PROVE  Ordered(c2, h2, d2, f, s)
<1>1. ASSUME NEW q \in 0 .. c2 PROVE q + n \in 0 .. c
  OBVIOUS
<1>2. \A q \in 0 .. c2 - 1 : h2[q] > 0
  <2> SUFFICES ASSUME NEW q \in 0 .. c2 - 1 PROVE h2[q] > 0
    OBVIOUS
  <2>1. q \in 0 .. c2 /\ q + n \in 0 .. c - 1
    OBVIOUS
  <2>2. QED
    BY <2>1 DEF Ordered
<1>3. ASSUME NEW q \in 0 .. c2, NEW m \in 0 .. c2, NEW i \in 1 .. h2[q], NEW p \in 1 .. h2[m],
             q < m \/ (q = m /\ i < p)
      PROVE  d2[q][i] < d2[m][p]
  <2>1. q + n \in 0 .. c /\ m + n \in 0 .. c /\ i \in 1 .. h[q + n] /\ p \in 1 .. h[m + n]
    OBVIOUS
  <2>2. q + n < m + n \/ (q + n = m + n /\ i < p)
    BY <1>3
  <2>3. d[q + n][i] < d[m + n][p]
    BY <2>1, <2>2 DEF Ordered
  <2>4. d2[q][i] = d[q + n][i] /\ d2[m][p] = d[m + n][p]
    OBVIOUS
  <2>5. QED
    BY <2>3, <2>4
<1>4. \A q \in 0 .. c2 : \A i \in 1 .. h2[q], p \in 1 .. Len(f) : d2[q][i] < f[p]
  <2> SUFFICES ASSUME NEW q \in 0 .. c2, NEW i \in 1 .. h2[q], NEW p \in 1 .. Len(f)
               PROVE  d2[q][i] < f[p]
    OBVIOUS
  <2>1. d2[q][i] = d[q + n][i] /\ i \in 1 .. h[q + n]
    OBVIOUS
  <2>2. QED
    BY <1>1, <2>1 DEF Ordered
<1>5. \A q \in 0 .. c2 : \A i \in 1 .. h2[q] : d2[q][i] <= s
  BY <1>1 DEF Ordered
<1>6. QED
  BY <1>2, <1>3, <1>4, <1>5 DEF Ordered

\* The byte in front of the others may move to the end of the last part.
LEMMA OrderedMove ==
  ASSUME NEW c \in Nat, NEW s \in Nat, NEW f \in Seq(Sent), f # <<>>,
         NEW h \in PartSizes(c), NEW d \in Parts(c),
         NEW h2 \in PartSizes(c), NEW d2 \in Parts(c),
         Ordered(c, h, d, f, s),
         \A q \in 0 .. c - 1 : h2[q] = h[q],
         h2[c] = h[c] + 1,
         \A q \in 0 .. c : \A i \in 1 .. h[q] : d2[q][i] = d[q][i],
         d2[c][h[c] + 1] = Head(f)
  PROVE  Ordered(c, h2, d2, Tail(f), s)
<1>1. /\ Len(f) > 0 /\ Len(f) \in Nat /\ Len(Tail(f)) = Len(f) - 1
      /\ Head(f) = f[1] /\ \A p \in 1 .. Len(f) - 1 : Tail(f)[p] = f[p + 1]
      /\ \A p \in 1 .. Len(f) : f[p] \in Sent
  BY HeadTailProperties
<1>2. /\ \A q \in 0 .. c : h[q] \in 0 .. BufSize
      /\ \A q \in 0 .. c : \A i \in 1 .. h[q] : d[q][i] \in Bytes
  BY DEF PartSizes, Parts, Contents
<1>3. ASSUME NEW q \in 0 .. c, NEW i \in 1 .. h2[q]
      PROVE  \/ i \in 1 .. h[q] /\ d2[q][i] = d[q][i]
             \/ q = c /\ i = h[c] + 1 /\ d2[q][i] = f[1]
  <2>1. CASE q = c
    BY <1>1, <1>2, <2>1
  <2>2. CASE q # c
    <3>1. q \in 0 .. c - 1
      BY <2>2
    <3>2. QED
      BY <1>2, <3>1
  <2>3. QED
    BY <2>1, <2>2
<1>4. \A q \in 0 .. c - 1 : h2[q] > 0
  BY DEF Ordered
<1>5. ASSUME NEW q \in 0 .. c, NEW m \in 0 .. c, NEW i \in 1 .. h2[q], NEW p \in 1 .. h2[m],
             q < m \/ (q = m /\ i < p)
      PROVE  d2[q][i] < d2[m][p]
  <2>1. CASE i \in 1 .. h[q] /\ p \in 1 .. h[m] /\ d2[q][i] = d[q][i] /\ d2[m][p] = d[m][p]
    BY <1>5, <2>1 DEF Ordered
  <2>2. CASE i \in 1 .. h[q] /\ d2[q][i] = d[q][i] /\ d2[m][p] = f[1]
    BY <1>1, <2>2 DEF Ordered
  <2>3. CASE q = c /\ i = h[c] + 1
    <3>1. m = c /\ p > h[c] + 1
      BY <1>2, <1>5, <2>3
    <3>2. QED
      BY <1>2, <3>1
  <2>4. QED
    BY <1>3, <2>1, <2>2, <2>3
<1>6. ASSUME NEW q \in 0 .. c, NEW i \in 1 .. h2[q], NEW p \in 1 .. Len(Tail(f))
      PROVE  d2[q][i] < Tail(f)[p]
  <2>1. p \in 1 .. Len(f) - 1 /\ p + 1 \in 1 .. Len(f) /\ 1 \in 1 .. Len(f) /\ 1 < p + 1
    BY <1>1
  <2>2. Tail(f)[p] = f[p + 1] /\ f[1] < f[p + 1]
    BY <1>1, <2>1 DEF Ordered
  <2>3. QED
    BY <1>3, <2>1, <2>2 DEF Ordered
<1>7. ASSUME NEW i \in 1 .. Len(Tail(f)), NEW p \in 1 .. Len(Tail(f)), i < p
      PROVE  Tail(f)[i] < Tail(f)[p]
  <2>1. i + 1 \in 1 .. Len(f) /\ p + 1 \in 1 .. Len(f) /\ i + 1 < p + 1
    BY <1>1, <1>7
  <2>2. f[i + 1] < f[p + 1]
    BY <2>1 DEF Ordered
  <2>3. QED
    BY <1>1, <2>2
<1>8. \A q \in 0 .. c : \A i \in 1 .. h2[q] : d2[q][i] <= s
  <2>1. 1 \in 1 .. Len(f)
    BY <1>1
  <2>2. QED
    BY <1>3, <2>1 DEF Ordered
<1>9. \A p \in 1 .. Len(Tail(f)) : Tail(f)[p] <= s
  <2> SUFFICES ASSUME NEW p \in 1 .. Len(Tail(f)) PROVE Tail(f)[p] <= s
    OBVIOUS
  <2>1. p + 1 \in 1 .. Len(f) /\ Tail(f)[p] = f[p + 1]
    BY <1>1
  <2>2. QED
    BY <2>1 DEF Ordered
<1>10. QED
  BY <1>4, <1>5, <1>6, <1>7, <1>8, <1>9 DEF Ordered

\* A last part that holds something may be closed, and an empty one begun.
LEMMA OrderedCommit ==
  ASSUME NEW c \in Nat, NEW f, NEW s,
         NEW h \in PartSizes(c), NEW d \in Parts(c),
         NEW h2 \in PartSizes(c + 1), NEW d2 \in Parts(c + 1),
         Ordered(c, h, d, f, s), h[c] > 0,
         \A q \in 0 .. c : /\ h2[q] = h[q]
                           /\ \A i \in 1 .. h[q] : d2[q][i] = d[q][i],
         h2[c + 1] = 0
  PROVE  Ordered(c + 1, h2, d2, f, s)
<1>1. ASSUME NEW q \in 0 .. c + 1, NEW i \in 1 .. h2[q]
      PROVE  q \in 0 .. c /\ i \in 1 .. h[q] /\ d2[q][i] = d[q][i]
  <2>1. q # c + 1
    OBVIOUS
  <2>2. QED
    BY <2>1
<1>2. \A q \in 0 .. (c + 1) - 1 : h2[q] > 0
  <2> SUFFICES ASSUME NEW q \in 0 .. c PROVE h2[q] > 0
    OBVIOUS
  <2>1. q = c \/ q \in 0 .. c - 1
    OBVIOUS
  <2>2. QED
    BY <2>1 DEF Ordered
<1>3. QED
  BY <1>1, <1>2 DEF Ordered

\* The bytes behind the parts: a new one goes to the end, the first may be lost.
LEMMA OrderedArrive ==
  ASSUME NEW c \in Nat, NEW s \in Nat, NEW f \in Seq(Sent),
         NEW h \in PartSizes(c), NEW d \in Parts(c),
         Ordered(c, h, d, f, s)
  PROVE  /\ Ordered(c, h, d, f, s + 1)
         /\ Ordered(c, h, d, Append(f, s + 1), s + 1)
<1>1. /\ Len(f) \in Nat /\ Len(Append(f, s + 1)) = Len(f) + 1
      /\ Append(f, s + 1)[Len(f) + 1] = s + 1
      /\ \A p \in 1 .. Len(f) : Append(f, s + 1)[p] = f[p] /\ f[p] \in Nat
  BY AppendProperties DEF Sent
<1>2. \A q \in 0 .. c : \A i \in 1 .. h[q] : d[q][i] \in Nat
  BY SMTT(30) DEF PartSizes, Parts, Contents, Bytes
<1>3. Ordered(c, h, d, f, s + 1)
  BY <1>1, <1>2 DEF Ordered
<1> DEFINE g == Append(f, s + 1)
<1>4. ASSUME NEW p \in 1 .. Len(g)
      PROVE  (p \in 1 .. Len(f) /\ g[p] = f[p]) \/ (p = Len(f) + 1 /\ g[p] = s + 1)
  BY <1>1
<1> HIDE DEF g
<1>5. \A q \in 0 .. c : \A i \in 1 .. h[q], p \in 1 .. Len(g) : d[q][i] < g[p]
  BY <1>2, <1>4 DEF Ordered
<1>6. ASSUME NEW i \in 1 .. Len(g), NEW p \in 1 .. Len(g), i < p
      PROVE  g[i] < g[p]
  <2>1. i \in 1 .. Len(f) /\ g[i] = f[i]
    BY <1>1, <1>4, <1>6 DEF g
  <2>2. f[i] <= s /\ f[i] \in Nat
    BY <1>1, <2>1 DEF Ordered
  <2>3. QED
    BY <1>4, <1>6, <2>1, <2>2 DEF Ordered
<1>7. \A p \in 1 .. Len(g) : g[p] <= s + 1
  BY <1>1, <1>4 DEF Ordered
<1>8. Ordered(c, h, d, g, s + 1)
  BY <1>3, <1>5, <1>6, <1>7 DEF Ordered
<1>9. QED
  BY <1>3, <1>8 DEF g

LEMMA OrderedLose ==
  ASSUME NEW c \in Nat, NEW s, NEW f \in Seq(Sent), f # <<>>, NEW h, NEW d,
         Ordered(c, h, d, f, s)
  PROVE  Ordered(c, h, d, Tail(f), s)
<1>1. /\ Len(f) \in Nat /\ Len(Tail(f)) = Len(f) - 1
      /\ \A p \in 1 .. Len(f) - 1 : Tail(f)[p] = f[p + 1]
  BY HeadTailProperties
<1>2. ASSUME NEW p \in 1 .. Len(Tail(f))
      PROVE  p \in Int /\ p + 1 \in 1 .. Len(f) /\ Tail(f)[p] = f[p + 1]
  BY <1>1
<1>3. ASSUME NEW i \in 1 .. Len(Tail(f)), NEW p \in 1 .. Len(Tail(f)), i < p
      PROVE  Tail(f)[i] < Tail(f)[p]
  <2>1. i + 1 < p + 1
    BY <1>3
  <2>2. QED
    BY <1>2, <2>1 DEF Ordered
<1>4. QED
  BY <1>2, <1>3 DEF Ordered

-----------------------------------------------------------------------------
View ==
  /\ cnt \in Nat /\ sent \in Nat /\ fifo \in Seq(Sent)
  /\ HeldOf \in PartSizes(cnt) /\ DataOf \in Parts(cnt)
  /\ \A q \in 0 .. cnt : HeldOf[q] = Held(q) /\ DataOf[q] = buf[Slot(q)]

LEMMA ViewFacts == QInv => View
<1> SUFFICES ASSUME QInv PROVE View
  OBVIOUS
<1>1. /\ cnt \in Nat /\ sent \in Nat /\ fifo \in Seq(Sent)
      /\ len \in [Slots -> 0 .. BufSize] /\ buf \in [Slots -> Contents]
      /\ iidx \in Slots /\ ilen \in 0 .. BufSize - 1
  BY DEF QInv, CopyInv, IInv, TypeOK
<1>2. ASSUME NEW q \in 0 .. cnt
      PROVE  Slot(q) \in Slots /\ Held(q) \in 0 .. BufSize
  <2>1. q < cnt => Place(q) \in Slots
    BY <1>1, OldestFacts DEF QInv
  <2>2. Slot(q) \in Slots
    BY <1>1, <2>1 DEF Slot
  <2>3. Held(q) \in 0 .. BufSize
    BY <1>1, <2>1 DEF Held
  <2>4. QED
    BY <2>2, <2>3
<1>3. HeldOf \in PartSizes(cnt)
  BY <1>2 DEF HeldOf, PartSizes
<1>4. DataOf \in Parts(cnt)
  BY <1>1, <1>2 DEF DataOf, Parts
<1>5. QED
  BY <1>1, <1>3, <1>4 DEF View, HeldOf, DataOf

LEMMA ViewNext == QInv' => View'
BY ViewFacts, PTL

LEMMA SeqMeaning == QInv /\ SeqInv => StreamInOrder
<1> SUFFICES ASSUME QInv, SeqInv PROVE StreamInOrder
  OBVIOUS
<1>1. /\ cnt \in Nat
      /\ \A q \in 0 .. cnt : HeldOf[q] = Held(q) /\ DataOf[q] = buf[Slot(q)]
  BY ViewFacts DEF View
<1>2. \A q \in 0 .. cnt : \A i \in 1 .. Held(q) : Byte(q, i) = DataOf[q][i]
  BY <1>1 DEF Byte
<1>3. \A q \in 0 .. cnt - 1 : q \in 0 .. cnt
  BY <1>1
<1>4. \A q \in 0 .. cnt - 1 : Held(q) > 0
  BY <1>1, <1>3 DEF SeqInv, Ordered
<1>5. \A q, m \in 0 .. cnt : \A i \in 1 .. Held(q), p \in 1 .. Held(m) :
        q < m \/ (q = m /\ i < p) => Byte(q, i) < Byte(m, p)
  BY <1>1, <1>2 DEF SeqInv, Ordered
<1>6. \A q \in 0 .. cnt : \A i \in 1 .. Held(q), p \in 1 .. Len(fifo) : Byte(q, i) < fifo[p]
  BY <1>1, <1>2 DEF SeqInv, Ordered
<1>7. QED
  BY <1>4, <1>5, <1>6 DEF SeqInv, Ordered, StreamInOrder

\* The same bytes are held in the same places: the record held at place q was at
\* place q + n, n being the number of records just given back.
LEMMA SeqShift ==
  ASSUME QInv, QInv', SeqInv, NEW n \in Nat, cnt' + n = cnt, fifo' = fifo, sent' = sent,
         \A q \in 0 .. cnt' : /\ Held(q)' = Held(q + n)
                              /\ \A i \in 1 .. Held(q + n) : buf'[Slot(q)'][i] = buf[Slot(q + n)][i]
  PROVE  SeqInv'
<1> SUFFICES ASSUME NEW c, NEW c2, NEW h, NEW h2, NEW d, NEW d2,
                    c = cnt, h = HeldOf, d = DataOf, c2 = cnt', h2 = HeldOf', d2 = DataOf'
             PROVE  Ordered(c2, h2, d2, fifo, sent)
  BY DEF SeqInv
<1>1. /\ c \in Nat /\ h \in PartSizes(c) /\ d \in Parts(c)
      /\ \A q \in 0 .. c : h[q] = Held(q) /\ d[q] = buf[Slot(q)]
      /\ Ordered(c, h, d, fifo, sent)
  BY ViewFacts DEF View, SeqInv
<1>2. /\ c2 \in Nat /\ h2 \in PartSizes(c2) /\ d2 \in Parts(c2)
      /\ \A q \in 0 .. c2 : h2[q] = Held(q)' /\ d2[q] = buf'[Slot(q)']
  BY ViewNext DEF View
<1>3. c \in Nat /\ c2 \in Nat /\ c2 + n = c
  BY <1>1, <1>2
<1>4. ASSUME NEW q \in 0 .. c2
      PROVE  h2[q] = h[q + n] /\ \A i \in 1 .. h2[q] : d2[q][i] = d[q + n][i]
  <2>1. q + n \in 0 .. c
    BY ONLY <1>3
  <2>2. h2[q] = h[q + n] /\ h[q + n] = Held(q + n)
    BY <1>1, <1>2, <2>1
  <2>3. d2[q] = buf'[Slot(q)'] /\ d[q + n] = buf[Slot(q + n)]
    BY <1>1, <1>2, <2>1
  <2>4. QED
    BY <2>2, <2>3
<1>5. QED
  BY ONLY <1>1, <1>2, <1>3, <1>4, OrderedShift

\* A byte taken out of the FIFO goes to the end of the record being filled,
\* before that one is committed.
LEMMA StoreOrdered ==
  ASSUME QInv, QInv', SeqInv, IsrStore \/ IsrStoreLast, NEW c, NEW h, NEW d, c = cnt,
         h = [q \in 0 .. c |-> IF q < c THEN Held(q) ELSE ilen + 1],
         d = [q \in 0 .. c |-> buf'[Slot(q)]]
  PROVE  /\ c \in Nat /\ h \in PartSizes(c) /\ d \in Parts(c)
         /\ Ordered(c, h, d, fifo', sent)
<1> SUFFICES ASSUME NEW h1, NEW d1, h1 = HeldOf, d1 = DataOf
             PROVE  /\ c \in Nat /\ h \in PartSizes(c) /\ d \in Parts(c)
                    /\ Ordered(c, h, d, fifo', sent)
  OBVIOUS
<1>1. /\ c \in Nat /\ h1 \in PartSizes(c) /\ d1 \in Parts(c)
      /\ \A q \in 0 .. c : h1[q] = Held(q) /\ d1[q] = buf[Slot(q)]
      /\ Ordered(c, h1, d1, fifo, sent)
      /\ sent \in Nat /\ fifo \in Seq(Sent)
  BY ViewFacts DEF View, SeqInv
<1>2. /\ fifo # <<>> /\ fifo' = Tail(fifo) /\ ipc = "fill"
      /\ buf' = [buf EXCEPT ![iidx][ilen + 1] = Head(fifo)]
  BY DEF IsrStore, IsrStoreLast
<1>3. /\ iidx \in Slots /\ ilen \in 0 .. BufSize - 1
      /\ buf \in [Slots -> Contents] /\ buf' \in [Slots -> Contents]
  BY DEF QInv, IInv, TypeOK
<1>4. ASSUME NEW q \in 0 .. c - 1
      PROVE  Slot(q) \in Slots /\ Slot(q) # iidx /\ q < c
  <2>1. Slot(q) = Place(q)
    BY <1>1 DEF Slot
  <2>2. QED
    BY <1>1, <1>2, <2>1, OldestFacts, NoOverwriteFact DEF NoOverwrite, QInv
<1>5. Slot(c) = iidx /\ Held(c) = ilen /\ c \in 0 .. c /\ ~(c < c)
  BY <1>1, <1>2 DEF Slot, Held
<1>6. ASSUME NEW q \in 0 .. c
      PROVE  Slot(q) \in Slots /\ q \in Nat /\ (q = c \/ q \in 0 .. c - 1)
  BY <1>1, <1>3, <1>4, <1>5
<1>7. h[c] = ilen + 1 /\ \A q \in 0 .. c - 1 : h[q] = h1[q]
  BY <1>1, <1>4, <1>5
<1>8. h \in PartSizes(c)
  BY <1>1, <1>3, <1>6, <1>7 DEF PartSizes
<1>9. d \in Parts(c)
  BY <1>3, <1>6 DEF Parts
<1>10. /\ \A q \in 0 .. c : \A i \in 1 .. h1[q] : d[q][i] = d1[q][i]
       /\ d[c][ilen + 1] = Head(fifo)
  <2>1. ASSUME NEW q \in 0 .. c - 1 PROVE d[q] = d1[q]
    <3>1. q \in 0 .. c
      BY <1>1
    <3>2. d[q] = buf'[Slot(q)] /\ d1[q] = buf[Slot(q)]
      BY <1>1, <3>1
    <3>3. buf'[Slot(q)] = buf[Slot(q)]
      BY ONLY <1>2, <1>3, <1>4
    <3>4. QED
      BY <3>2, <3>3
  <2>2. buf'[iidx] = [buf[iidx] EXCEPT ![ilen + 1] = Head(fifo)] /\ buf[iidx] \in Contents
    BY <1>2, <1>3
  <2>3. d[c] = buf'[iidx] /\ d1[c] = buf[iidx] /\ h1[c] = ilen
    BY <1>1, <1>5
  <2>4. d[c][ilen + 1] = Head(fifo) /\ \A i \in 1 .. ilen : d[c][i] = d1[c][i]
    <3>1. \A i \in 1 .. BufSize :
            buf'[iidx][i] = IF i = ilen + 1 THEN Head(fifo) ELSE buf[iidx][i]
      BY ONLY <2>2 DEF Contents
    <3>2. ilen + 1 \in 1 .. BufSize /\ \A i \in 1 .. ilen : i \in 1 .. BufSize /\ i # ilen + 1
      BY ONLY <1>3, SerialRxAssumption
    <3>3. QED
      BY <2>3, <3>1, <3>2
  <2>5. QED
    BY <1>6, <2>1, <2>3, <2>4, ZenonT(40)
<1>11. h1[c] = ilen
  BY <1>1, <1>5
<1>12. Ordered(c, h, d, Tail(fifo), sent)
  BY ONLY <1>1, <1>2, <1>7, <1>8, <1>9, <1>10, <1>11, OrderedMove
<1>13. QED
  BY <1>1, <1>2, <1>8, <1>9, <1>12

\* A commit closes the record being filled and leaves the others as they are.
LEMMA CommitOrdered ==
  ASSUME QInv, QInv', NEW c, NEW h, NEW d, c = cnt,
         h \in PartSizes(c), d \in Parts(c), Ordered(c, h, d, fifo', sent'), h[c] > 0,
         \A q \in 0 .. c - 1 : h[q] = Held(q),
         \A q \in 0 .. c : d[q] = buf'[Slot(q)],
         Commit(h[c]), ipc = "fill", ipc' = "fill" => ilen' = 0, UNCHANGED <<ridx, rpc>>
  PROVE  SeqInv'
<1> SUFFICES ASSUME NEW c2, NEW h2, NEW d2, c2 = cnt', h2 = HeldOf', d2 = DataOf'
             PROVE  Ordered(c2, h2, d2, fifo', sent')
  BY DEF SeqInv
<1>1. /\ IInv /\ c \in 0 .. BufNum /\ Oldest \in Slots /\ icnt = c /\ iidx = widx /\ widx = Place(c)
      /\ iidx \in Slots /\ len \in [Slots -> 0 .. BufSize]
  BY OldestFacts DEF QInv, IInv, TypeOK, IsrInv, RingConsistent
<1>2. /\ c2 \in Nat /\ h2 \in PartSizes(c2) /\ d2 \in Parts(c2)
      /\ \A q \in 0 .. c2 : h2[q] = Held(q)' /\ d2[q] = buf'[Slot(q)']
  BY ViewNext DEF View
<1>3. /\ c2 = c + 1 /\ cnt' = c + 1 /\ len' = [len EXCEPT ![iidx] = h[c]] /\ Oldest' = Oldest
  BY <1>1 DEF Commit, Oldest
<1>4. \A q : Place(q)' = Place(q)
  BY <1>3 DEF Place
<1>5. ASSUME NEW q \in 0 .. c - 1
      PROVE  h2[q] = h[q] /\ d2[q] = d[q]
  <2>1. q \in 0 .. c /\ q \in 0 .. c2 /\ q < c /\ q < c2
    BY <1>1, <1>3
  <2>2. Place(q) \in Slots /\ Place(q) # iidx
    BY <1>1, OldestFacts, NoOverwriteFact DEF NoOverwrite
  <2>3. Slot(q) = Place(q) /\ Slot(q)' = Place(q) /\ Held(q) = len[Place(q)]
    BY <1>3, <1>4, <2>1 DEF Slot, Held
  <2>4. Held(q)' = len'[Place(q)]
    BY <1>3, <1>4, <2>1 DEF Held
  <2>5. h2[q] = h[q]
    BY <1>1, <1>2, <1>3, <2>1, <2>2, <2>3, <2>4
  <2>6. d2[q] = d[q]
    BY <1>2, <2>1, <2>3
  <2>7. QED
    BY <2>5, <2>6
<1>6. h2[c] = h[c] /\ d2[c] = d[c]
  <2>1. c \in 0 .. c /\ c \in 0 .. c2 /\ ~(c < c) /\ c < c2
    BY <1>1, <1>3
  <2>2. Slot(c) = iidx /\ Slot(c)' = iidx /\ Held(c)' = len'[iidx]
    BY <1>1, <1>3, <1>4, <2>1 DEF Slot, Held
  <2>3. len'[iidx] = h[c]
    BY <1>1, <1>3
  <2>4. QED
    BY <1>2, <2>1, <2>2, <2>3
<1>7. h2[c + 1] = 0
  <2>1. c + 1 \in 0 .. c2 /\ ~(c + 1 < c2)
    BY <1>1, <1>3
  <2>2. Held(c + 1)' = 0
    BY <1>3, <2>1 DEF Held
  <2>3. QED
    BY <1>2, <2>1, <2>2
<1>8. /\ c \in Nat /\ h2 \in PartSizes(c + 1) /\ d2 \in Parts(c + 1)
      /\ \A q \in 0 .. c : q = c \/ q \in 0 .. c - 1
  BY <1>1, <1>2, <1>3
<1>9. \A q \in 0 .. c : h2[q] = h[q] /\ d2[q] = d[q]
  BY <1>5, <1>6, <1>8
<1>10. h \in PartSizes(c) /\ d \in Parts(c) /\ Ordered(c, h, d, fifo', sent') /\ h[c] > 0
  OBVIOUS
<1>11. Ordered(c + 1, h2, d2, fifo', sent')
  BY ONLY <1>7, <1>8, <1>9, <1>10, OrderedCommit
<1>12. QED
  BY <1>3, <1>11

LEMMA SeqInit == Init => SeqInv
<1> SUFFICES ASSUME Init PROVE SeqInv
  OBVIOUS
<1>1. cnt = 0 /\ Held(0) = 0 /\ Len(fifo) = 0
  BY DEF Init, Held
<1>2. HeldOf[0] = 0
  BY <1>1 DEF HeldOf
<1>3. QED
  BY <1>1, <1>2 DEF SeqInv, Ordered

LEMMA SeqStep == QInv /\ QInv' /\ SeqInv /\ [Next]_vars => SeqInv'
<1> SUFFICES ASSUME QInv, QInv', SeqInv, [Next]_vars PROVE SeqInv'
  OBVIOUS
<1>0. /\ IInv /\ cnt \in Nat /\ sent \in Nat /\ ilen \in 0 .. BufSize - 1 /\ fifo \in Seq(Sent)
      /\ ridx \in Slots /\ iidx \in Slots /\ buf \in [Slots -> Contents]
      /\ IsrInv /\ ReadInv
  <2>1. IInv /\ fifo \in Seq(Sent)
    BY DEF QInv, CopyInv
  <2>2. QED
    BY <2>1 DEF IInv, TypeOK
<1>a. ASSUME UNCHANGED <<fifo, sent, cnt, len, buf, Oldest>>,
             Held(cnt)' = Held(cnt), Held(cnt) > 0 => iidx' = iidx
      PROVE  SeqInv'
  <2>1. cnt' + 0 = cnt
    BY <1>0, <1>a
  <2>2. ASSUME NEW q \in 0 .. cnt'
        PROVE  /\ Held(q)' = Held(q + 0)
               /\ \A i \in 1 .. Held(q + 0) : buf'[Slot(q)'][i] = buf[Slot(q + 0)][i]
    <3>1. q + 0 = q /\ q \in 0 .. cnt
      BY <1>0, <1>a
    <3>2. Place(q)' = Place(q)
      BY <1>a DEF Place
    <3>3. CASE q < cnt
      BY <1>a, <3>1, <3>2, <3>3 DEF Held, Slot
    <3>4. CASE q = cnt
      <4>1. Held(q)' = Held(q) /\ ~(q < cnt)
        BY <1>0, <1>a, <3>4 DEF Held
      <4>2. Slot(q)' = iidx' /\ Slot(q) = iidx
        BY <1>a, <4>1 DEF Slot
      <4>3. Held(q) \in Nat
        BY <1>0, <4>1 DEF Held
      <4>4. Held(q) > 0 => iidx' = iidx
        BY <1>a, <3>4
      <4>5. QED
        BY <1>a, <3>1, <4>1, <4>2, <4>3, <4>4
    <3>5. QED
      BY <1>0, <3>1, <3>3, <3>4
  <2>3. QED
    BY <1>a, <2>1, <2>2, SeqShift
<1>b. ASSUME UNCHANGED <<fifo, sent, cnt, len, buf, Oldest, ipc, iidx, ilen>>
      PROVE  SeqInv'
  <2>1. Held(cnt)' = Held(cnt)
    BY <1>b DEF Held, Place
  <2>2. QED
    BY <1>a, <1>b, <2>1
<1>1. CASE ByteArrives \/ IsrDiscard
  <2>1. UNCHANGED <<cnt, len, buf, ridx, rpc, ipc, iidx, ilen>>
    BY <1>1 DEF ByteArrives, IsrDiscard, cache, isr, rd
  <2>2. HeldOf' = HeldOf /\ DataOf' = DataOf
    BY <2>1 DEF HeldOf, DataOf, Held, Slot, Place, Oldest
  <2>3. Ordered(cnt, HeldOf, DataOf, fifo', sent')
    <3> SUFFICES ASSUME NEW c, NEW h, NEW d, c = cnt, h = HeldOf, d = DataOf
                 PROVE  Ordered(c, h, d, fifo', sent')
      OBVIOUS
    <3>1. c \in Nat /\ h \in PartSizes(c) /\ d \in Parts(c) /\ Ordered(c, h, d, fifo, sent)
      BY ViewFacts DEF View, SeqInv
    <3>2. CASE ByteArrives
      <4>1. sent' = sent + 1 /\ (fifo' = fifo \/ fifo' = Append(fifo, sent + 1))
        BY <3>2 DEF ByteArrives
      <4>2. QED
        BY <1>0, <3>1, <4>1, OrderedArrive
    <3>3. CASE IsrDiscard
      <4>1. sent' = sent /\ fifo # <<>> /\ fifo' = Tail(fifo)
        BY <3>3 DEF IsrDiscard
      <4>2. QED
        BY <1>0, <3>1, <4>1, OrderedLose
    <3>4. QED
      BY <1>1, <3>2, <3>3
  <2>4. QED
    BY <2>1, <2>2, <2>3 DEF SeqInv
<1>2. CASE IsrEnter
  <2>1. /\ UNCHANGED <<fifo, sent, cnt, len, buf, ridx, rpc>> /\ ipc = "idle" /\ ilen' = 0
    BY <1>2 DEF IsrEnter, line, cache, rd
  <2>2. Held(cnt)' = 0 /\ Held(cnt) = 0 /\ Oldest' = Oldest
    BY <1>0, <2>1 DEF Held, Oldest
  <2>3. QED
    BY <1>a, <2>1, <2>2
<1>3. CASE IsrStore \/ IsrStoreLast
  <2> SUFFICES ASSUME NEW c, NEW h, NEW d, c = cnt,
                      h = [q \in 0 .. c |-> IF q < c THEN Held(q) ELSE ilen + 1],
                      d = [q \in 0 .. c |-> buf'[Slot(q)]]
               PROVE  SeqInv'
    OBVIOUS
  <2>1. /\ c \in Nat /\ h \in PartSizes(c) /\ d \in Parts(c)
        /\ Ordered(c, h, d, fifo', sent)
    BY <1>3, StoreOrdered
  <2>2. /\ h[c] = ilen + 1 /\ \A q \in 0 .. c - 1 : h[q] = Held(q)
        /\ \A q \in 0 .. c : d[q] = buf'[Slot(q)]
    BY <2>1
  <2>3. CASE IsrStore
    <3>1. /\ UNCHANGED <<sent, cnt, len, ridx, rpc, iidx, ipc>> /\ ipc = "fill" /\ ilen' = ilen + 1
      BY <2>3 DEF IsrStore, rd
    <3>2. \A q : Slot(q)' = Slot(q)
      BY <3>1 DEF Slot, Place, Oldest
    <3>3. ASSUME NEW q \in 0 .. c PROVE Held(q)' = h[q]
      <4>1. q \in Nat /\ (q < c \/ q = c)
        BY <2>1
      <4>2. CASE q < c
        <5>1. Held(q)' = Held(q)
          BY <3>1, <4>2 DEF Held, Place, Oldest
        <5>2. QED
          BY <4>1, <4>2, <5>1
      <4>3. CASE q = c
        <5>1. ~(c < c)
          BY <2>1
        <5>2. Held(c)' = ilen + 1
          BY <3>1, <5>1 DEF Held
        <5>3. QED
          BY <2>2, <4>3, <5>2
      <4>4. QED
        BY <4>1, <4>2, <4>3
    <3>4. HeldOf' = [q \in 0 .. c |-> h[q]] /\ DataOf' = [q \in 0 .. c |-> d[q]]
      BY <2>2, <3>1, <3>2, <3>3 DEF HeldOf, DataOf
    <3>5. HeldOf' = h /\ DataOf' = d
      BY <2>1, <3>4 DEF PartSizes, Parts
    <3>6. QED
      BY <2>1, <3>1, <3>5 DEF SeqInv
  <2>4. CASE IsrStoreLast
    <3>1. /\ Commit(ilen + 1) /\ ipc = "fill" /\ ilen' = 0 /\ UNCHANGED <<sent, ridx, rpc>>
      BY <2>4 DEF IsrStoreLast, rd
    <3>2. h[c] > 0 /\ Commit(h[c])
      BY <1>0, <2>2, <3>1
    <3>3. QED
      BY <2>1, <2>2, <3>1, <3>2, CommitOrdered
  <2>5. QED
    BY <1>3, <2>3, <2>4
<1>4. CASE IsrFlush
  <2> SUFFICES ASSUME NEW c, NEW h, NEW d, c = cnt, h = HeldOf, d = DataOf
               PROVE  SeqInv'
    OBVIOUS
  <2>1. /\ UNCHANGED <<fifo, sent, buf, ridx, rpc>> /\ ipc = "fill" /\ ipc' = "idle"
        /\ Commit(ilen) /\ ilen > 0
    BY <1>4 DEF IsrFlush, line, rd
  <2>2. /\ c \in Nat /\ h \in PartSizes(c) /\ d \in Parts(c) /\ Ordered(c, h, d, fifo', sent')
        /\ \A q \in 0 .. c : h[q] = Held(q) /\ d[q] = buf'[Slot(q)]
    BY <2>1, ViewFacts DEF View, SeqInv
  <2>3. h[c] = ilen /\ \A q \in 0 .. c - 1 : h[q] = Held(q)
    <3>1. c \in 0 .. c /\ ~(c < c) /\ \A q \in 0 .. c - 1 : q \in 0 .. c
      BY <2>2
    <3>2. QED
      BY <2>1, <2>2, <3>1 DEF Held
  <2>4. QED
    BY <2>1, <2>2, <2>3, CommitOrdered
<1>5. CASE IsrDrained
  <2>1. /\ UNCHANGED <<fifo, sent, cnt, len, buf, ridx, rpc>> /\ ipc = "drain" /\ ipc' = "idle"
    BY <1>5 DEF IsrDrained, line, cache, rd
  <2>2. Held(cnt)' = 0 /\ Held(cnt) = 0 /\ Oldest' = Oldest
    BY <1>0, <2>1 DEF Held, Oldest
  <2>3. QED
    BY <1>a, <2>1, <2>2
<1>6. CASE ReadAdvance
  <2>1. /\ UNCHANGED <<fifo, sent, cnt, len, buf, ipc, iidx, ilen>>
        /\ rpc = "advance" /\ rpc' = "release" /\ ridx' = Next1(ridx)
    BY <1>0, <1>6 DEF ReadAdvance, Thread, ReadInv, line, isr
  <2>2. Oldest' = Oldest
    BY <1>0, <2>1, IndexFacts DEF Oldest
  <2>3. QED
    BY <1>b, <2>1, <2>2
<1>7. CASE ReadRelease
  <2>1. /\ UNCHANGED <<fifo, sent, len, buf, ridx, iidx, ilen, ipc>> /\ cnt' = cnt - 1
        /\ rpc = "release" /\ rpc' = "idle" /\ ipc = "idle"
    BY <1>7 DEF ReadRelease, Thread, line, isr
  <2>2. cnt' + 1 = cnt /\ cnt' \in Nat
    BY <1>0, <2>1 DEF QInv, IInv, TypeOK
  <2>3. Oldest \in Slots /\ Oldest' = Next1(Oldest)
    <3>1. Next1(Prev1(ridx)) = ridx
      BY <1>0 DEF Slots, Next1, Prev1
    <3>2. QED
      BY <1>0, <2>1, <3>1, OldestFacts DEF Oldest
  <2>4. ASSUME NEW q \in 0 .. cnt'
        PROVE  /\ Held(q)' = Held(q + 1)
               /\ \A i \in 1 .. Held(q + 1) : buf'[Slot(q)'][i] = buf[Slot(q + 1)][i]
    <3>1. q \in Nat /\ (q < cnt' <=> q + 1 < cnt) /\ (q < cnt' \/ q = cnt')
      <4> SUFFICES ASSUME NEW c, NEW c2, c = cnt, c2 = cnt'
                   PROVE  q \in Nat /\ (q < c2 <=> q + 1 < c) /\ (q < c2 \/ q = c2)
        OBVIOUS
      <4>1. c \in Nat /\ c2 \in Nat /\ c2 + 1 = c /\ q \in 0 .. c2
        BY <1>0, <2>2
      <4>2. QED
        BY ONLY <4>1
    <3>2. CASE q < cnt'
      <4>1. q + 1 \in 0 .. BufNum /\ (q + 1) - 1 = q /\ q + 1 > 0
        BY <1>0, <2>2, <3>1, <3>2 DEF IInv, TypeOK
      <4>2. Wrap(Next1(Oldest) + q) = Wrap(Oldest + (q + 1))
        BY <2>3, <4>1, WindowFacts
      <4>3. Place(q)' = Place(q + 1)
        BY <2>3, <4>2 DEF Place
      <4>4. QED
        BY <2>1, <3>1, <3>2, <4>3 DEF Held, Slot
    <3>3. CASE q = cnt'
      BY <1>0, <2>1, <3>1, <3>3 DEF Held, Slot
    <3>4. QED
      BY <3>1, <3>2, <3>3
  <2>5. QED
    BY <2>1, <2>2, <2>4, SeqShift
<1>8. CASE SerialInit
  <2>1. /\ cnt' = 0 /\ UNCHANGED <<fifo, sent, ipc, ilen>> /\ ipc = "idle"
    BY <1>8 DEF SerialInit, Thread, line, isr
  <2>2. Held(0)' = 0
    BY <2>1 DEF Held
  <2>3. HeldOf'[0] = 0
    BY <2>1, <2>2 DEF HeldOf
  <2>4. QED
    BY <2>1, <2>3 DEF SeqInv, Ordered
<1>9. CASE \/ ReadBegin \/ ReadTakeToken \/ ReadTimeout \/ ReadCheckState \/ ReadCount
           \/ ReadCopy
  <2>1. /\ UNCHANGED <<fifo, sent, cnt, len, buf, ridx, ipc, iidx, ilen>>
        /\ rpc # "release" /\ rpc' # "release"
    BY <1>9 DEF ReadBegin, ReadTakeToken, ReadTimeout, ReadCheckState, ReadCount, ReadCopy,
                Thread, line, cache, isr
  <2>2. QED
    BY <1>b, <2>1 DEF Oldest
<1>10. CASE \/ IsrSpin \/ SerialStart \/ SerialStop \/ SerialDisable \/ SerialEnable
            \/ SerialDeinit \/ UNCHANGED vars
  <2>1. UNCHANGED <<fifo, sent, cnt, len, buf, ridx, ipc, iidx, ilen, rpc>>
    BY <1>10 DEF IsrSpin, SerialStart, SerialStop, SerialDisable, SerialEnable, SerialDeinit,
                 vars, line, cache, isr, rd
  <2>2. QED
    BY <1>b, <2>1 DEF Oldest
<1>11. QED
  BY <1>1, <1>2, <1>3, <1>4, <1>5, <1>6, <1>7, <1>8, <1>9, <1>10 DEF Next, Isr, Read, Control

\* The bytes in the cache and in the FIFO keep the order the MCU sent them in,
\* none twice, and no record is empty: for every size of the ring, of a record and
\* of the FIFO, and every interleaving of the handler with serial_read and the
\* other calls, what is lost is lost without disturbing what is kept.
THEOREM StreamCorrect == Spec => []StreamInOrder
<1>1. Spec => [](QInv /\ SeqInv)
  BY QInvSpec, SeqInit, SeqStep, PTL DEF Spec
<1>2. QED
  BY <1>1, SeqMeaning, PTL
=============================================================================
