------------------------------ MODULE SerialRx ------------------------------
(***************************************************************************)
(* The serial receive cache of the firmware (project/at_demo/serial.c):    *)
(* a ring of BufNum records of at most BufSize bytes, filled by the UART   *)
(* receive interrupt (serial_rx_callback) and emptied by the main thread   *)
(* (serial_read), with a counting semaphore that carries one token per     *)
(* committed record.                                                       *)
(*                                                                         *)
(* There is one core.  The interrupt preempts the thread between any two   *)
(* of its steps, runs to its end before the thread goes on, and only the   *)
(* line (bytes entering the hardware FIFO) advances meanwhile.             *)
(*                                                                         *)
(* Bytes are numbered in the order the MCU sends them, so that loss,       *)
(* duplication and reordering can be told apart.                           *)
(***************************************************************************)
EXTENDS Integers, Sequences, FiniteSets

CONSTANTS BufNum,     \* SERIAL_CACHE_BUF_NUM
          BufSize,    \* SERIAL_CACHE_BUF_SIZE
          FifoLen,    \* size of the UART receive FIFO
          ReadSizes,  \* sizes of the callers' buffers, the argument of serial_read
          MaxBytes,   \* bound: bytes the MCU sends
          MaxStops    \* bound: calls of serial_stop, serial_disable and serial_deinit

ASSUME SerialRxAssumption ==
  /\ BufNum \in Nat \ {0}
  /\ BufSize \in Nat \ {0}
  /\ FifoLen \in Nat \ {0}
  /\ ReadSizes \subseteq Nat
  /\ MaxBytes \in Nat
  /\ MaxStops \in Nat

VARIABLES
  fifo, sent,                   \* the UART receive FIFO; bytes sent by the MCU
  cnt, widx, ridx, len, buf,    \* serial->cache
  sem,                          \* count of cmd_sem
  state,                        \* serial->state
  up,                           \* serial_init was called, serial_deinit was not
  rxOn,                         \* the UART receive callback is enabled
  ipc, icnt, iidx, ilen,        \* serial_rx_callback: its place, cnt, idx, len
  rpc, rcnt, rpos, rlen, rbuf,  \* serial_read: its place, cnt, idx, rlen, buf
  out,                          \* what serial_read last handed to its caller
  dropped,                      \* history: tokens of cmd_sem given up since serial_init
                                \*   with their records left in the cache
  stops                         \* calls counted by MaxStops

line    == <<fifo, sent>>
cache   == <<cnt, widx, ridx, len, buf>>
control == <<state, up, rxOn, stops>>
isr     == <<ipc, icnt, iidx, ilen>>
rd      == <<rpc, rcnt, rpos, rlen, rbuf>>
vars    == <<line, cache, sem, control, isr, rd, out, dropped>>

Slots    == 0 .. BufNum - 1
Bytes    == 0 .. MaxBytes          \* 0: never written
Contents == [1 .. BufSize -> Bytes]
NoData   == [i \in 1 .. BufSize |-> 0]

\* The index after i, wrapped as the code wraps widx and ridx.
Next1(i) == IF i + 1 >= BufNum THEN 0 ELSE i + 1

\* g_serial is zeroed static memory, and no thread or handler is inside.
Init ==
  /\ fifo = <<>> /\ sent = 0
  /\ cnt = 0 /\ widx = 0 /\ ridx = 0
  /\ len = [i \in Slots |-> 0]
  /\ buf = [i \in Slots |-> NoData]
  /\ sem = 0
  /\ state = "STOP" /\ up = FALSE /\ rxOn = FALSE
  /\ ipc = "idle" /\ icnt = 0 /\ iidx = 0 /\ ilen = 0
  /\ rpc = "idle" /\ rcnt = 0 /\ rpos = 0 /\ rlen = 0 /\ rbuf = NoData
  /\ out = <<>> /\ dropped = 0
  /\ stops = 0

-----------------------------------------------------------------------------
(* The line: the MCU sends a byte; with the FIFO full it is overrun.       *)

ByteArrives ==
  /\ sent < MaxBytes
  /\ sent' = sent + 1
  /\ fifo' = IF Len(fifo) < FifoLen THEN Append(fifo, sent + 1) ELSE fifo
  /\ UNCHANGED <<cache, sem, control, isr, rd, out, dropped>>

-----------------------------------------------------------------------------
(* serial_rx_callback.  An iteration of its loop is one step: nothing but  *)
(* the line runs between two accesses to the FIFO.                         *)

\* Mutant of IsrEnter: a full cache is taken to have room.
IsrEnterFull ==
  /\ ipc = "idle"
  /\ rxOn
  /\ fifo # <<>>
  /\ ipc' = IF cnt <= BufNum THEN "fill" ELSE "drain"
  /\ icnt' = cnt /\ iidx' = widx /\ ilen' = 0
  /\ UNCHANGED <<line, cache, sem, control, rd, out, dropped>>

\* Trigger level reached or character timeout: the FIFO holds data.
IsrEnter ==
  /\ ipc = "idle"
  /\ rxOn
  /\ fifo # <<>>
  /\ ipc' = IF cnt < BufNum THEN "fill" ELSE "drain"
  /\ icnt' = cnt /\ iidx' = widx /\ ilen' = 0
  /\ UNCHANGED <<line, cache, sem, control, rd, out, dropped>>

\* The byte just read completes no record.
IsrStore ==
  /\ ipc = "fill"
  /\ fifo # <<>>
  /\ ilen + 1 < BufSize
  /\ fifo' = Tail(fifo)
  /\ buf' = [buf EXCEPT ![iidx][ilen + 1] = Head(fifo)]
  /\ ilen' = ilen + 1
  /\ UNCHANGED <<sent, cnt, widx, ridx, len, sem, control, ipc, icnt, iidx, rd, out, dropped>>

\* Mutant of Commit: the semaphore is not released.
CommitNoToken(n) ==
  /\ len' = [len EXCEPT ![iidx] = n]
  /\ widx' = Next1(iidx)
  /\ cnt' = icnt + 1
  /\ sem' = sem

\* The record in slot iidx, of length n, is committed.
Commit(n) ==
  /\ len' = [len EXCEPT ![iidx] = n]
  /\ widx' = Next1(iidx)
  /\ cnt' = icnt + 1
  /\ sem' = sem + 1

\* The byte just read fills the record: commit it, and go on with the next
\* slot or, when that was the last free one, discard what the FIFO holds.
IsrStoreLast ==
  /\ ipc = "fill"
  /\ fifo # <<>>
  /\ ilen + 1 >= BufSize
  /\ fifo' = Tail(fifo)
  /\ buf' = [buf EXCEPT ![iidx][ilen + 1] = Head(fifo)]
  /\ Commit(ilen + 1)
  /\ ipc' = IF icnt + 1 >= BufNum THEN "drain" ELSE "fill"
  /\ icnt' = icnt + 1 /\ iidx' = Next1(iidx) /\ ilen' = 0
  /\ UNCHANGED <<sent, ridx, control, rd, out, dropped>>

\* The FIFO is empty and a record was begun: commit it and return.
IsrFlush ==
  /\ ipc = "fill"
  /\ fifo = <<>>
  /\ ilen > 0
  /\ Commit(ilen)
  /\ ipc' = "idle"
  /\ UNCHANGED <<line, ridx, buf, control, icnt, iidx, ilen, rd, out, dropped>>

\* The FIFO is empty and no record was begun: the loop has no exit here, the
\* handler polls the FIFO until the next byte.
Spinning == ipc = "fill" /\ fifo = <<>> /\ ilen = 0

IsrSpin == Spinning /\ UNCHANGED vars

\* No slot is free: the FIFO is read and what it held is lost.
IsrDiscard ==
  /\ ipc = "drain"
  /\ fifo # <<>>
  /\ fifo' = Tail(fifo)
  /\ UNCHANGED <<sent, cache, sem, control, isr, rd, out, dropped>>

IsrDrained ==
  /\ ipc = "drain"
  /\ fifo = <<>>
  /\ ipc' = "idle"
  /\ UNCHANGED <<line, cache, sem, control, icnt, iidx, ilen, rd, out, dropped>>

Isr == \/ IsrEnter \/ IsrStore \/ IsrStoreLast \/ IsrFlush \/ IsrSpin
       \/ IsrDiscard \/ IsrDrained

-----------------------------------------------------------------------------
(* serial_read, called in a loop by the thread that owns the port.  Each   *)
(* section between arch_irq_disable and arch_irq_enable is one step.       *)

Thread(pc) == ipc = "idle" /\ rpc = pc

ReadBegin ==
  /\ Thread("idle")
  /\ up
  /\ rpc' = "wait"
  /\ rpos' = ridx
  /\ rlen' = 0
  /\ UNCHANGED <<line, cache, sem, control, isr, rcnt, rbuf, out, dropped>>

\* OS_SemaphoreWait(&cmd_sem, 10) obtains a token.
ReadTakeToken ==
  /\ Thread("wait")
  /\ sem > 0
  /\ sem' = sem - 1
  /\ rpc' = "check"
  /\ UNCHANGED <<line, cache, control, isr, rcnt, rpos, rlen, rbuf, out, dropped>>

\* The wait times out: serial_read returns 0.
ReadTimeout ==
  /\ Thread("wait")
  /\ sem = 0
  /\ rpc' = "idle"
  /\ UNCHANGED <<line, cache, sem, control, isr, rcnt, rpos, rlen, rbuf, out, dropped>>

\* The state is tested: a port that is not started returns 0.
ReadCheckState ==
  /\ Thread("check")
  /\ rpc' = IF state = "START" THEN "count" ELSE "idle"
  /\ dropped' = IF state = "START" THEN dropped ELSE dropped + 1
  /\ UNCHANGED <<line, cache, sem, control, isr, rcnt, rpos, rlen, rbuf, out>>

\* cnt is read; with no record serial_read returns -2.
ReadCount ==
  /\ Thread("count")
  /\ rcnt' = cnt
  /\ rpc' = IF cnt > 0 THEN "copy" ELSE "idle"
  /\ rlen' = IF cnt > 0 THEN 0 ELSE -2
  /\ UNCHANGED <<line, cache, sem, control, isr, rpos, rbuf, out, dropped>>

\* The record is copied to the caller, unless it is longer than his buffer:
\* serial_read then returns -1 and leaves the record.
ReadCopy ==
  /\ Thread("copy")
  /\ \E size \in ReadSizes :
       \/ /\ len[rpos] > size
          /\ rpc' = "idle" /\ rlen' = -1 /\ dropped' = dropped + 1
          /\ UNCHANGED <<rpos, rbuf>>
       \/ /\ len[rpos] <= size
          /\ rpc' = "advance"
          /\ rlen' = len[rpos] /\ rbuf' = buf[rpos]
          /\ rpos' = Next1(rpos)
          /\ UNCHANGED dropped
  /\ UNCHANGED <<line, cache, sem, control, isr, rcnt, out>>

\* Mutant of ReadAdvance: ridx is not written back.
ReadNoAdvance ==
  /\ Thread("advance")
  /\ rpc' = "release"
  /\ UNCHANGED <<line, cache, sem, control, isr, rcnt, rpos, rlen, rbuf, out, dropped>>

ReadAdvance ==
  /\ Thread("advance")
  /\ ridx' = rpos
  /\ rpc' = "release"
  /\ UNCHANGED <<line, cnt, widx, len, buf, sem, control, isr,
                 rcnt, rpos, rlen, rbuf, out, dropped>>

\* Mutant of ReadRelease: cnt is computed from the value read before the copy.
ReadReleaseStale ==
  /\ Thread("release")
  /\ cnt' = rcnt - 1
  /\ rpc' = "idle"
  /\ out' = SubSeq(rbuf, 1, rlen)
  /\ UNCHANGED <<line, widx, ridx, len, buf, sem, control, isr,
                 rcnt, rpos, rlen, rbuf, dropped>>

\* cache.cnt-- with interrupts disabled; serial_read returns rlen.
ReadRelease ==
  /\ Thread("release")
  /\ cnt' = cnt - 1
  /\ rpc' = "idle"
  /\ out' = SubSeq(rbuf, 1, rlen)
  /\ UNCHANGED <<line, widx, ridx, len, buf, sem, control, isr,
                 rcnt, rpos, rlen, rbuf, dropped>>

Read == \/ ReadBegin \/ ReadTakeToken \/ ReadTimeout \/ ReadCheckState
        \/ ReadCount \/ ReadCopy \/ ReadAdvance \/ ReadRelease

-----------------------------------------------------------------------------
(* The other operations of the port, called between two reads by the       *)
(* thread that owns it.                                                    *)

\* The memset clears the cache; the semaphore is created with no token.  A
\* port that is not stopped is refused.
SerialInit ==
  /\ Thread("idle")
  /\ state = "STOP"
  /\ up' = TRUE
  /\ cnt' = 0 /\ widx' = 0 /\ ridx' = 0
  /\ len' = [i \in Slots |-> 0]
  /\ buf' = [i \in Slots |-> NoData]
  /\ sem' = 0 /\ dropped' = 0
  /\ UNCHANGED <<line, state, rxOn, isr, rd, out, stops>>

SerialStart ==
  /\ Thread("idle")
  /\ up
  /\ state' = "START"
  /\ rxOn' = TRUE
  /\ UNCHANGED <<line, cache, sem, up, isr, rd, out, stops, dropped>>

SerialStop ==
  /\ Thread("idle")
  /\ up
  /\ stops < MaxStops
  /\ stops' = stops + 1
  /\ state' = "STOP"
  /\ rxOn' = FALSE
  /\ UNCHANGED <<line, cache, sem, up, isr, rd, out, dropped>>

SerialDisable ==
  /\ Thread("idle")
  /\ state = "START"
  /\ stops < MaxStops
  /\ stops' = stops + 1
  /\ rxOn' = FALSE
  /\ UNCHANGED <<line, cache, sem, state, up, isr, rd, out, dropped>>

SerialEnable ==
  /\ Thread("idle")
  /\ state = "START"
  /\ rxOn' = TRUE
  /\ UNCHANGED <<line, cache, sem, state, up, isr, rd, out, stops, dropped>>

\* Called on a stopped port; the cache is left as it is.
SerialDeinit ==
  /\ Thread("idle")
  /\ up
  /\ state = "STOP"
  /\ stops < MaxStops
  /\ stops' = stops + 1
  /\ up' = FALSE
  /\ rxOn' = FALSE
  /\ sem' = 0 /\ dropped' = dropped + sem
  /\ UNCHANGED <<line, cache, state, isr, rd, out>>

Control == \/ SerialInit \/ SerialStart \/ SerialStop
           \/ SerialDisable \/ SerialEnable \/ SerialDeinit

-----------------------------------------------------------------------------
Next == ByteArrives \/ Isr \/ Read \/ Control

Spec == Init /\ [][Next]_vars

(* main calls serial_init, serial_start and then serial_read for ever, and *)
(* a pending interrupt is taken.  The MCU owes nothing.                    *)
FairSpec == /\ Spec
            /\ WF_vars(Isr) /\ WF_vars(Read)
            /\ WF_vars(SerialInit) /\ WF_vars(SerialStart)

-----------------------------------------------------------------------------
IsrPc  == {"idle", "fill", "drain"}
ReadPc == {"idle", "wait", "check", "count", "copy", "advance", "release"}

\* The variables hold values of their types: the indices of serial->cache and
\* of both routines stay inside its arrays, and cnt within the ring.
TypeOK ==
  /\ fifo \in Seq(Bytes) /\ Len(fifo) <= FifoLen
  /\ sent \in 0 .. MaxBytes
  /\ cnt \in 0 .. BufNum /\ widx \in Slots /\ ridx \in Slots
  /\ len \in [Slots -> 0 .. BufSize]
  /\ buf \in [Slots -> Contents]
  /\ sem \in Nat
  /\ state \in {"STOP", "START"} /\ up \in BOOLEAN /\ rxOn \in BOOLEAN
  /\ ipc \in IsrPc /\ icnt \in 0 .. BufNum /\ iidx \in Slots /\ ilen \in 0 .. BufSize - 1
  /\ rpc \in ReadPc /\ rcnt \in 0 .. BufNum /\ rpos \in Slots
  /\ rlen \in Int /\ rlen <= BufSize /\ rbuf \in Contents
  /\ out \in Seq(Bytes)
  /\ dropped \in Nat
  /\ stops \in 0 .. MaxStops

\* The slot of the oldest record the thread still owns: while serial_read is
\* between the update of ridx and that of cnt, it is the one before ridx.
Prev1(i) == IF i = 0 THEN BufNum - 1 ELSE i - 1
Oldest   == IF rpc = "release" THEN Prev1(ridx) ELSE ridx

\* The slot k places after the oldest record, and the record in slot i.
Wrap(i)   == IF i >= BufNum THEN i - BufNum ELSE i
Place(k)  == Wrap(Oldest + k)
Record(i) == SubSeq(buf[i], 1, len[i])

\* The write index follows the records held: interrupt and thread, each
\* updating its own index and both updating cnt, never lose count of a slot.
RingConsistent == widx = Place(cnt)

\* The interrupt never writes into a slot that holds a committed record, the
\* one serial_read is copying included.
NoOverwrite == ipc = "fill" => \A k \in 0 .. cnt - 1 : Place(k) # iidx

\* Tokens of cmd_sem that serial_read has taken for a record it still holds.
InHand == IF rpc \in {"check", "count", "copy", "advance", "release"} THEN 1 ELSE 0

\* Each record in the cache has its token, in cmd_sem or in the hand of
\* serial_read, but for the tokens the code gives up with a record left: a read
\* refused for its buffer, a read of a port that is not started, a close.  So no
\* other record waits behind the semaphore for the next one to arrive, and
\* serial_read never returns -2, "no valid command".
TokensExact == sem + InHand + dropped = cnt

\* The committed records, the one being handed over included, oldest first.
Queued == [k \in 1 .. cnt |-> Record(Place(k - 1))]

\* What is on its way to the application: the bytes of those records (k < cnt) and
\* of the one being filled (k = cnt), and behind them the FIFO.
Slot(k)    == IF k < cnt THEN Place(k) ELSE iidx
Held(k)    == IF k < cnt THEN len[Place(k)] ELSE IF ipc = "fill" THEN ilen ELSE 0
Byte(k, i) == buf[Slot(k)][i]

\* The bytes on their way keep the order the MCU sent them in, none twice, from
\* record to record and within each, and no record is empty.
StreamInOrder ==
  /\ \A k \in 0 .. cnt - 1 : Held(k) > 0
  /\ \A k, m \in 0 .. cnt : \A i \in 1 .. Held(k), j \in 1 .. Held(m) :
        k < m \/ (k = m /\ i < j) => Byte(k, i) < Byte(m, j)
  /\ \A k \in 0 .. cnt : \A i \in 1 .. Held(k), j \in 1 .. Len(fifo) : Byte(k, i) < fifo[j]
  /\ \A i, j \in 1 .. Len(fifo) : i < j => fifo[i] < fifo[j]

\* The cache is a bounded first-in first-out queue of records: refinement of
\* RecordQueue.  A record leaves the queue when serial_read gives its slot
\* back, not when it is copied.
Abstract == INSTANCE RecordQueue WITH
              Cap <- BufNum,
              Item <- UNION {[1 .. n -> 1 .. MaxBytes] : n \in 1 .. BufSize},
              queue <- Queued, taken <- out
IsRecordQueue == Abstract!Spec

\* A record in the cache of a port that is never stopped, and on which no read
\* is refused, is handed over, or the interrupt handler spins on an empty FIFO.
RecordIsRead ==
  \A b \in 1 .. MaxBytes :
    (cnt > 0 /\ b = buf[Oldest][1]) ~>
      (Spinning \/ dropped > 0 \/ stops > 0 \/ (out # <<>> /\ out[1] >= b))
=============================================================================
