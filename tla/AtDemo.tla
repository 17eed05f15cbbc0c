------------------------------- MODULE AtDemo -------------------------------
(***************************************************************************)
(* The water sensor firmware (project/at_demo/main.c): main brings the     *)
(* network up, announces itself to the broker, tells the Tuya MCU that it  *)
(* is online, and then for ever reads a record of the serial receive cache *)
(* (SerialRx), scans it for Tuya frames and publishes the data units of    *)
(* the status reports.                                                     *)
(*                                                                         *)
(* The receive cache is here what SerialRx shows it to be, a bounded queue *)
(* of records, with the cuts its handler makes in a burst of bytes: a      *)
(* record of RecSize bytes as soon as so many came, after which it polls   *)
(* for one more byte, which is a record of its own; the rest of a burst    *)
(* when the line pauses.                                                   *)
(***************************************************************************)
EXTENDS Integers, Sequences, SequencesExt

CONSTANTS Frames,     \* the frames the MCU may send, sequences of bytes
          BufLen,     \* sizeof(queue_buf)
          RecSize,    \* bytes of a record of the receive cache, FIFO trigger level
          Cap,        \* records of the receive cache
          MaxFrames,  \* bound: frames the MCU sends
          MaxBurst,   \* bound: bytes the MCU sends without a pause
          LinkFails   \* the network may be down

ASSUME AtDemoAssumption ==
  /\ \A f \in Frames : f \in Seq(0 .. 255)
  /\ BufLen \in Nat /\ RecSize \in Nat \ {0} /\ RecSize + 5 <= BufLen
  /\ Cap \in Nat \ {0} /\ MaxFrames \in Nat /\ MaxBurst \in Nat
  /\ LinkFails \in BOOLEAN

VARIABLES
  step,       \* the place of main: a step of the boot, or "loop"
  link,       \* the network reaches the broker
  session,    \* ConnectNetwork succeeded and, once it was called, MQTTConnect
  broker,     \* what the broker accepted
  told,       \* what was written to the MCU
  done,       \* what main did for the frames: calls of MQTTPublish, answers
  frames,     \* the frames the MCU sent
  line,       \* bytes sent and not yet in the receive cache
  cached,     \* the records in the receive cache
  lost,       \* a record was discarded, the cache being full
  polling,    \* the receive handler polls an empty FIFO
  qbuf, dcnt, \* queue_buf; what serial_read returned
  mode, j, k  \* where the loop is: "read", "scan", "units"; its indices

network == <<link, session, broker>>
mcu     == <<frames, line>>
rx      == <<cached, lost, polling>>
scanner  == <<qbuf, dcnt, mode, j, k>>
demo    == <<step, network, told, done, mcu, rx, scanner>>

Pub(topic, payload) == [topic |-> topic, payload |-> payload]
WifiFunc == Pub("serial", "wifi function ok")
Online   == "wifi status: connected to the cloud"

Boot == <<"sta_set", "sta_set_again", "ConnectNetwork", "MQTTConnect", "LWT",
          "config_status", "config_moisture", "config_battery",
          "serial_start", "tell_mcu", "loop">>

DemoInit ==
  /\ step = 1
  /\ link \in IF LinkFails THEN BOOLEAN ELSE {TRUE}
  /\ session = FALSE
  /\ broker = <<>> /\ told = <<>> /\ done = <<>>
  /\ frames = <<>> /\ line = <<>> /\ cached = <<>>
  /\ lost = FALSE /\ polling = FALSE
  /\ qbuf = [i \in 0 .. BufLen - 1 |-> 0] /\ dcnt = 0
  /\ mode = "read" /\ j = 0 /\ k = 0

-----------------------------------------------------------------------------
(* The network and the MCU.                                                *)

LinkChanges ==
  /\ LinkFails
  /\ link' = ~link
  /\ UNCHANGED <<step, session, broker, told, done, mcu, rx, scanner>>

\* The MCU reports once it was told that the module is online, and answers
\* nothing the module has not asked.
McuSend ==
  /\ Online \in {told[i] : i \in 1 .. Len(told)}
  /\ Len(frames) < MaxFrames
  /\ \E f \in Frames :
       /\ Len(line) + Len(f) <= MaxBurst
       /\ frames' = Append(frames, f)
       /\ line' = line \o f
  /\ UNCHANGED <<step, network, told, done, rx, scanner>>

\* Bytes the handler makes a record of: one when it polls, else a whole
\* record, or what is left of the burst.
Cut == IF polling THEN 1 ELSE IF Len(line) >= RecSize THEN RecSize ELSE Len(line)

\* Mutant of Receive: a full cache is not noticed.
ReceiveAlways ==
  /\ line # <<>>
  /\ cached' = Append(cached, SubSeq(line, 1, Cut))
  /\ polling' = (Cut = RecSize /\ ~polling)
  /\ line' = SubSeq(line, Cut + 1, Len(line))
  /\ UNCHANGED <<step, network, told, done, frames, lost, scanner>>

\* With no free record the handler discards what the FIFO holds.
Receive ==
  /\ line # <<>>
  /\ IF Len(cached) < Cap
     THEN /\ cached' = Append(cached, SubSeq(line, 1, Cut))
          /\ polling' = (Cut = RecSize /\ ~polling /\ Len(cached) + 1 < Cap)
          /\ UNCHANGED lost
     ELSE lost' = TRUE /\ UNCHANGED <<cached, polling>>
  /\ line' = SubSeq(line, Cut + 1, Len(line))
  /\ UNCHANGED <<step, network, told, done, frames, scanner>>

-----------------------------------------------------------------------------
(* main, which runs only while no handler does.                            *)

At(s) == Boot[step] = s /\ ~polling

\* MQTTPublish: the result is printed or ignored, the message lost if there
\* is no session or no network.
Publish(p) ==
  broker' = IF session /\ link THEN Append(broker, p) ELSE broker

BootWlan ==
  /\ At("sta_set") \/ At("sta_set_again")
  /\ step' = step + 1
  /\ UNCHANGED <<network, told, done, mcu, rx, scanner>>

\* ConnectNetwork opens the connection MQTTConnect then uses: main goes on
\* whatever they return.
BootConnect ==
  /\ At("ConnectNetwork") \/ At("MQTTConnect")
  /\ session' = (link /\ (At("MQTTConnect") => session))
  /\ step' = step + 1
  /\ UNCHANGED <<link, broker, told, done, mcu, rx, scanner>>

BootPublish ==
  /\ \E s \in {"LWT", "config_status", "config_moisture", "config_battery"} :
       At(s) /\ Publish(Pub(s, "boot"))
  /\ step' = step + 1
  /\ UNCHANGED <<link, session, told, done, mcu, rx, scanner>>

BootSerial ==
  /\ At("serial_start")
  /\ step' = step + 1
  /\ UNCHANGED <<network, told, done, mcu, rx, scanner>>

BootTellMcu ==
  /\ At("tell_mcu")
  /\ told' = Append(told, Online)
  /\ step' = step + 1
  /\ UNCHANGED <<network, done, mcu, rx, scanner>>

-----------------------------------------------------------------------------
(* The loop of main.                                                       *)

In(m) == At("loop") /\ mode = m

\* Mutant of ReadRecord: the record stays in the cache.
ReadRecordKeep ==
  /\ In("read")
  /\ cached # <<>>
  /\ dcnt' = Len(Head(cached))
  /\ qbuf' = [i \in DOMAIN qbuf |-> IF i < dcnt' THEN Head(cached)[i + 1] ELSE qbuf[i]]
  /\ mode' = "scan"
  /\ j' = 0
  /\ UNCHANGED <<step, network, told, done, mcu, rx, k>>

\* serial_read returns a record: it replaces the front of queue_buf.
ReadRecord ==
  /\ In("read")
  /\ cached # <<>>
  /\ dcnt' = Len(Head(cached))
  /\ qbuf' = [i \in DOMAIN qbuf |-> IF i < dcnt' THEN Head(cached)[i + 1] ELSE qbuf[i]]
  /\ cached' = Tail(cached)
  /\ mode' = "scan"
  /\ j' = 0
  /\ UNCHANGED <<step, network, told, done, mcu, lost, polling, k>>

\* serial_read times out: nothing to scan.
ReadNothing ==
  /\ In("read")
  /\ cached = <<>>
  /\ dcnt' = 0 /\ j' = 0
  /\ UNCHANGED <<step, network, told, done, mcu, rx, qbuf, mode, k>>

Word(hi, lo) == 256 * hi + lo

\* The three header bytes, and how many of them match at j.
Header == <<85, 170, 0>>          \* 0x55 0xAA 0x00
Matched == IF qbuf[j] # 85 THEN 0
           ELSE IF qbuf[j + 1] # 170 THEN 1
           ELSE IF qbuf[j + 2] # 0 THEN 2 ELSE 3
Cmd == qbuf[j + 3]

ScanEnd ==
  /\ In("scan")
  /\ j >= dcnt
  /\ mode' = "read"
  /\ UNCHANGED <<step, network, told, done, mcu, rx, qbuf, dcnt, j, k>>

\* No header at j: go on after the byte that did not match.
ScanSkip ==
  /\ In("scan")
  /\ j < dcnt
  /\ Matched < 3
  /\ j' = j + Matched + 1
  /\ UNCHANGED <<step, network, told, done, mcu, rx, qbuf, dcnt, mode, k>>

\* Mutant of ScanReport: the length is taken from the low byte's place.
ScanReportHi ==
  /\ In("scan")
  /\ j < dcnt
  /\ Matched = 3 /\ Cmd = 5
  /\ j' = j + 6
  /\ k' = j + 6 + Word(qbuf[j + 5], qbuf[j + 4])
  /\ mode' = "units"
  /\ UNCHANGED <<step, network, told, done, mcu, rx, qbuf, dcnt>>

\* Command 05, a status report: its data units follow.
ScanReport ==
  /\ In("scan")
  /\ j < dcnt
  /\ Matched = 3 /\ Cmd = 5
  /\ j' = j + 6
  /\ k' = j + 6 + Word(qbuf[j + 4], qbuf[j + 5])
  /\ mode' = "units"
  /\ UNCHANGED <<step, network, told, done, mcu, rx, qbuf, dcnt>>

\* Command 07, the wifi function test, is answered.
ScanWifiFunc ==
  /\ In("scan")
  /\ j < dcnt
  /\ Matched = 3 /\ Cmd = 7
  /\ told' = Append(told, WifiFunc)
  /\ done' = Append(done, WifiFunc)
  /\ j' = j + 4
  /\ UNCHANGED <<step, network, mcu, rx, qbuf, dcnt, mode, k>>

\* The other commands are printed.
ScanOther ==
  /\ In("scan")
  /\ j < dcnt
  /\ Matched = 3 /\ Cmd \notin {5, 7}
  /\ j' = j + 4
  /\ UNCHANGED <<step, network, told, done, mcu, rx, qbuf, dcnt, mode, k>>

\* What is published for a data unit: nothing, or one message.
Unit(dpid, type, len, val) ==
  IF len # 1 \/ type # 4 THEN <<>>
  ELSE CASE dpid = 1 /\ val = 0 -> <<Pub("MOISTURE", "ON")>>
         [] dpid = 1 /\ val = 1 -> <<Pub("MOISTURE", "OFF")>>
         [] dpid = 3 /\ val = 0 -> <<Pub("BATTERY", "5")>>
         [] dpid = 3 /\ val = 1 -> <<Pub("BATTERY", "50")>>
         [] dpid = 3 /\ val = 2 -> <<Pub("BATTERY", "95")>>
         [] OTHER               -> <<>>

\* Mutant of ReportUnit: a message is published again when the network is up.
ReportUnitTwice ==
  /\ In("units")
  /\ j < k
  /\ j + 4 < BufLen
  /\ LET u == Unit(qbuf[j], qbuf[j + 1], Word(qbuf[j + 2], qbuf[j + 3]), qbuf[j + 4])
     IN /\ done' = done \o u
        /\ broker' = IF session /\ link THEN broker \o u \o u ELSE broker
  /\ j' = j + 5
  /\ UNCHANGED <<step, link, session, told, mcu, rx, qbuf, dcnt, mode, k>>

\* tuya_parse_status_data_unit: five bytes, whatever length the unit states.
ReportUnit ==
  /\ In("units")
  /\ j < k
  /\ j + 4 < BufLen
  /\ LET u == Unit(qbuf[j], qbuf[j + 1], Word(qbuf[j + 2], qbuf[j + 3]), qbuf[j + 4])
     IN /\ done' = done \o u
        /\ IF u = <<>> THEN UNCHANGED broker ELSE Publish(u[1])
  /\ j' = j + 5
  /\ UNCHANGED <<step, link, session, told, mcu, rx, qbuf, dcnt, mode, k>>

\* The units are done; the byte at j, the frame's checksum, is skipped.
ReportEnd ==
  /\ In("units")
  /\ j >= k
  /\ mode' = "scan"
  /\ j' = j + 1
  /\ UNCHANGED <<step, network, told, done, mcu, rx, qbuf, dcnt, k>>

Main == \/ BootWlan \/ BootConnect \/ BootPublish \/ BootSerial \/ BootTellMcu
        \/ ReadRecord \/ ReadNothing
        \/ ScanEnd \/ ScanSkip \/ ScanReport \/ ScanWifiFunc \/ ScanOther
        \/ ReportUnit \/ ReportEnd

DemoNext == LinkChanges \/ McuSend \/ Receive \/ Main

DemoSpec == DemoInit /\ [][DemoNext]_demo

(* main runs whenever no handler does, and bytes on the line are received. *)
DemoFairSpec == DemoSpec /\ WF_demo(Main) /\ WF_demo(Receive)

-----------------------------------------------------------------------------
\* The variables hold values of their types.
DemoTypeOK ==
  /\ step \in 1 .. Len(Boot)
  /\ link \in BOOLEAN /\ session \in BOOLEAN
  /\ frames \in Seq(Frames) /\ Len(frames) <= MaxFrames
  /\ Len(cached) <= Cap /\ \A i \in 1 .. Len(cached) : Len(cached[i]) \in 1 .. RecSize
  /\ lost \in BOOLEAN /\ polling \in BOOLEAN
  /\ qbuf \in [0 .. BufLen - 1 -> 0 .. 255] /\ dcnt \in 0 .. RecSize
  /\ mode \in {"read", "scan", "units"} /\ j \in Nat /\ k \in Nat

\* What a frame asks for, read off the protocol: a frame is the header, the
\* command, a length of two bytes, so much data, and a checksum; the data of a
\* report is a sequence of units of dpid, type, length of two bytes and value.
Units(d) ==
  LET from[p \in 1 .. Len(d) + 1] ==
        IF p + 4 > Len(d) THEN <<>>
        ELSE LET n    == Word(d[p + 2], d[p + 3])
                 next == p + 4 + n
             IN Unit(d[p], d[p + 1], n, d[p + 4])
                  \o (IF next > Len(d) THEN <<>> ELSE from[next])
  IN from[1]
Asked(f) ==
  LET data == SubSeq(f, 7, 6 + Word(f[5], f[6]))
  IN CASE f[4] = 5 -> Units(data)
       [] f[4] = 7 -> <<WifiFunc>>
       [] OTHER    -> <<>>
Due == FlattenSeq([i \in 1 .. Len(frames) |-> Asked(frames[i])])

\* A frame main takes apart as the protocol has it: the units of a report are of
\* one byte each, and no other frame has the first byte of a header in it again.
Regular(f) ==
  /\ Len(f) > 6 /\ \A x \in 1 .. 3 : f[x] = Header[x]
  /\ IF f[4] = 5
     THEN /\ Len(f) = 7 + Word(f[5], f[6])
          /\ Word(f[5], f[6]) % 5 = 0
          /\ \A x \in 7 .. Len(f) - 1 : x % 5 = 2 => Word(f[x + 2], f[x + 3]) = 1
     ELSE \A x \in 5 .. Len(f) : f[x] # Header[1]

\* main does what the frames asked for, in their order, nothing twice and
\* nothing that was not asked, as long as no record is lost.
DoneWasAsked == ~lost => IsPrefix(done, Due)

\* Every frame is acted on in the end, unless a full cache lost one.
Settles == <>[](lost \/ done = Due)

\* Network failures lose messages, and never reorder or duplicate them: what
\* the broker accepted is b messages of the boot, and then those main published
\* at idx, in their order.
AcceptedInOrder ==
  LET b == Cardinality({i \in DOMAIN broker : broker[i].payload = "boot"})
  IN \E idx \in SUBSET DOMAIN done :
       /\ b + Cardinality(idx) = Len(broker)
       /\ \A m \in idx : broker[b + Cardinality({x \in idx : x <= m})] = done[m]
=============================================================================
