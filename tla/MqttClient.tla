----------------------------- MODULE MqttClient -----------------------------
(***************************************************************************)
(* The MQTT client of the firmware (src/net/mqtt/MQTTClient-C/MQTTClient.c *)
(* over Xr_RTOS/MQTTXrRTOS.c), used by one caller at a time, as main and   *)
(* the lock of cmd_mqtt.c have it: connect, subscribe, unsubscribe,        *)
(* publish, yield and disconnect, each under a timer that may run out at   *)
(* any point, over a connection that may break at any point.               *)
(*                                                                         *)
(* What the broker sends is a sequence of cells, one for the first byte of *)
(* a packet (its type), one for the length, and Body[type] for the rest,   *)
(* so that a read may end inside a packet.  A read takes all the cells it  *)
(* asks for, or fewer when its time runs out or the connection breaks.     *)
(*                                                                         *)
(* The broker is external: it answers each packet as MQTT prescribes, in   *)
(* order, starts a session of its own on each connection, and publishes on *)
(* the topics it granted.                                                  *)
(***************************************************************************)
EXTENDS Integers, Sequences

CONSTANTS Topics, NoTopic,
          Body,         \* cells after the length, of each type the broker sends
          Inbound,      \* the types of the packets the broker sends
          MaxId,        \* MAX_PACKET_ID
          MaxHandlers,  \* MAX_MESSAGE_HANDLERS
          MaxCalls,     \* bound: calls of the client
          MaxPubs,      \* bound: messages the broker publishes
          MaxDue,       \* bound: times the ping timer runs out
          MaxRemain     \* bound: how far reads that fail let remain_pktfrag_len grow

ASSUME MqttClientAssumption ==
  /\ NoTopic \notin Topics
  /\ Inbound = {"CONNACK", "PUBLISH", "PUBACK", "PUBREC", "PUBREL", "PUBCOMP",
                "SUBACK", "UNSUBACK", "PINGRESP"}
  /\ Body \in [Inbound -> Nat] /\ Body["PINGRESP"] = 0
  /\ MaxId \in Nat \ {0}
  /\ MaxHandlers \in Nat \ {0}
  /\ MaxCalls \in Nat /\ MaxPubs \in Nat /\ MaxDue \in Nat
  /\ MaxRemain \in Nat

VARIABLES
  link,                     \* the connection: closed, up, or broken
  up,                       \* packets the broker has not taken yet
  wire, avail,              \* cells the client has not read; how many of them arrived
  session, granted, awaits, \* the broker: CONNECT accepted, topics granted,
                            \*   answers it waits for
  isconnected, ping_outstanding, next_packetid, remain_pktfrag_len,
  due,                      \* ping_timer has run out
  handlers,                 \* messageHandlers, topics only
  pc, call, late,           \* the call that runs; its timer has run out
  got, whole,               \* the packet being read; its length was read
  calls, pubs, dues,        \* counted by MaxCalls, MaxPubs, MaxDue
  torn,                     \* history: a read of the length failed on this connection
  carried,                  \* history: the client came to this connection with
                            \*   what an earlier one left
  gaveUp,                   \* history: answers calls stopped waiting for
  missed,                   \* history: topics a subscribe left with no handler
  done                      \* history: the packet that ended the last call

net     == <<link, up, wire, avail>>
broker  == <<session, granted, awaits, pubs>>
client  == <<isconnected, next_packetid, handlers>>
ping    == <<ping_outstanding, due, dues>>
reading == <<got, whole>>
history == <<torn, carried, gaveUp, missed, done>>
vars    == <<net, broker, client, ping, remain_pktfrag_len, pc, call, late,
             reading, calls, history>>

Packet(ty, n, tp, c) == [type |-> ty, id |-> n, topic |-> tp, code |-> c]
Plain(ty) == Packet(ty, 0, NoTopic, 0)
NoPacket  == Plain("none")           \* readPacket failed: packet_type is 65535

Cells(p) == [i \in 1 .. 2 + Body[p.type] |-> [p |-> p, i |-> i]]

\* The calls that wait, and the type each waits for.
Want == [connect |-> "CONNACK", subscribe |-> "SUBACK", unsubscribe |-> "UNSUBACK",
         publish0 |-> "nothing", publish1 |-> "PUBACK", publish2 |-> "PUBCOMP",
         yield |-> "nothing"]
Call(op, n, tp) == [op |-> op, id |-> n, topic |-> tp]
NoCall == Call("yield", 0, NoTopic)

Free == [i \in 1 .. MaxHandlers |-> NoTopic]

Init ==
  /\ link = "closed" /\ up = <<>> /\ wire = <<>> /\ avail = 0
  /\ session = FALSE /\ granted = {} /\ awaits = {} /\ pubs = 0
  /\ isconnected = FALSE /\ next_packetid = 0 /\ handlers = Free
  /\ ping_outstanding = FALSE /\ due = TRUE /\ dues = 0
  /\ remain_pktfrag_len = 0
  /\ pc = "idle" /\ call = NoCall /\ late = FALSE
  /\ got = NoPacket /\ whole = FALSE
  /\ calls = 0
  /\ torn = FALSE /\ carried = FALSE /\ gaveUp = {} /\ missed = {} /\ done = NoPacket

-----------------------------------------------------------------------------
(* The connection, the broker and time.                                    *)

Arrive ==
  /\ avail < Len(wire)
  /\ avail' = avail + 1
  /\ UNCHANGED <<link, up, wire, broker, client, ping, remain_pktfrag_len, pc, call,
                 late, reading, calls, history>>

\* The broker and the history begin anew with each connection.
Anew ==
  /\ session' = FALSE /\ granted' = {} /\ awaits' = {}
  /\ torn' = FALSE /\ gaveUp' = {} /\ missed' = {}

\* What was on its way is lost; what arrived can still be read.
Break ==
  /\ link = "up"
  /\ link' = "broken"
  /\ up' = <<>>
  /\ wire' = SubSeq(wire, 1, avail)
  /\ Anew /\ carried' = FALSE /\ done' = NoPacket
  /\ UNCHANGED <<avail, pubs, client, ping, remain_pktfrag_len, pc, call, late, reading,
                 calls>>

Answers(ps) == wire' = wire \o ps

\* The answer of the broker to a packet of the client.
BrokerTake ==
  /\ link = "up" /\ up # <<>>
  /\ up' = Tail(up)
  /\ LET p == Head(up)
         Ack(ty) == Cells(Packet(ty, p.id, NoTopic, 0))
         Quiet   == UNCHANGED <<session, granted, awaits>>
     IN \/ /\ p.type = "CONNECT"
           /\ \E c \in {0, 1} :
                /\ Answers(Cells(Packet("CONNACK", 0, NoTopic, c)))
                /\ session' = (c = 0)
           /\ UNCHANGED <<granted, awaits>>
        \/ /\ p.type = "SUBSCRIBE"
           /\ \E c \in {0, 1} :
                /\ Answers(Cells(Packet("SUBACK", p.id, p.topic, c)))
                /\ granted' = IF c = 0 THEN granted \cup {p.topic} ELSE granted
           /\ UNCHANGED <<session, awaits>>
        \/ /\ p.type = "UNSUBSCRIBE"
           /\ Answers(Cells(Packet("UNSUBACK", p.id, p.topic, 0)))
           /\ granted' = granted \ {p.topic}
           /\ UNCHANGED <<session, awaits>>
        \/ /\ p.type = "PUBLISH"
           /\ CASE p.code = 0 -> UNCHANGED wire /\ Quiet
                [] p.code = 1 -> Answers(Ack("PUBACK")) /\ Quiet
                [] p.code = 2 -> /\ Answers(Ack("PUBREC"))
                                 /\ awaits' = awaits \cup {<<"PUBREL", p.id>>}
                                 /\ UNCHANGED <<session, granted>>
        \/ /\ p.type = "PUBREL"
           /\ Answers(Ack("PUBCOMP"))
           /\ awaits' = awaits \ {<<"PUBREL", p.id>>}
           /\ UNCHANGED <<session, granted>>
        \/ /\ p.type = "PUBREC"
           /\ Answers(Ack("PUBREL"))
           /\ awaits' = (awaits \ {<<"PUBREC", p.id>>}) \cup {<<"PUBCOMP", p.id>>}
           /\ UNCHANGED <<session, granted>>
        \/ /\ p.type \in {"PUBACK", "PUBCOMP"}
           /\ awaits' = awaits \ {<<p.type, p.id>>}
           /\ UNCHANGED <<wire, session, granted>>
        \/ /\ p.type = "PINGREQ"
           /\ Answers(Cells(Plain("PINGRESP"))) /\ Quiet
  /\ UNCHANGED <<link, avail, pubs, client, ping, remain_pktfrag_len, pc, call, late,
                 reading, calls, history>>

BrokerPublish ==
  /\ link = "up" /\ session
  /\ pubs < MaxPubs
  /\ \E tp \in granted, q \in 0 .. 2 :
       /\ Answers(Cells(Packet("PUBLISH", pubs + 1, tp, q)))
       /\ awaits' = CASE q = 0 -> awaits
                      [] q = 1 -> awaits \cup {<<"PUBACK", pubs + 1>>}
                      [] q = 2 -> awaits \cup {<<"PUBREC", pubs + 1>>}
  /\ pubs' = pubs + 1
  /\ UNCHANGED <<link, up, avail, session, granted, client, ping, remain_pktfrag_len, pc,
                 call, late, reading, calls, history>>

\* The timer of the call that runs, and the ping timer, run out.
Expire ==
  /\ pc # "idle" /\ ~late
  /\ late' = TRUE
  /\ UNCHANGED <<net, broker, client, ping, remain_pktfrag_len, pc, call, reading, calls,
                 history>>

PingDue ==
  /\ ~due
  /\ dues < MaxDue
  /\ due' = TRUE /\ dues' = dues + 1
  /\ UNCHANGED <<net, broker, client, ping_outstanding, remain_pktfrag_len, pc, call, late,
                 reading, calls, history>>

-----------------------------------------------------------------------------
(* Calls of the client.  A write either hands the whole packet to the      *)
(* connection and restarts the ping timer, or fails: for an error, or for  *)
(* want of time.                                                           *)

Written(p) == link = "up" /\ up' = Append(up, p) /\ due' = FALSE
NotWritten == UNCHANGED <<up, due>>

Begin(op, n, tp) ==
  /\ pc = "idle"
  /\ calls < MaxCalls
  /\ calls' = calls + 1
  /\ call' = Call(op, n, tp)
  /\ late' = FALSE
  /\ done' = NoPacket

MQTTClient ==
  /\ isconnected' = FALSE /\ ping_outstanding' = FALSE /\ handlers' = Free
  /\ remain_pktfrag_len' = 0

\* ConnectNetwork, on a client that is initialised again or taken as it is,
\* and MQTTConnect, which refuses a client that is connected.
MQTTConnect ==
  /\ Begin("connect", 0, NoTopic)
  /\ link # "up"
  /\ link' = "up" /\ wire' = <<>> /\ avail' = 0
  /\ Anew
  /\ \/ MQTTClient /\ carried' = FALSE
     \/ /\ UNCHANGED <<isconnected, ping_outstanding, handlers, remain_pktfrag_len>>
        /\ carried' = (isconnected \/ ping_outstanding \/ remain_pktfrag_len # 0)
  /\ IF isconnected'
     THEN up' = <<>> /\ pc' = "idle" /\ UNCHANGED due
     ELSE /\ due' = FALSE
          /\ \/ up' = <<Plain("CONNECT")>> /\ pc' = "loop"
             \/ up' = <<>> /\ pc' = "idle"
  /\ UNCHANGED <<pubs, next_packetid, dues, reading>>

NextId == IF next_packetid = MaxId THEN 1 ELSE next_packetid + 1

\* A call that writes p and waits for its answer, if it has one.
Request(op, n, tp, p) ==
  /\ Begin(op, n, tp)
  /\ isconnected
  /\ \/ Written(p) /\ pc' = IF Want[op] = "nothing" THEN "idle" ELSE "loop"
     \/ NotWritten /\ pc' = "idle"
  /\ UNCHANGED <<link, wire, avail, broker, isconnected, handlers, ping_outstanding, dues,
                 remain_pktfrag_len, reading, torn, carried, gaveUp, missed>>

MQTTSubscribe ==
  \E tp \in Topics :
    /\ Request("subscribe", NextId, tp, Packet("SUBSCRIBE", NextId, tp, 0))
    /\ next_packetid' = NextId

\* Mutant of MQTTUnsubscribe: the handler goes before the broker has agreed.
MQTTUnsubscribeEarly ==
  \E tp \in Topics :
    /\ Begin("unsubscribe", NextId, tp)
    /\ isconnected
    /\ Written(Packet("UNSUBSCRIBE", NextId, tp, 0)) /\ pc' = "loop"
    /\ handlers' = [k \in DOMAIN handlers |-> IF handlers[k] = tp THEN NoTopic ELSE handlers[k]]
    /\ next_packetid' = NextId
    /\ UNCHANGED <<link, wire, avail, broker, isconnected, ping_outstanding, dues,
                   remain_pktfrag_len, reading, torn, carried, gaveUp, missed>>

MQTTUnsubscribe ==
  \E tp \in Topics :
    /\ Request("unsubscribe", NextId, tp, Packet("UNSUBSCRIBE", NextId, tp, 0))
    /\ next_packetid' = NextId

MQTTPublish ==
  \E q \in 0 .. 2 :
    LET n == IF q = 0 THEN next_packetid ELSE NextId
        op == CASE q = 0 -> "publish0" [] q = 1 -> "publish1" [] q = 2 -> "publish2"
    IN /\ Request(op, n, NoTopic, Packet("PUBLISH", n, NoTopic, q))
       /\ next_packetid' = n

\* The background thread of cmd_mqtt.c yields from a successful connect on.
MQTTYield ==
  /\ Begin("yield", 0, NoTopic)
  /\ isconnected
  /\ pc' = "loop"
  /\ UNCHANGED <<net, broker, client, ping, remain_pktfrag_len, reading,
                 torn, carried, gaveUp, missed>>

\* MQTTDisconnect, or the connection closed with no word to the client.
Close ==
  /\ pc = "idle" /\ link # "closed"
  /\ link' = "closed" /\ up' = <<>> /\ wire' = <<>> /\ avail' = 0
  /\ isconnected' \in {FALSE, isconnected}
  /\ Anew /\ carried' = FALSE /\ done' = NoPacket
  /\ UNCHANGED <<pubs, next_packetid, handlers, ping, remain_pktfrag_len, pc, call, late,
                 reading, calls>>

-----------------------------------------------------------------------------
(* waitfor and MQTTYield: cycle after cycle until the timer has run out or *)
(* a cycle brings the packet waited for.                                   *)

\* A call that ends with no answer.
GiveUp ==
  /\ pc' = "idle"
  /\ gaveUp' = gaveUp \cup {Want[call.op]}
  /\ missed' = IF call.op = "subscribe" THEN missed \cup {call.topic} ELSE missed
  /\ call' = NoCall

LoopEnd ==
  /\ pc = "loop" /\ late
  /\ GiveUp
  /\ UNCHANGED <<net, broker, client, ping, remain_pktfrag_len, late, reading, calls,
                 torn, carried, done>>

\* The next cycle, which begins with readPacket.
LoopOn ==
  /\ pc = "loop" /\ ~late
  /\ pc' = "discard"
  /\ UNCHANGED <<net, broker, client, ping, remain_pktfrag_len, call, late, reading, calls,
                 history>>

\* A read of n cells takes them all, or, when its time ran out or there is no
\* connection, those that arrived.
Take(k) ==
  /\ wire' = SubSeq(wire, k + 1, Len(wire))
  /\ avail' = avail - k
Whole(n) == avail >= n /\ Take(n)
Short(n) == avail < n /\ (late \/ link # "up") /\ Take(avail)

\* readPacket returns FAILURE: packet_type is 65535, which is no type.
Unread == got' = NoPacket /\ whole' = FALSE /\ pc' = "keepalive"

\* The length of the rest of the packet, once its header was read.
rem_len == IF got = NoPacket THEN 0 ELSE Body[got.type]

\* What is left of a packet that was not read to its end is discarded.
DiscardRest ==
  /\ pc = "discard" /\ remain_pktfrag_len # 0
  /\ \/ Whole(remain_pktfrag_len) /\ remain_pktfrag_len' = 0 /\ UNCHANGED <<pc, reading>>
     \/ /\ Short(remain_pktfrag_len) /\ link = "up"
        /\ remain_pktfrag_len' = remain_pktfrag_len - avail
        /\ Unread
  /\ UNCHANGED <<link, up, broker, client, ping, call, late, calls, history>>

\* Mutant of DiscardLate: the loop does not look at the timer.
DiscardLateNever == pc = "discard" /\ remain_pktfrag_len # 0 /\ FALSE /\ UNCHANGED vars

\* The timer has run out: the loop is left before the read.
DiscardLate ==
  /\ pc = "discard" /\ remain_pktfrag_len # 0
  /\ late
  /\ Unread
  /\ UNCHANGED <<net, broker, client, ping, remain_pktfrag_len, call, late, calls,
                 history>>

\* A read with no connection returns a negative number, which is taken off the
\* count, and the loop goes on.
DiscardBroken ==
  /\ pc = "discard" /\ remain_pktfrag_len # 0
  /\ link # "up"
  /\ remain_pktfrag_len < MaxRemain
  /\ Short(remain_pktfrag_len)
  /\ remain_pktfrag_len' = remain_pktfrag_len + 1
  /\ UNCHANGED <<link, up, broker, client, ping, pc, call, late, reading, calls, history>>

DiscardEnd ==
  /\ pc = "discard" /\ remain_pktfrag_len = 0
  /\ pc' = "type"
  /\ UNCHANGED <<net, broker, client, ping, remain_pktfrag_len, call, late, reading, calls,
                 history>>

\* The header byte.  A byte that is not one is taken for an empty packet of a type
\* the client ignores: what else it may pass for is not modelled.
ReadType ==
  /\ pc = "type"
  /\ \/ /\ Whole(1)
        /\ got' = IF wire[1].i = 1 THEN wire[1].p ELSE NoPacket
        /\ pc' = "length" /\ UNCHANGED whole
     \/ Short(1) /\ Unread
  /\ UNCHANGED <<link, up, broker, client, ping, remain_pktfrag_len, call, late, calls,
                 history>>

\* The length.  What decodePacket returns is not looked at: a length that was
\* not read is zero.
ReadLength ==
  /\ pc = "length"
  /\ \/ /\ Whole(1)
        /\ whole' = TRUE
        /\ pc' = IF rem_len = 0 THEN "handle" ELSE "body"
        /\ UNCHANGED torn
     \/ /\ Short(1)
        /\ whole' = FALSE
        /\ pc' = "handle"
        /\ torn' = (torn \/ link = "up")
  /\ UNCHANGED <<link, up, broker, client, ping, remain_pktfrag_len, call, late, got,
                 calls, carried, gaveUp, missed, done>>

\* Mutant of ReadBody: nothing is noted of a packet that is cut short.
ReadBodyNoRest ==
  /\ pc = "body"
  /\ \/ Whole(rem_len) /\ pc' = "handle" /\ UNCHANGED reading
     \/ Short(rem_len) /\ Unread
  /\ UNCHANGED <<link, up, broker, client, ping, remain_pktfrag_len, call, late, calls,
                 history>>

\* The rest of the packet.  A read that fails for want of a connection returns
\* a negative number, which is taken off the length like any other.
ReadBody ==
  /\ pc = "body"
  /\ \/ Whole(rem_len) /\ pc' = "handle" /\ UNCHANGED <<reading, remain_pktfrag_len>>
     \/ /\ Short(rem_len)
        /\ remain_pktfrag_len' = IF link = "up" THEN rem_len - avail ELSE rem_len + 1
        /\ Unread
  /\ UNCHANGED <<link, up, broker, client, ping, call, late, calls, history>>

-----------------------------------------------------------------------------
(* The rest of cycle: what the packet read asks for, and the ping.         *)

EndCycle(to) == pc' = to /\ got' = NoPacket /\ whole' = FALSE
GoOn(to)     == pc' = to /\ UNCHANGED reading

\* sendPacket with the timer of the call: past its end nothing is written.  A
\* cycle that could not answer ends at once, and MQTTYield with it.  In a packet
\* whose length was lost the identifier is not read, and is any.
Answer(ty) ==
  \/ /\ ~late
     /\ \E n \in IF whole THEN {got.id} ELSE 0 .. MaxId : Written(Packet(ty, n, NoTopic, 0))
     /\ GoOn("keepalive")
  \/ NotWritten /\ EndCycle(IF call.op = "yield" THEN "idle" ELSE "loop")

\* Mutant of Reply: the second half of an exactly-once message ends it.
ReplyMixed ==
  [PUBLISH |-> <<"none", "PUBACK", "PUBREC">>, PUBREC |-> "PUBCOMP", PUBREL |-> "PUBCOMP"]

Reply == [PUBLISH |-> <<"none", "PUBACK", "PUBREC">>, PUBREC |-> "PUBREL", PUBREL |-> "PUBCOMP"]

HandlePublish ==
  /\ pc = "handle" /\ got.type = "PUBLISH"
  /\ IF got.code = 0 THEN NotWritten /\ GoOn("keepalive")
                     ELSE Answer(Reply.PUBLISH[got.code + 1])
  /\ UNCHANGED <<link, wire, avail, broker, client, ping_outstanding, dues, remain_pktfrag_len,
                 call, late, calls, history>>

HandlePubrec ==
  /\ pc = "handle" /\ got.type \in {"PUBREC", "PUBREL"}
  /\ Answer(Reply[got.type])
  /\ UNCHANGED <<link, wire, avail, broker, client, ping_outstanding, dues, remain_pktfrag_len,
                 call, late, calls, history>>

HandleOther ==
  /\ pc = "handle" /\ got.type \notin {"PUBLISH", "PUBREC", "PUBREL"}
  /\ ping_outstanding' = (ping_outstanding /\ got.type # "PINGRESP")
  /\ pc' = "keepalive"
  /\ UNCHANGED <<net, broker, client, due, dues, remain_pktfrag_len,
                 call, late, reading, calls, history>>

\* Mutant of Keepalive: a ping that was not written is waited for.
KeepaliveUnsent ==
  /\ pc = "keepalive"
  /\ IF due /\ ~ping_outstanding
     THEN (Written(Plain("PINGREQ")) \/ NotWritten) /\ ping_outstanding' = TRUE
     ELSE NotWritten /\ UNCHANGED ping_outstanding
  /\ IF got.type = Want[call.op] THEN GoOn("answer") ELSE EndCycle("loop")
  /\ UNCHANGED <<link, wire, avail, broker, client, dues, remain_pktfrag_len, call, late,
                 calls, history>>

\* Mutant of Keepalive: waitfor takes any answer for the one it waits for.
KeepaliveAny ==
  /\ pc = "keepalive"
  /\ NotWritten /\ UNCHANGED ping_outstanding
  /\ IF call.op # "yield" /\ got.type \in {"CONNACK", "SUBACK", "UNSUBACK", "PUBACK", "PUBCOMP"}
     THEN GoOn("answer") ELSE EndCycle("loop")
  /\ UNCHANGED <<link, wire, avail, broker, client, dues, remain_pktfrag_len, call, late,
                 calls, history>>

\* keepalive, with a timer of its own, at the end of a cycle.
Keepalive ==
  /\ pc = "keepalive"
  /\ IF due /\ ~ping_outstanding
     THEN \/ Written(Plain("PINGREQ")) /\ ping_outstanding' = TRUE
          \/ NotWritten /\ UNCHANGED ping_outstanding
     ELSE NotWritten /\ UNCHANGED ping_outstanding
  /\ IF got.type = Want[call.op] THEN GoOn("answer") ELSE EndCycle("loop")
  /\ UNCHANGED <<link, wire, avail, broker, client, dues, remain_pktfrag_len, call, late,
                 calls, history>>

Slots == 1 .. MaxHandlers
First(tp, k) == handlers[k] = tp /\ \A i \in 1 .. k - 1 : handlers[i] # tp

Put(old, new) ==
  IF \E k \in Slots : handlers[k] = old
  THEN handlers' = [handlers EXCEPT ![CHOOSE k \in Slots : First(old, k)] = new]
  ELSE UNCHANGED handlers

\* The packet waited for ends the call.  Its identifier is not compared with
\* the one that was sent.
CallEnd ==
  /\ pc = "answer"
  /\ EndCycle("idle")
  /\ done' = IF whole THEN got ELSE NoPacket
  /\ \/ /\ call.op = "connect"
        /\ isconnected' = (whole /\ got.code = 0)
        /\ UNCHANGED <<handlers, missed>>
     \/ /\ call.op = "subscribe"
        /\ IF whole /\ got.code # 0 THEN UNCHANGED handlers ELSE Put(NoTopic, call.topic)
        /\ missed' = IF handlers' = handlers THEN missed \cup {call.topic}
                                             ELSE missed \ {call.topic}
        /\ UNCHANGED isconnected
     \/ /\ call.op = "unsubscribe"
        /\ Put(call.topic, NoTopic)
        /\ UNCHANGED <<isconnected, missed>>
     \/ /\ call.op \in {"publish1", "publish2"}
        /\ UNCHANGED <<isconnected, handlers, missed>>
  /\ UNCHANGED <<net, broker, next_packetid, ping, remain_pktfrag_len, call, late, calls,
                 torn, carried, gaveUp>>

-----------------------------------------------------------------------------
Environment == Arrive \/ Break \/ BrokerTake \/ BrokerPublish \/ PingDue

Caller == MQTTConnect \/ MQTTSubscribe \/ MQTTUnsubscribe \/ MQTTPublish \/ MQTTYield \/ Close

Cycle == \/ LoopEnd \/ LoopOn
         \/ DiscardRest \/ DiscardLate \/ DiscardBroken \/ DiscardEnd
         \/ ReadType \/ ReadLength \/ ReadBody
         \/ HandlePublish \/ HandlePubrec \/ HandleOther \/ Keepalive \/ CallEnd

Next == Environment \/ Expire \/ Caller \/ Cycle

Spec == Init /\ [][Next]_vars

(* Time passes and the thread runs.  The broker and the network owe        *)
(* nothing.                                                                *)
FairSpec == Spec /\ WF_vars(Expire) /\ WF_vars(Cycle)

-----------------------------------------------------------------------------
Pcs == {"idle", "loop", "discard", "type", "length", "body", "handle", "keepalive", "answer"}
Sent == {"CONNECT", "SUBSCRIBE", "UNSUBSCRIBE", "PUBLISH", "PUBACK", "PUBREC", "PUBREL",
         "PUBCOMP", "PINGREQ"}
Packets(tys) == [type : tys, id : Nat, topic : Topics \cup {NoTopic}, code : 0 .. 2]
AllCells == [p : Packets(Inbound), i : Nat \ {0}]

\* The variables hold values of their types; what is waited for and what is left
\* of a packet are never negative.
TypeOK ==
  /\ link \in {"closed", "up", "broken"}
  /\ up \in Seq(Packets(Sent))
  /\ wire \in Seq(AllCells) /\ avail \in 0 .. Len(wire)
  /\ session \in BOOLEAN /\ granted \subseteq Topics /\ pubs \in 0 .. MaxPubs
  /\ awaits \subseteq {"PUBACK", "PUBREC", "PUBREL", "PUBCOMP"} \X Nat
  /\ isconnected \in BOOLEAN /\ next_packetid \in 0 .. MaxId
  /\ handlers \in [Slots -> Topics \cup {NoTopic}]
  /\ ping_outstanding \in BOOLEAN /\ due \in BOOLEAN /\ dues \in 0 .. MaxDue
  /\ remain_pktfrag_len \in Nat
  /\ pc \in Pcs /\ late \in BOOLEAN
  /\ call \in [op : DOMAIN Want, id : 0 .. MaxId, topic : Topics \cup {NoTopic}]
  /\ got \in Packets(Inbound) \cup {NoPacket} /\ whole \in BOOLEAN
  /\ calls \in 0 .. MaxCalls
  /\ torn \in BOOLEAN /\ carried \in BOOLEAN
  /\ gaveUp \subseteq Inbound \cup {"nothing"} /\ missed \subseteq Topics
  /\ done \in Packets(Inbound) \cup {NoPacket}

\* The connection was begun with nothing left over, and no length was lost on it.
Sound == link = "up" /\ ~torn /\ ~carried

\* Whatever reads were cut short before, the byte taken for the header of a
\* packet is one, unless the length of a packet was lost or the client brought
\* what an earlier connection left.
InSync == Sound /\ pc = "type" /\ wire # <<>> => wire[1].i = 1

\* The ping that is waited for is on its way to the broker, or its answer on the
\* way back: while the connection stands the client goes on pinging.
PingNotForgotten ==
  Sound /\ ping_outstanding =>
    \/ \E k \in 1 .. Len(up) : up[k].type = "PINGREQ"
    \/ \E k \in 1 .. Len(wire) : wire[k].p.type = "PINGRESP" /\ wire[k].i = 1
    \/ pc \in {"length", "handle"} /\ got.type = "PINGRESP"

\* No two exactly-once messages of the client have one identifier: none was given
\* up, or the identifiers have not come round yet.
IdsApart == "PUBCOMP" \notin gaveUp \/ calls <= MaxId

\* The client acknowledges what the broker waits to have acknowledged, once, and
\* never otherwise: the exchanges of quality of service 1 and 2 are in step.
AcksAwaited ==
  Sound => \A k \in 1 .. Len(up) :
    up[k].type \in {"PUBACK", "PUBREC", "PUBCOMP"} \/ (up[k].type = "PUBREL" /\ IdsApart) =>
      /\ <<up[k].type, up[k].id>> \in awaits
      /\ \A j \in 1 .. k - 1 : <<up[j].type, up[j].id>> # <<up[k].type, up[k].id>>

\* A call ends with the answer to its own packet, unless an earlier call on this
\* connection stopped waiting for an answer of that type.
AckIsOurs ==
  Sound /\ done # NoPacket /\ Want[call.op] \notin gaveUp =>
    done.type = Want[call.op] /\ done.id = call.id

\* A message of the broker finds a handler, unless the subscribe of its topic
\* left none or an unsubscribe was given up.
MessageHandled ==
  Sound /\ pc = "handle" /\ whole /\ got.type = "PUBLISH" =>
    \/ \E k \in Slots : handlers[k] = got.topic
    \/ got.topic \in missed \/ "UNSUBACK" \in gaveUp

\* Every call returns, whatever the broker and the network do.
CallReturns == pc # "idle" ~> pc = "idle"
=============================================================================
