-------------------------- MODULE MqttClientProofs --------------------------
(***************************************************************************)
(* Proofs about MqttClient, for every set of topics, every length of the   *)
(* packets, and any number of calls, handlers and identifiers.             *)
(*                                                                         *)
(* IInv, the types and where the client is in the packets on the wire,     *)
(* gives InSync and PingNotForgotten.  What is under way in both           *)
(* directions is then taken as one function from places to packets, and    *)
(* every step as a flow of packets between places (Flows).  On that        *)
(* LineInv says whose packet each is: at most one answers the call that    *)
(* runs, and each exchange of a message is in one place; it gives          *)
(* AcksAwaited and AckIsOurs.  HandInv says that what is under way about a *)
(* topic has a handler, or will have one in time; it gives MessageHandled. *)
(***************************************************************************)
EXTENDS MqttClient, SequenceTheorems, TLAPS, FiniteSetTheorems

Tops == Topics \cup {NoTopic}

\* TypeOK by its parts, and with it what a subscribe is about.
NetOK ==
  /\ link \in {"closed", "up", "broken"}
  /\ up \in Seq(Packets(Sent))
  /\ wire \in Seq(AllCells) /\ avail \in 0 .. Len(wire)
  /\ \A k \in 1 .. Len(up) : up[k].type = "SUBSCRIBE" => up[k].topic \in Topics
BrokerOK ==
  /\ session \in BOOLEAN /\ granted \subseteq Topics /\ pubs \in 0 .. MaxPubs
  /\ awaits \subseteq {"PUBACK", "PUBREC", "PUBREL", "PUBCOMP"} \X Nat
ClientOK ==
  /\ isconnected \in BOOLEAN /\ next_packetid \in 0 .. MaxId
  /\ handlers \in [Slots -> Tops]
  /\ ping_outstanding \in BOOLEAN /\ due \in BOOLEAN /\ dues \in 0 .. MaxDue
  /\ remain_pktfrag_len \in Nat
CallOK ==
  /\ pc \in Pcs /\ late \in BOOLEAN
  /\ call \in [op : DOMAIN Want, id : 0 .. MaxId, topic : Tops]
  /\ call.op = "subscribe" => call.topic \in Topics
  /\ calls \in 0 .. MaxCalls
ReadOK ==
  /\ got \in Packets(Inbound) \cup {NoPacket} /\ whole \in BOOLEAN
HistoryOK ==
  /\ torn \in BOOLEAN /\ carried \in BOOLEAN
  /\ gaveUp \subseteq Inbound \cup {"nothing"} /\ missed \subseteq Topics
  /\ done \in Packets(Inbound) \cup {NoPacket}

TypeInv == NetOK /\ BrokerOK /\ ClientOK /\ CallOK /\ ReadOK /\ HistoryOK

\* While the connection stands, packets lie whole on the wire, one after the
\* other.
WholePackets(w) ==
  \A k \in 1 .. Len(w) : w[k].i = 1 =>
    LET n == Body[w[k].p.type] IN
      /\ k + 1 + n <= Len(w)
      /\ \A j \in 1 .. 1 + n : w[k + j].i = 1 + j
      /\ k + 2 + n <= Len(w) => w[k + 2 + n].i = 1

\* What is still to be read of the packet that was begun.
Left == CASE pc = "length" -> 1 + rem_len
          [] pc = "body"   -> rem_len
          [] OTHER         -> remain_pktfrag_len

\* The client knows where the next packet begins.
Placed ==
  /\ pc \in {"type", "length", "body"} => remain_pktfrag_len = 0
  /\ pc \in {"length", "body"} => got # NoPacket
  /\ Left <= Len(wire)
  /\ \A j \in 1 .. Left : wire[j].i # 1
  /\ Left < Len(wire) => wire[Left + 1].i = 1

SyncInv == /\ link = "up" => WholePackets(wire)
           /\ Sound => Placed

IInv == TypeInv /\ SyncInv

\* What of the assumptions the proofs use.
LEMMA Constants ==
  /\ Body \in [Inbound -> Nat] /\ "PINGRESP" \in Inbound /\ Body["PINGRESP"] = 0
  /\ MaxId \in Nat \ {0} /\ MaxCalls \in Nat /\ MaxPubs \in Nat /\ MaxDue \in Nat
BY MqttClientAssumption DEF MqttClientAssumption

-----------------------------------------------------------------------------
(* Packets and cells.                                                      *)

LEMMA CellsFacts ==
  ASSUME NEW p \in Packets(Inbound)
  PROVE  /\ Body[p.type] \in Nat
         /\ Cells(p) \in Seq(AllCells)
         /\ Len(Cells(p)) = 2 + Body[p.type]
         /\ \A i \in 1 .. 2 + Body[p.type] : Cells(p)[i] = [p |-> p, i |-> i]
<1> DEFINE n == 2 + Body[p.type]
<1>1. p.type \in Inbound
  BY DEF Packets
<1>2. n \in Nat /\ Body[p.type] \in Nat
  BY <1>1, Constants
<1>3. \A i \in 1 .. n : [p |-> p, i |-> i] \in AllCells
  BY <1>2 DEF AllCells
<1>4. Cells(p) = [i \in 1 .. n |-> [p |-> p, i |-> i]]
  BY DEF Cells
<1>5. Cells(p) \in Seq(AllCells)
  BY <1>2, <1>3, <1>4, IsASeq
<1>6. Len(Cells(p)) = n
  BY <1>2, <1>4, <1>5, LenProperties
<1>7. QED
  BY <1>2, <1>4, <1>5, <1>6

LEMMA CellFacts ==
  ASSUME NEW w \in Seq(AllCells), NEW k \in 1 .. Len(w)
  PROVE  /\ w[k].p \in Packets(Inbound)
         /\ w[k].p.type \in Inbound
         /\ w[k].i \in Nat \ {0}
         /\ Body[w[k].p.type] \in Nat
<1>1. w[k] \in AllCells
  BY ElementOfSeq
<1>2. w[k].p \in Packets(Inbound) /\ w[k].i \in Nat \ {0}
  BY <1>1 DEF AllCells
<1>3. w[k].p.type \in Inbound
  BY <1>2 DEF Packets
<1>4. QED
  BY <1>2, <1>3, Constants

LEMMA PacketFacts ==
  ASSUME NEW ty, NEW n \in Nat, NEW tp \in Tops, NEW c \in 0 .. 2
  PROVE  /\ ty \in Inbound => Packet(ty, n, tp, c) \in Packets(Inbound)
         /\ ty \in Sent => Packet(ty, n, tp, c) \in Packets(Sent)
BY DEF Packet, Packets, Tops

LEMMA SentFacts ==
  ASSUME NEW ty \in Sent, NEW n \in Nat, NEW tp \in Tops
  PROVE  /\ Packet(ty, n, tp, 0) \in Packets(Sent)
         /\ Packet(ty, n, tp, 0).type = ty /\ Packet(ty, n, tp, 0).topic = tp
BY DEF Packet, Packets, Tops

-----------------------------------------------------------------------------
(* What a read and an answer do to the wire.                               *)

\* The wire without its first n cells.
LEMMA DropFacts ==
  ASSUME NEW w \in Seq(AllCells), NEW n \in 0 .. Len(w)
  PROVE  LET v == SubSeq(w, n + 1, Len(w)) IN
         /\ v \in Seq(AllCells)
         /\ Len(v) = Len(w) - n
         /\ \A i \in 1 .. Len(w) - n : v[i] = w[i + n]
<1> DEFINE v == SubSeq(w, n + 1, Len(w))
<1>1. Len(w) \in Nat
  BY LenProperties
<1>2. \A i \in n + 1 .. Len(w) : w[i] \in AllCells
  BY <1>1, ElementOfSeq
<1>3. /\ v \in Seq(AllCells)
      /\ Len(v) = IF n + 1 <= Len(w) THEN Len(w) - (n + 1) + 1 ELSE 0
      /\ \A i \in 1 .. Len(w) - (n + 1) + 1 : v[i] = w[(n + 1) + i - 1]
  BY <1>1, <1>2, SubSeqProperties
<1>4. \A i \in 1 .. Len(w) - n : v[i] = w[i + n]
  <2> TAKE i \in 1 .. Len(w) - n
  <2>1. v[i] = w[(n + 1) + i - 1]
    BY <1>1, <1>3
  <2>2. (n + 1) + i - 1 = i + n
    BY <1>1
  <2>3. QED
    BY <2>1, <2>2
<1>5. QED
  BY <1>1, <1>3, <1>4

LEMMA DropWhole ==
  ASSUME NEW w \in Seq(AllCells), NEW n \in 0 .. Len(w), WholePackets(w),
         NEW v, v = SubSeq(w, n + 1, Len(w))
  PROVE  WholePackets(v)
<1>1. /\ Len(v) = Len(w) - n /\ Len(w) \in Nat
      /\ \A i \in 1 .. Len(w) - n : v[i] = w[i + n]
  BY DropFacts, LenProperties
<1>2. ASSUME NEW k \in 1 .. Len(v), v[k].i = 1
      PROVE  LET b == Body[v[k].p.type] IN
             /\ k + 1 + b <= Len(v)
             /\ \A j \in 1 .. 1 + b : v[k + j].i = 1 + j
             /\ k + 2 + b <= Len(v) => v[k + 2 + b].i = 1
  <2> DEFINE b == Body[v[k].p.type]
  <2>1. k + n \in 1 .. Len(w) /\ v[k] = w[k + n]
    BY <1>1
  <2>2. b \in Nat
    BY <2>1, CellFacts
  <2>3. /\ (k + n) + 1 + b <= Len(w)
        /\ \A j \in 1 .. 1 + b : w[(k + n) + j].i = 1 + j
        /\ (k + n) + 2 + b <= Len(w) => w[(k + n) + 2 + b].i = 1
    BY <1>2, <2>1 DEF WholePackets
  <2> HIDE DEF b
  <2>4. k + 1 + b <= Len(v)
    BY <1>1, <2>2, <2>3
  <2>5. ASSUME NEW j \in 1 .. 1 + b PROVE v[k + j].i = 1 + j
    <3>1. k + j \in 1 .. Len(w) - n /\ (k + j) + n = (k + n) + j
      BY <1>1, <2>2, <2>4
    <3>2. QED
      BY <1>1, <2>3, <3>1
  <2>6. ASSUME k + 2 + b <= Len(v) PROVE v[k + 2 + b].i = 1
    <3>1. /\ k + 2 + b \in 1 .. Len(w) - n
          /\ (k + 2 + b) + n = (k + n) + 2 + b
          /\ (k + n) + 2 + b <= Len(w)
      BY <1>1, <2>2, <2>6
    <3>2. QED
      BY <1>1, <2>3, <3>1
  <2>7. QED
    BY <2>4, <2>5, <2>6 DEF b
<1>3. QED
  BY <1>2 DEF WholePackets

\* The wire with a packet behind it.
LEMMA AnswerFacts ==
  ASSUME NEW w \in Seq(AllCells), NEW p \in Packets(Inbound)
  PROVE  LET v == w \o Cells(p) IN
         /\ v \in Seq(AllCells)
         /\ Len(w) \in Nat /\ Body[p.type] \in Nat
         /\ Len(v) = Len(w) + 2 + Body[p.type]
         /\ \A i \in 1 .. Len(w) : v[i] = w[i]
         /\ \A i \in 1 .. 2 + Body[p.type] : v[Len(w) + i] = [p |-> p, i |-> i]
<1> DEFINE v == w \o Cells(p)
<1> DEFINE n == 2 + Body[p.type]
<1>1. /\ Cells(p) \in Seq(AllCells) /\ Len(Cells(p)) = n /\ Body[p.type] \in Nat
      /\ \A i \in 1 .. n : Cells(p)[i] = [p |-> p, i |-> i]
  BY CellsFacts
<1>2. Len(w) \in Nat
  BY LenProperties
<1>3. /\ v \in Seq(AllCells) /\ Len(v) = Len(w) + n
      /\ \A i \in 1 .. Len(w) + n :
            v[i] = IF i <= Len(w) THEN w[i] ELSE Cells(p)[i - Len(w)]
  <2> HIDE DEF n, v
  <2>1. /\ w \o Cells(p) \in Seq(AllCells)
        /\ Len(w \o Cells(p)) = Len(w) + Len(Cells(p))
        /\ \A i \in 1 .. Len(w) + Len(Cells(p)) :
              (w \o Cells(p))[i] = IF i <= Len(w) THEN w[i] ELSE Cells(p)[i - Len(w)]
    BY <1>1, ConcatProperties, Zenon
  <2>2. QED
    BY <1>1, <2>1 DEF v
<1> HIDE DEF v
<1> HIDE DEF n
<1>n. n \in Nat
  BY <1>1, LenProperties
<1>4. ASSUME NEW i \in 1 .. Len(w) PROVE v[i] = w[i]
  <2>1. i \in 1 .. Len(w) + n /\ i <= Len(w)
    BY <1>2, <1>n
  <2>2. QED
    BY <1>3, <2>1
<1>5. ASSUME NEW i \in 1 .. n PROVE v[Len(w) + i] = [p |-> p, i |-> i]
  <2>1. Len(w) + i \in 1 .. Len(w) + n /\ ~ (Len(w) + i <= Len(w)) /\ (Len(w) + i) - Len(w) = i
    BY <1>2, <1>n
  <2>2. v[Len(w) + i] = Cells(p)[(Len(w) + i) - Len(w)]
    BY <1>3, <2>1
  <2>3. QED
    BY <1>1, <2>1, <2>2
<1>6. Len(v) = Len(w) + 2 + Body[p.type]
  BY <1>1, <1>2, <1>3 DEF n
<1>7. QED
  BY <1>1, <1>2, <1>3, <1>4, <1>5, <1>6 DEF v, n

LEMMA AnswerWhole ==
  ASSUME NEW w \in Seq(AllCells), NEW p \in Packets(Inbound), WholePackets(w),
         NEW v, v = w \o Cells(p)
  PROVE  WholePackets(v)
<1> DEFINE m == Body[p.type]
<1>1. /\ v \in Seq(AllCells) /\ Len(w) \in Nat /\ m \in Nat
      /\ Len(v) = Len(w) + 2 + m
      /\ \A i \in 1 .. Len(w) : v[i] = w[i]
      /\ \A i \in 1 .. 2 + m : v[Len(w) + i] = [p |-> p, i |-> i]
  BY AnswerFacts
<1>2. ASSUME NEW k \in 1 .. Len(v), v[k].i = 1
      PROVE  LET b == Body[v[k].p.type] IN
             /\ k + 1 + b <= Len(v)
             /\ \A j \in 1 .. 1 + b : v[k + j].i = 1 + j
             /\ k + 2 + b <= Len(v) => v[k + 2 + b].i = 1
  <2> DEFINE b == Body[v[k].p.type]
  <2>1. b \in Nat
    BY <1>1, CellFacts
  <2>2. CASE k \in 1 .. Len(w)
    <3>1. v[k] = w[k]
      BY <1>1, <2>2
    <3>2. /\ k + 1 + b <= Len(w)
          /\ \A j \in 1 .. 1 + b : w[k + j].i = 1 + j
          /\ k + 2 + b <= Len(w) => w[k + 2 + b].i = 1
      BY <1>2, <2>2, <3>1 DEF WholePackets
    <3> HIDE DEF b, m
    <3>3. k + 1 + b <= Len(v)
      BY <1>1, <2>1, <3>2
    <3>4. ASSUME NEW j \in 1 .. 1 + b PROVE v[k + j].i = 1 + j
      <4>1. k + j \in 1 .. Len(w)
        BY <1>1, <2>1, <2>2, <3>2
      <4>2. QED
        BY <1>1, <3>2, <4>1
    <3>5. v[k + 2 + b].i = 1
      <4>1. CASE k + 2 + b <= Len(w)
        <5>1. k + 2 + b \in 1 .. Len(w)
          BY <1>1, <2>1, <2>2, <4>1
        <5>2. QED
          BY <1>1, <3>2, <4>1, <5>1
      <4>2. CASE ~ (k + 2 + b <= Len(w))
        <5>1. k \in Nat /\ b \in Nat /\ Len(w) \in Nat /\ m \in Nat
          BY <1>1, <2>1, <2>2
        <5>2. k + 1 + b <= Len(w)
          BY <3>2
        <5>3. k + 2 + b = Len(w) + 1
          BY ONLY <4>2, <5>1, <5>2
        <5>4. 1 \in 1 .. 2 + m
          BY ONLY <5>1
        <5>5. v[Len(w) + 1] = [p |-> p, i |-> 1]
          BY <1>1, <5>4
        <5>6. v[k + 2 + b] = [p |-> p, i |-> 1]
          BY ONLY <5>3, <5>5
        <5>7. QED
          BY ONLY <5>6
      <4>3. QED
        BY <4>1, <4>2
    <3>6. QED
      BY <3>3, <3>4, <3>5 DEF b
  <2>3. CASE k \notin 1 .. Len(w)
    <3>1. PICK i \in 1 .. 2 + m : k = Len(w) + i
      <4>1. k - Len(w) \in 1 .. 2 + m /\ k = Len(w) + (k - Len(w))
        BY <1>1, <2>3
      <4>2. QED
        BY <4>1
    <3>2. v[k] = [p |-> p, i |-> i]
      BY <1>1, <3>1
    <3>3. i = 1 /\ b = m
      BY <1>2, <3>2
    <3> HIDE DEF b, m
    <3>4. k + 1 + b <= Len(v) /\ ~ (k + 2 + b <= Len(v))
      BY <1>1, <3>1, <3>3
    <3>5. ASSUME NEW j \in 1 .. 1 + b PROVE v[k + j].i = 1 + j
      <4>1. k + j = Len(w) + (1 + j) /\ 1 + j \in 1 .. 2 + m
        BY <1>1, <3>1, <3>3
      <4>2. v[Len(w) + (1 + j)] = [p |-> p, i |-> 1 + j]
        BY <1>1, <4>1
      <4>3. v[k + j] = [p |-> p, i |-> 1 + j]
        BY <4>1, <4>2
      <4>4. QED
        BY <4>3
    <3>6. QED
      BY <3>4, <3>5 DEF b
  <2>4. QED
    BY <2>2, <2>3
<1>3. QED
  BY <1>2 DEF WholePackets

-----------------------------------------------------------------------------
(* Types: what each kind of step does to the connection.                   *)

\* What the broker may take.
UpOK(u) == /\ u \in Seq(Packets(Sent))
           /\ \A k \in 1 .. Len(u) : u[k].type = "SUBSCRIBE" => u[k].topic \in Topics

LEMMA WriteFacts ==
  ASSUME UpOK(up), NEW p \in Packets(Sent), p.type = "SUBSCRIBE" => p.topic \in Topics,
         Written(p)
  PROVE  /\ UpOK(up') /\ link = "up" /\ due' = FALSE
         /\ Len(up') = Len(up) + 1 /\ up'[Len(up) + 1] = p
         /\ \A k \in 1 .. Len(up) : up'[k] = up[k]
<1>1. up \in Seq(Packets(Sent)) /\ Len(up) \in Nat
  BY LenProperties DEF UpOK
<1>2. up' = Append(up, p)
  BY DEF Written
<1>3. /\ up' \in Seq(Packets(Sent)) /\ Len(up') = Len(up) + 1
      /\ \A k \in 1 .. Len(up') : up'[k] = IF k <= Len(up) THEN up[k] ELSE p
  BY <1>1, <1>2, AppendProperties
<1>4. up'[Len(up) + 1] = p
  BY <1>1, <1>3
<1>5. \A k \in 1 .. Len(up) : up'[k] = up[k]
  BY <1>1, <1>3
<1>6. \A k \in 1 .. Len(up') : up'[k].type = "SUBSCRIBE" => up'[k].topic \in Topics
  BY <1>3 DEF UpOK
<1>7. QED
  BY <1>3, <1>4, <1>5, <1>6 DEF UpOK, Written

LEMMA EmptyUp == UpOK(<<>>)
BY EmptySeq DEF UpOK

LEMMA OneUp ==
  ASSUME NEW p \in Packets(Sent), p.type # "SUBSCRIBE"
  PROVE  UpOK(<<p>>)
BY DEF UpOK

LEMMA TailUp ==
  ASSUME UpOK(up), up # <<>>, up' = Tail(up)
  PROVE  /\ UpOK(up') /\ Head(up) \in Packets(Sent) /\ Head(up) = up[1]
         /\ Head(up).type = "SUBSCRIBE" => Head(up).topic \in Topics
         /\ Len(up) \in Nat \ {0} /\ Len(up') = Len(up) - 1
         /\ \A k \in 1 .. Len(up) - 1 : up'[k] = up[k + 1]
<1>1. up \in Seq(Packets(Sent)) /\ Len(up) \in Nat \ {0}
  BY EmptySeq DEF UpOK
<1>2. /\ Head(up) \in Packets(Sent) /\ up' \in Seq(Packets(Sent))
      /\ Len(up') = Len(up) - 1
      /\ \A k \in 1 .. Len(up') : up'[k] = up[k + 1]
  BY <1>1, HeadTailProperties
<1>3. Head(up) = up[1]
  BY <1>1
<1>4. Head(up).type = "SUBSCRIBE" => Head(up).topic \in Topics
  BY <1>1, <1>3 DEF UpOK
<1>5. ASSUME NEW k \in 1 .. Len(up'), up'[k].type = "SUBSCRIBE"
      PROVE  up'[k].topic \in Topics
  <2>1. k + 1 \in 1 .. Len(up)
    BY <1>1, <1>2
  <2>2. QED
    BY <1>2, <1>5, <2>1 DEF UpOK
<1>6. QED
  BY <1>1, <1>2, <1>3, <1>4, <1>5 DEF UpOK

\* A read of n cells that are there.
LEMMA TakeFacts ==
  ASSUME NetOK, NEW n \in 0 .. avail, Take(n)
  PROVE  /\ wire' = SubSeq(wire, n + 1, Len(wire)) /\ n \in 0 .. Len(wire)
         /\ wire' \in Seq(AllCells) /\ avail' \in 0 .. Len(wire')
         /\ Len(wire) \in Nat /\ Len(wire') = Len(wire) - n
         /\ \A i \in 1 .. Len(wire) - n : wire'[i] = wire[i + n]
<1>1. wire \in Seq(AllCells) /\ Len(wire) \in Nat /\ avail \in 0 .. Len(wire)
  BY LenProperties DEF NetOK
<1>2. n \in 0 .. Len(wire)
  BY <1>1
<1>3. wire' = SubSeq(wire, n + 1, Len(wire)) /\ avail' = avail - n
  BY DEF Take
<1>4. /\ wire' \in Seq(AllCells) /\ Len(wire') = Len(wire) - n
      /\ \A i \in 1 .. Len(wire) - n : wire'[i] = wire[i + n]
  BY <1>1, <1>2, <1>3, DropFacts
<1>5. avail' \in 0 .. Len(wire')
  BY <1>1, <1>3, <1>4
<1>6. QED
  BY <1>1, <1>2, <1>3, <1>4, <1>5

\* Every read takes some number of cells that are there.
Reads == DiscardRest \/ DiscardBroken \/ ReadType \/ ReadLength \/ ReadBody

LEMMA RemFacts ==
  ASSUME ReadOK
  PROVE  /\ rem_len \in Nat
         /\ got # NoPacket => got \in Packets(Inbound) /\ rem_len = Body[got.type]
<1>1. ASSUME got # NoPacket PROVE got.type \in Inbound /\ got \in Packets(Inbound)
  BY <1>1 DEF ReadOK, Packets
<1>2. QED
  BY <1>1, Constants DEF rem_len

LEMMA ReadFacts ==
  ASSUME TypeInv, Reads
  PROVE  /\ UNCHANGED <<link, up>>
         /\ \E n \in 0 .. avail : Take(n)
<1>1. avail \in Nat /\ remain_pktfrag_len \in Nat /\ rem_len \in Nat
  BY RemFacts, LenProperties DEF TypeInv, NetOK, ClientOK
<1>2. \A n \in Nat : Whole(n) \/ Short(n) => \E k \in 0 .. avail : Take(k)
  BY <1>1 DEF Whole, Short
<1>3. \E n \in Nat : Whole(n) \/ Short(n)
  BY <1>1 DEF Reads, DiscardRest, DiscardBroken, ReadType, ReadLength, ReadBody
<1>4. UNCHANGED <<link, up>>
  BY DEF Reads, DiscardRest, DiscardBroken, ReadType, ReadLength, ReadBody
<1>5. QED
  BY <1>2, <1>3, <1>4

\* What the broker does with each packet.
LEMMA BrokerCases ==
  ASSUME TypeInv, BrokerTake
  PROVE  LET p        == Head(up)
             Ack(ty)  == Packet(ty, p.id, NoTopic, 0)
             Added(r) == r \in Packets(Inbound) /\ wire' = wire \o Cells(r)
             Kept     == UNCHANGED <<session, granted>>
         IN
         \/ /\ p.type = "CONNECT"
            /\ \E c \in {0, 1} : Added(Packet("CONNACK", 0, NoTopic, c)) /\ session' = (c = 0)
            /\ UNCHANGED <<granted, awaits>>
         \/ /\ p.type = "SUBSCRIBE"
            /\ \E c \in {0, 1} : Added(Packet("SUBACK", p.id, p.topic, c))
            /\ granted' \in {granted, granted \cup {p.topic}}
            /\ UNCHANGED <<session, awaits>>
         \/ /\ p.type = "UNSUBSCRIBE"
            /\ Added(Packet("UNSUBACK", p.id, p.topic, 0))
            /\ granted' = granted \ {p.topic}
            /\ UNCHANGED <<session, awaits>>
         \/ /\ p.type = "PUBLISH"
            /\ \/ p.code = 0 /\ UNCHANGED <<wire, awaits>>
               \/ p.code = 1 /\ Added(Ack("PUBACK")) /\ UNCHANGED awaits
               \/ /\ p.code = 2 /\ Added(Ack("PUBREC"))
                  /\ awaits' = awaits \cup {<<"PUBREL", p.id>>}
            /\ Kept
         \/ /\ p.type = "PUBREL" /\ Added(Ack("PUBCOMP"))
            /\ awaits' = awaits \ {<<"PUBREL", p.id>>} /\ Kept
         \/ /\ p.type = "PUBREC" /\ Added(Ack("PUBREL"))
            /\ awaits' = (awaits \ {<<"PUBREC", p.id>>}) \cup {<<"PUBCOMP", p.id>>} /\ Kept
         \/ /\ p.type \in {"PUBACK", "PUBCOMP"} /\ UNCHANGED wire
            /\ awaits' = awaits \ {<<p.type, p.id>>} /\ Kept
         \/ /\ p.type = "PINGREQ" /\ Added(Plain("PINGRESP"))
            /\ UNCHANGED awaits /\ Kept
<1> DEFINE p == Head(up)
<1>1. /\ up # <<>> /\ up' = Tail(up) /\ link = "up"
      /\ UNCHANGED <<link, avail, pubs>>
  BY DEF BrokerTake
<1>2. UpOK(up)
  BY DEF UpOK, TypeInv, NetOK
<1>3. p \in Packets(Sent) /\ (p.type = "SUBSCRIBE" => p.topic \in Topics)
  BY <1>1, <1>2, TailUp
<1>4. p.id \in Nat /\ p.topic \in Tops /\ p.code \in 0 .. 2 /\ NoTopic \in Tops
  BY <1>3 DEF Packets, Tops
<1> HIDE DEF p
<1>5. \A ty \in Inbound, c \in {0, 1} :
        /\ Packet(ty, p.id, NoTopic, c) \in Packets(Inbound)
        /\ Packet(ty, p.id, p.topic, c) \in Packets(Inbound)
        /\ Packet(ty, 0, NoTopic, c) \in Packets(Inbound)
  <2>1. \A c \in {0, 1} : c \in 0 .. 2
    OBVIOUS
  <2>2. QED
    BY <1>4, <2>1, PacketFacts
<1>6. \A ty \in {"CONNACK", "SUBACK", "UNSUBACK", "PUBACK", "PUBREC", "PUBCOMP", "PUBREL",
                 "PINGRESP"} : ty \in Inbound
  BY MqttClientAssumption DEF MqttClientAssumption
<1> DEFINE Ack(ty) == Packet(ty, p.id, NoTopic, 0)
           Added(r) == r \in Packets(Inbound) /\ wire' = wire \o Cells(r)
           Kept     == UNCHANGED <<session, granted>>
<1>8. \/ /\ p.type = "CONNECT"
         /\ \E c \in {0, 1} : Added(Packet("CONNACK", 0, NoTopic, c)) /\ session' = (c = 0)
         /\ UNCHANGED <<granted, awaits>>
      \/ /\ p.type = "SUBSCRIBE"
         /\ \E c \in {0, 1} : Added(Packet("SUBACK", p.id, p.topic, c))
         /\ granted' \in {granted, granted \cup {p.topic}}
         /\ UNCHANGED <<session, awaits>>
      \/ /\ p.type = "UNSUBSCRIBE"
         /\ Added(Packet("UNSUBACK", p.id, p.topic, 0))
         /\ granted' = granted \ {p.topic}
         /\ UNCHANGED <<session, awaits>>
      \/ /\ p.type = "PUBLISH"
         /\ \/ p.code = 0 /\ UNCHANGED <<wire, awaits>>
            \/ p.code = 1 /\ Added(Ack("PUBACK")) /\ UNCHANGED awaits
            \/ /\ p.code = 2 /\ Added(Ack("PUBREC"))
               /\ awaits' = awaits \cup {<<"PUBREL", p.id>>}
         /\ Kept
      \/ /\ p.type = "PUBREL" /\ Added(Ack("PUBCOMP"))
         /\ awaits' = awaits \ {<<"PUBREL", p.id>>} /\ Kept
      \/ /\ p.type = "PUBREC" /\ Added(Ack("PUBREL"))
         /\ awaits' = (awaits \ {<<"PUBREC", p.id>>}) \cup {<<"PUBCOMP", p.id>>} /\ Kept
      \/ /\ p.type \in {"PUBACK", "PUBCOMP"} /\ UNCHANGED wire
         /\ awaits' = awaits \ {<<p.type, p.id>>} /\ Kept
      \/ /\ p.type = "PINGREQ" /\ Added(Plain("PINGRESP"))
         /\ UNCHANGED awaits /\ Kept
  <2>1. CASE p.type = "CONNECT"
    BY <1>5, <1>6, <2>1 DEF BrokerTake, Answers, p
  <2>2. CASE p.type = "SUBSCRIBE"
    BY <1>5, <1>6, <2>2 DEF BrokerTake, Answers, p
  <2>3. CASE p.type = "UNSUBSCRIBE"
    BY <1>5, <1>6, <2>3 DEF BrokerTake, Answers, p
  <2>4. CASE p.type = "PUBLISH"
    <3>1. /\ CASE p.code = 0 -> UNCHANGED wire /\ UNCHANGED <<session, granted, awaits>>
               [] p.code = 1 -> /\ wire' = wire \o Cells(Ack("PUBACK"))
                                /\ UNCHANGED <<session, granted, awaits>>
               [] p.code = 2 -> /\ wire' = wire \o Cells(Ack("PUBREC"))
                                /\ awaits' = awaits \cup {<<"PUBREL", p.id>>}
                                /\ UNCHANGED <<session, granted>>
      BY <2>4 DEF BrokerTake, Answers, p
    <3>2. p.code = 0 \/ p.code = 1 \/ p.code = 2
      BY <1>4
    <3>3. Ack("PUBACK") \in Packets(Inbound) /\ Ack("PUBREC") \in Packets(Inbound)
      BY <1>5, <1>6
    <3> HIDE DEF Ack
    <3>4. \/ p.code = 0 /\ UNCHANGED <<wire, awaits, session, granted>>
          \/ p.code = 1 /\ Added(Ack("PUBACK")) /\ UNCHANGED <<awaits, session, granted>>
          \/ /\ p.code = 2
             /\ Added(Ack("PUBREC")) /\ awaits' = awaits \cup {<<"PUBREL", p.id>>}
             /\ UNCHANGED <<session, granted>>
      BY <3>1, <3>2, <3>3
    <3>5. QED
      BY <2>4, <3>4
  <2>5. CASE p.type = "PUBREL"
    BY <1>5, <1>6, <2>5 DEF BrokerTake, Answers, p
  <2>6. CASE p.type = "PUBREC"
    BY <1>5, <1>6, <2>6 DEF BrokerTake, Answers, p
  <2>7. CASE p.type \in {"PUBACK", "PUBCOMP"}
    BY <2>7 DEF BrokerTake, Answers, p
  <2>8. CASE p.type = "PINGREQ"
    BY <1>5, <1>6, <2>8 DEF BrokerTake, Answers, p, Plain
  <2>9. QED
    BY <2>1, <2>2, <2>3, <2>4, <2>5, <2>6, <2>7, <2>8 DEF BrokerTake, p
<1>9. QED
  BY <1>8 DEF p

\* What the broker does with a packet.
LEMMA BrokerFacts ==
  ASSUME TypeInv, BrokerTake
  PROVE  /\ \/ wire' = wire
            \/ \E p \in Packets(Inbound) : wire' = wire \o Cells(p)
         /\ up # <<>> /\ up' = Tail(up) /\ link = "up" /\ UNCHANGED <<link, avail>>
         /\ Head(up).type = "PINGREQ" =>
              Plain("PINGRESP") \in Packets(Inbound) /\ wire' = wire \o Cells(Plain("PINGRESP"))
         /\ BrokerOK'
<1> DEFINE p == Head(up)
           Ack(ty) == Packet(ty, p.id, NoTopic, 0)
           Added(r) == r \in Packets(Inbound) /\ wire' = wire \o Cells(r)
           Kept     == UNCHANGED <<session, granted>>
<1>1. /\ up # <<>> /\ up' = Tail(up) /\ link = "up"
      /\ UNCHANGED <<link, avail, pubs>>
  BY DEF BrokerTake
<1>2. UpOK(up)
  BY DEF UpOK, TypeInv, NetOK
<1>3. p \in Packets(Sent) /\ (p.type = "SUBSCRIBE" => p.topic \in Topics)
  BY <1>1, <1>2, TailUp
<1>4. p.id \in Nat
  BY <1>3 DEF Packets
<1>7. BrokerOK
  BY DEF TypeInv
<1>8. \/ /\ p.type = "CONNECT"
         /\ \E c \in {0, 1} : Added(Packet("CONNACK", 0, NoTopic, c)) /\ session' = (c = 0)
         /\ UNCHANGED <<granted, awaits>>
      \/ /\ p.type = "SUBSCRIBE"
         /\ \E c \in {0, 1} : Added(Packet("SUBACK", p.id, p.topic, c))
         /\ granted' \in {granted, granted \cup {p.topic}}
         /\ UNCHANGED <<session, awaits>>
      \/ /\ p.type = "UNSUBSCRIBE"
         /\ Added(Packet("UNSUBACK", p.id, p.topic, 0))
         /\ granted' = granted \ {p.topic}
         /\ UNCHANGED <<session, awaits>>
      \/ /\ p.type = "PUBLISH"
         /\ \/ p.code = 0 /\ UNCHANGED <<wire, awaits>>
            \/ p.code = 1 /\ Added(Ack("PUBACK")) /\ UNCHANGED awaits
            \/ /\ p.code = 2 /\ Added(Ack("PUBREC"))
               /\ awaits' = awaits \cup {<<"PUBREL", p.id>>}
         /\ Kept
      \/ /\ p.type = "PUBREL" /\ Added(Ack("PUBCOMP"))
         /\ awaits' = awaits \ {<<"PUBREL", p.id>>} /\ Kept
      \/ /\ p.type = "PUBREC" /\ Added(Ack("PUBREL"))
         /\ awaits' = (awaits \ {<<"PUBREC", p.id>>}) \cup {<<"PUBCOMP", p.id>>} /\ Kept
      \/ /\ p.type \in {"PUBACK", "PUBCOMP"} /\ UNCHANGED wire
         /\ awaits' = awaits \ {<<p.type, p.id>>} /\ Kept
      \/ /\ p.type = "PINGREQ" /\ Added(Plain("PINGRESP"))
         /\ UNCHANGED awaits /\ Kept
  BY BrokerCases
<1> HIDE DEF p, Ack
<1>9. wire' = wire \/ \E r \in Packets(Inbound) : wire' = wire \o Cells(r)
  BY <1>8
<1>10. p.type = "PINGREQ" =>
         Plain("PINGRESP") \in Packets(Inbound) /\ wire' = wire \o Cells(Plain("PINGRESP"))
  BY <1>8
<1>11. session' \in BOOLEAN /\ pubs' \in 0 .. MaxPubs
  BY <1>1, <1>7, <1>8 DEF BrokerOK
<1>12. granted' \subseteq Topics
  BY <1>3, <1>7, <1>8 DEF BrokerOK
<1>13. awaits' \subseteq {"PUBACK", "PUBREC", "PUBREL", "PUBCOMP"} \X Nat
  BY <1>4, <1>7, <1>8 DEF BrokerOK
<1>14. QED
  BY <1>1, <1>9, <1>10, <1>11, <1>12, <1>13 DEF BrokerOK, p

Calls    == [op : DOMAIN Want, id : 0 .. MaxId, topic : Tops]
Requests == MQTTSubscribe \/ MQTTUnsubscribe \/ MQTTPublish

LEMMA NextIdFacts == ASSUME ClientOK PROVE NextId \in 0 .. MaxId
BY Constants DEF ClientOK, NextId

LEMMA CallFacts ==
  ASSUME NEW op \in DOMAIN Want, NEW n \in 0 .. MaxId, NEW tp \in Tops
  PROVE  Call(op, n, tp) \in Calls
BY DEF Call, Calls

\* A request writes a packet or none, and changes no more than the call.
LEMMA RequestFacts ==
  ASSUME TypeInv, Requests
  PROVE  /\ \/ UNCHANGED <<up, due>>
            \/ \E p \in Packets(Sent) : /\ p.type = "SUBSCRIBE" => p.topic \in Topics
                                        /\ Written(p)
         /\ UNCHANGED <<link, wire, avail, broker, isconnected, handlers, ping_outstanding,
                        dues, remain_pktfrag_len, reading, torn, carried, gaveUp, missed>>
         /\ pc = "idle" /\ pc' \in {"idle", "loop"}
         /\ calls < MaxCalls /\ calls' = calls + 1 /\ late' = FALSE /\ done' = NoPacket
         /\ call' \in Calls /\ (call'.op = "subscribe" => call'.topic \in Topics)
         /\ next_packetid' \in 0 .. MaxId
<1> DEFINE P == /\ \/ UNCHANGED <<up, due>>
                   \/ \E p \in Packets(Sent) : /\ p.type = "SUBSCRIBE" => p.topic \in Topics
                                               /\ Written(p)
                /\ UNCHANGED <<link, wire, avail, broker, isconnected, handlers,
                               ping_outstanding, dues, remain_pktfrag_len, reading, torn,
                               carried, gaveUp, missed>>
                /\ pc = "idle" /\ pc' \in {"idle", "loop"}
                /\ calls < MaxCalls /\ calls' = calls + 1 /\ late' = FALSE /\ done' = NoPacket
                /\ call' \in Calls /\ (call'.op = "subscribe" => call'.topic \in Topics)
<1>1. NextId \in 0 .. MaxId /\ next_packetid \in 0 .. MaxId
  BY NextIdFacts DEF TypeInv, ClientOK
<1>2. ASSUME NEW op \in DOMAIN Want, NEW n \in 0 .. MaxId, NEW tp \in Tops,
             NEW p \in Packets(Sent), p.type = "SUBSCRIBE" => p.topic \in Topics,
             op = "subscribe" => tp \in Topics, Request(op, n, tp, p)
      PROVE  P
  <2>1. call' = Call(op, n, tp)
    BY <1>2 DEF Request, Begin
  <2>2. call' \in Calls /\ (call'.op = "subscribe" => call'.topic \in Topics)
    BY <1>2, <2>1, CallFacts DEF Call
  <2>3. UNCHANGED <<up, due>> \/ Written(p)
    BY <1>2 DEF Request, NotWritten
  <2>4. /\ UNCHANGED <<link, wire, avail, broker, isconnected, handlers, ping_outstanding,
                       dues, remain_pktfrag_len, reading, torn, carried, gaveUp, missed>>
        /\ pc = "idle" /\ pc' \in {"idle", "loop"}
        /\ calls < MaxCalls /\ calls' = calls + 1 /\ late' = FALSE /\ done' = NoPacket
    BY <1>2 DEF Request, Begin
  <2>5. QED
    BY <1>2, <2>2, <2>3, <2>4
<1>3. "subscribe" \in DOMAIN Want /\ "unsubscribe" \in DOMAIN Want
      /\ \A op \in {"publish0", "publish1", "publish2"} : op \in DOMAIN Want
  BY DEF Want
<1>4. "SUBSCRIBE" \in Sent /\ "UNSUBSCRIBE" \in Sent /\ "PUBLISH" \in Sent
  BY DEF Sent
<1>5. \A n \in 0 .. MaxId : n \in Nat
  BY Constants
<1>6. CASE MQTTSubscribe
  <2>1. PICK tp \in Topics :
          /\ Request("subscribe", NextId, tp, Packet("SUBSCRIBE", NextId, tp, 0))
          /\ next_packetid' = NextId
    BY <1>6 DEF MQTTSubscribe
  <2>2. tp \in Tops /\ Packet("SUBSCRIBE", NextId, tp, 0) \in Packets(Sent)
    BY <1>1, <1>4, <1>5, SentFacts DEF Tops
  <2>3. Packet("SUBSCRIBE", NextId, tp, 0).topic = tp
    BY DEF Packet
  <2> HIDE DEF P
  <2>4. P
    BY <1>1, <1>2, <1>3, <2>1, <2>2, <2>3
  <2>5. QED
    BY <1>1, <2>1, <2>4 DEF P
<1>7. CASE MQTTUnsubscribe
  <2>1. PICK tp \in Topics :
          /\ Request("unsubscribe", NextId, tp, Packet("UNSUBSCRIBE", NextId, tp, 0))
          /\ next_packetid' = NextId
    BY <1>7 DEF MQTTUnsubscribe
  <2>2. tp \in Tops /\ Packet("UNSUBSCRIBE", NextId, tp, 0) \in Packets(Sent)
    BY <1>1, <1>4, <1>5, SentFacts DEF Tops
  <2>3. Packet("UNSUBSCRIBE", NextId, tp, 0).type # "SUBSCRIBE"
    BY DEF Packet
  <2> HIDE DEF P
  <2>4. P
    BY <1>1, <1>2, <1>3, <2>1, <2>2, <2>3
  <2>5. QED
    BY <1>1, <2>1, <2>4 DEF P
<1>8. CASE MQTTPublish
  <2>1. PICK q \in 0 .. 2 :
          LET n == IF q = 0 THEN next_packetid ELSE NextId
              op == CASE q = 0 -> "publish0" [] q = 1 -> "publish1" [] q = 2 -> "publish2"
          IN /\ Request(op, n, NoTopic, Packet("PUBLISH", n, NoTopic, q))
             /\ next_packetid' = n
    BY <1>8 DEF MQTTPublish
  <2> DEFINE n == IF q = 0 THEN next_packetid ELSE NextId
             op == CASE q = 0 -> "publish0" [] q = 1 -> "publish1" [] q = 2 -> "publish2"
  <2>2. n \in 0 .. MaxId /\ op \in {"publish0", "publish1", "publish2"}
    BY <1>1
  <2>3. /\ Request(op, n, NoTopic, Packet("PUBLISH", n, NoTopic, q))
        /\ next_packetid' = n
    BY <2>1
  <2> HIDE DEF n, op
  <2>4. NoTopic \in Tops /\ Packet("PUBLISH", n, NoTopic, q) \in Packets(Sent)
    BY <1>4, <1>5, <2>2, PacketFacts DEF Tops
  <2>5. Packet("PUBLISH", n, NoTopic, q).type # "SUBSCRIBE"
    BY DEF Packet
  <2> HIDE DEF P
  <2>6. P
    BY <1>2, <1>3, <2>2, <2>3, <2>4, <2>5
  <2>7. QED
    BY <2>2, <2>3, <2>6 DEF P
<1>9. QED
  BY <1>6, <1>7, <1>8 DEF Requests

\* The answer to a message.
Acks == {"PUBACK", "PUBREC", "PUBREL", "PUBCOMP"}

LEMMA AckFacts ==
  ASSUME TypeInv, HandlePublish \/ HandlePubrec
  PROVE  /\ \/ UNCHANGED <<up, due>>
            \/ \E p \in Packets(Sent) : p.type \in Acks /\ Written(p)
         /\ UNCHANGED <<link, wire, avail, broker, client, ping_outstanding, dues,
                        remain_pktfrag_len, call, late, calls, history>>
         /\ pc = "handle" /\ got.type \in {"PUBLISH", "PUBREC", "PUBREL"}
         /\ \/ pc' = "keepalive" /\ UNCHANGED reading
            \/ pc' \in {"idle", "loop"} /\ got' = NoPacket /\ whole' = FALSE
<1>1. got \in Packets(Inbound) \cup {NoPacket} /\ NoPacket.type = "none"
  BY DEF TypeInv, ReadOK, NoPacket, Plain, Packet
<1>2. ASSUME NEW ty \in Acks, Answer(ty), got # NoPacket
      PROVE  /\ \/ UNCHANGED <<up, due>>
                \/ \E p \in Packets(Sent) : p.type \in Acks /\ Written(p)
             /\ \/ pc' = "keepalive" /\ UNCHANGED reading
                \/ pc' \in {"idle", "loop"} /\ got' = NoPacket /\ whole' = FALSE
  <2>1. got.id \in Nat
    BY <1>1, <1>2 DEF Packets
  <2>2. \A n \in IF whole THEN {got.id} ELSE 0 .. MaxId : n \in Nat
    BY <2>1, Constants
  <2>3. NoTopic \in Tops /\ ty \in Sent
    BY <1>2 DEF Tops, Acks, Sent
  <2>4. \A n \in Nat : /\ Packet(ty, n, NoTopic, 0) \in Packets(Sent)
                       /\ Packet(ty, n, NoTopic, 0).type = ty
    BY <2>3, SentFacts
  <2>5. CASE \E n \in IF whole THEN {got.id} ELSE 0 .. MaxId : Written(Packet(ty, n, NoTopic, 0))
    BY <1>2, <2>2, <2>4, <2>5 DEF Answer, GoOn, EndCycle, NotWritten
  <2>6. CASE NotWritten
    BY <1>2, <2>6 DEF Answer, GoOn, EndCycle, NotWritten
  <2>7. QED
    BY <1>2, <2>5, <2>6 DEF Answer
<1>3. CASE HandlePublish
  <2>1. /\ pc = "handle" /\ got.type = "PUBLISH"
        /\ UNCHANGED <<link, wire, avail, broker, client, ping_outstanding, dues,
                       remain_pktfrag_len, call, late, calls, history>>
    BY <1>3 DEF HandlePublish
  <2>2. got # NoPacket /\ got.code \in 0 .. 2
    BY <1>1, <2>1 DEF Packets
  <2>3. CASE got.code = 0
    BY <1>3, <2>1, <2>3 DEF HandlePublish, NotWritten, GoOn
  <2>4. CASE got.code # 0
    <3>1. Reply.PUBLISH[got.code + 1] \in Acks
      BY <2>2, <2>4 DEF Reply, Acks
    <3>2. Answer(Reply.PUBLISH[got.code + 1])
      BY <1>3, <2>4 DEF HandlePublish
    <3>3. QED
      BY <1>2, <2>1, <2>2, <3>1, <3>2
  <2>5. QED
    BY <2>3, <2>4
<1>4. CASE HandlePubrec
  <2>1. /\ pc = "handle" /\ got.type \in {"PUBREC", "PUBREL"} /\ Answer(Reply[got.type])
        /\ UNCHANGED <<link, wire, avail, broker, client, ping_outstanding, dues,
                       remain_pktfrag_len, call, late, calls, history>>
    BY <1>4 DEF HandlePubrec
  <2>2. got # NoPacket
    BY <1>1, <2>1
  <2>3. Reply[got.type] \in Acks
    BY <2>1 DEF Reply, Acks
  <2>4. QED
    BY <1>2, <2>1, <2>2, <2>3
<1>5. QED
  BY <1>3, <1>4

LEMMA KeepaliveFacts ==
  ASSUME TypeInv, Keepalive
  PROVE  /\ \/ UNCHANGED <<up, due, ping_outstanding>>
            \/ /\ Plain("PINGREQ") \in Packets(Sent) /\ Plain("PINGREQ").type = "PINGREQ"
               /\ Written(Plain("PINGREQ")) /\ ping_outstanding' = TRUE
         /\ UNCHANGED <<link, wire, avail, broker, client, dues, remain_pktfrag_len, call,
                        late, calls, history>>
         /\ pc = "keepalive"
         /\ \/ pc' = "answer" /\ UNCHANGED reading /\ got.type = Want[call.op]
            \/ pc' = "loop" /\ got' = NoPacket /\ whole' = FALSE
<1>1. Plain("PINGREQ") \in Packets(Sent) /\ Plain("PINGREQ").type = "PINGREQ"
  <2>1. "PINGREQ" \in Sent /\ NoTopic \in Tops
    BY DEF Sent, Tops
  <2>2. QED
    BY <2>1, SentFacts DEF Plain
<1>2. \/ UNCHANGED <<up, due, ping_outstanding>>
      \/ Written(Plain("PINGREQ")) /\ ping_outstanding' = TRUE
  BY DEF Keepalive, NotWritten
<1>3. \/ pc' = "answer" /\ UNCHANGED reading /\ got.type = Want[call.op]
      \/ pc' = "loop" /\ got' = NoPacket /\ whole' = FALSE
  BY DEF Keepalive, GoOn, EndCycle
<1>4. /\ UNCHANGED <<link, wire, avail, broker, client, dues, remain_pktfrag_len, call,
                     late, calls, history>>
      /\ pc = "keepalive"
  BY DEF Keepalive
<1>5. QED
  BY <1>1, <1>2, <1>3, <1>4

LEMMA PublishFacts ==
  ASSUME TypeInv, BrokerPublish
  PROVE  /\ \E p \in Packets(Inbound) : wire' = wire \o Cells(p)
         /\ UNCHANGED <<link, up, avail>>
         /\ BrokerOK'
<1>1. PICK tp \in granted, q \in 0 .. 2 :
        /\ wire' = wire \o Cells(Packet("PUBLISH", pubs + 1, tp, q))
        /\ awaits' = CASE q = 0 -> awaits
                       [] q = 1 -> awaits \cup {<<"PUBACK", pubs + 1>>}
                       [] q = 2 -> awaits \cup {<<"PUBREC", pubs + 1>>}
  BY DEF BrokerPublish, Answers
<1>2. /\ UNCHANGED <<link, up, avail, session, granted>>
      /\ pubs < MaxPubs /\ pubs' = pubs + 1
  BY DEF BrokerPublish
<1>3. /\ session \in BOOLEAN /\ granted \subseteq Topics /\ pubs \in 0 .. MaxPubs
      /\ awaits \subseteq {"PUBACK", "PUBREC", "PUBREL", "PUBCOMP"} \X Nat
  BY DEF TypeInv, BrokerOK
<1>4. pubs + 1 \in Nat /\ pubs' \in 0 .. MaxPubs
  BY <1>2, <1>3, Constants
<1>5. "PUBLISH" \in Inbound /\ tp \in Tops
  BY <1>1, <1>3, MqttClientAssumption DEF MqttClientAssumption, Tops
<1>6. Packet("PUBLISH", pubs + 1, tp, q) \in Packets(Inbound)
  BY <1>4, <1>5, PacketFacts
<1>7. awaits' \subseteq {"PUBACK", "PUBREC", "PUBREL", "PUBCOMP"} \X Nat
  <2>1. q = 0 \/ q = 1 \/ q = 2
    OBVIOUS
  <2>2. \/ awaits' = awaits
        \/ awaits' = awaits \cup {<<"PUBACK", pubs + 1>>}
        \/ awaits' = awaits \cup {<<"PUBREC", pubs + 1>>}
    BY <1>1, <2>1
  <2>3. QED
    BY <1>3, <1>4, <2>2
<1>8. QED
  BY <1>1, <1>2, <1>3, <1>4, <1>6, <1>7 DEF BrokerOK

\* The steps that leave the connection as it is.
Apart == \/ PingDue \/ Expire \/ MQTTYield \/ LoopEnd \/ LoopOn \/ DiscardLate \/ DiscardEnd
         \/ HandleOther \/ CallEnd

LEMMA NextCases ==
  Next => \/ Arrive \/ Break \/ BrokerTake \/ BrokerPublish \/ MQTTConnect \/ Close
          \/ Requests \/ HandlePublish \/ HandlePubrec \/ Keepalive \/ Reads \/ Apart
BY DEF Next, Environment, Caller, Cycle, Requests, Reads, Apart

LEMMA ApartFacts == ASSUME Apart PROVE UNCHANGED <<net, broker>>
<1> USE DEF net
<1>1. CASE PingDue \/ Expire
  BY <1>1 DEF PingDue, Expire
<1>2. CASE MQTTYield \/ LoopEnd \/ LoopOn
  BY <1>2 DEF MQTTYield, LoopEnd, LoopOn
<1>3. CASE DiscardLate \/ DiscardEnd
  BY <1>3 DEF DiscardLate, DiscardEnd
<1>4. CASE HandleOther \/ CallEnd
  BY <1>4 DEF HandleOther, CallEnd
<1>5. QED
  BY <1>1, <1>2, <1>3, <1>4 DEF Apart

-----------------------------------------------------------------------------
(* Every part of the type invariant is kept.                               *)

LEMMA NetStep ==
  ASSUME TypeInv, Next
  PROVE  NetOK'
<1>1. /\ link \in {"closed", "up", "broken"} /\ wire \in Seq(AllCells)
      /\ avail \in 0 .. Len(wire) /\ Len(wire) \in Nat
  BY LenProperties DEF TypeInv, NetOK
<1>2. UpOK(up)
  BY DEF TypeInv, NetOK, UpOK
<1>3. ASSUME link' \in {"closed", "up", "broken"}, wire' \in Seq(AllCells),
             avail' \in 0 .. Len(wire'), UpOK(up')
      PROVE  NetOK'
  BY <1>3 DEF NetOK, UpOK
<1>4. ASSUME NEW p \in Packets(Inbound), wire' = wire \o Cells(p), avail' = avail
      PROVE  wire' \in Seq(AllCells) /\ avail' \in 0 .. Len(wire')
  BY <1>1, <1>4, AnswerFacts
<1>5. \A p \in Packets(Sent) :
        (p.type = "SUBSCRIBE" => p.topic \in Topics) /\ Written(p) => UpOK(up')
  BY <1>2, WriteFacts
<1>6. CASE Arrive
  BY <1>1, <1>2, <1>3, <1>6 DEF Arrive
<1>7. CASE Break
  <2>1. /\ link' = "broken" /\ up' = <<>> /\ wire' = SubSeq(wire, 1, avail)
        /\ avail' = avail
    BY <1>7 DEF Break
  <2>2. \A i \in 1 .. avail : wire[i] \in AllCells
    BY <1>1, ElementOfSeq
  <2>3. /\ wire' \in Seq(AllCells)
        /\ Len(wire') = IF 1 <= avail THEN avail - 1 + 1 ELSE 0
    BY <1>1, <2>1, <2>2, SubSeqProperties
  <2>4. avail' \in 0 .. Len(wire')
    BY <1>1, <2>1, <2>3
  <2>5. QED
    BY <1>3, <2>1, <2>3, <2>4, EmptyUp
<1>8. CASE BrokerTake
  <2>1. UpOK(up') /\ UNCHANGED <<link, avail>>
    BY <1>2, <1>8, BrokerFacts, TailUp
  <2>2. wire' \in Seq(AllCells) /\ avail' \in 0 .. Len(wire')
    BY <1>1, <1>4, <1>8, <2>1, BrokerFacts
  <2>3. QED
    BY <1>1, <1>3, <2>1, <2>2
<1>9. CASE BrokerPublish
  <2>1. wire' \in Seq(AllCells) /\ avail' \in 0 .. Len(wire')
    BY <1>4, <1>9, PublishFacts
  <2>2. UNCHANGED <<link, up>>
    BY <1>9, PublishFacts
  <2>3. QED
    BY <1>1, <1>2, <1>3, <2>1, <2>2
<1>10. CASE MQTTConnect
  <2>1. /\ link' = "up" /\ wire' = <<>> /\ avail' = 0
        /\ up' = <<>> \/ up' = <<Plain("CONNECT")>>
    BY <1>10 DEF MQTTConnect
  <2>2. UpOK(<<Plain("CONNECT")>>)
    <3>1. "CONNECT" \in Sent /\ NoTopic \in Tops
      BY DEF Sent, Tops
    <3>2. Plain("CONNECT") \in Packets(Sent) /\ Plain("CONNECT").type # "SUBSCRIBE"
      BY <3>1, SentFacts DEF Plain
    <3>3. QED
      BY <3>2, OneUp
  <2>3. wire' \in Seq(AllCells) /\ avail' \in 0 .. Len(wire')
    BY <2>1, EmptySeq
  <2>4. QED
    BY <1>3, <2>1, <2>2, <2>3, EmptyUp
<1>11. CASE Close
  <2>1. link' = "closed" /\ up' = <<>> /\ wire' = <<>> /\ avail' = 0
    BY <1>11 DEF Close
  <2>2. QED
    BY <1>3, <2>1, EmptyUp, EmptySeq
<1>12. CASE Requests
  <2>1. UNCHANGED <<link, wire, avail>> /\ UpOK(up')
    BY <1>2, <1>5, <1>12, RequestFacts
  <2>2. QED
    BY <1>1, <1>3, <2>1
<1>13. CASE HandlePublish \/ HandlePubrec
  <2>1. UNCHANGED <<link, wire, avail>>
    BY <1>13, AckFacts
  <2>2. UpOK(up')
    BY <1>2, <1>5, <1>13, AckFacts DEF Acks
  <2>3. QED
    BY <1>1, <1>3, <2>1, <2>2
<1>14. CASE Keepalive
  <2>1. UNCHANGED <<link, wire, avail>>
    BY <1>14, KeepaliveFacts
  <2>2. UpOK(up')
    BY <1>2, <1>5, <1>14, KeepaliveFacts
  <2>3. QED
    BY <1>1, <1>3, <2>1, <2>2
<1>15. CASE Reads
  <2>1. UNCHANGED <<link, up>> /\ \E n \in 0 .. avail : Take(n)
    BY <1>15, ReadFacts
  <2>2. wire' \in Seq(AllCells) /\ avail' \in 0 .. Len(wire')
    BY <2>1, TakeFacts DEF TypeInv
  <2>3. QED
    BY <1>1, <1>2, <1>3, <2>1, <2>2
<1>16. CASE Apart
  BY <1>1, <1>2, <1>3, <1>16, ApartFacts DEF net
<1>17. QED
  BY <1>6, <1>7, <1>8, <1>9, <1>10, <1>11, <1>12, <1>13, <1>14, <1>15, <1>16, NextCases

LEMMA BrokerStep ==
  ASSUME TypeInv, Next
  PROVE  BrokerOK'
<1>1. BrokerOK
  BY DEF TypeInv
<1>2. CASE BrokerTake
  BY <1>2, BrokerFacts
<1>3. CASE BrokerPublish
  BY <1>3, PublishFacts
<1>4. CASE Break \/ MQTTConnect \/ Close
  <2>1. session' = FALSE /\ granted' = {} /\ awaits' = {} /\ pubs' = pubs
    BY <1>4 DEF Break, MQTTConnect, Close, Anew
  <2>2. QED
    BY <1>1, <2>1 DEF BrokerOK
<1>5. CASE Arrive \/ Requests \/ HandlePublish \/ HandlePubrec \/ Keepalive \/ Reads \/ Apart
  <2>1. Arrive \/ Reads => UNCHANGED broker
    BY DEF Arrive, Reads, DiscardRest, DiscardBroken, ReadType, ReadLength, ReadBody
  <2>2. UNCHANGED broker
    BY <1>5, <2>1, RequestFacts, AckFacts, KeepaliveFacts, ApartFacts
  <2>3. QED
    BY <1>1, <2>2 DEF BrokerOK, broker
<1>6. QED
  BY <1>2, <1>3, <1>4, <1>5, NextCases

LEMMA PutFacts ==
  ASSUME ClientOK, NEW old, NEW new \in Tops, Put(old, new)
  PROVE  handlers' \in [Slots -> Tops]
BY DEF ClientOK, Put

\* The steps that leave the state of the client, and its timer, as they are.
LEMMA ClientKept ==
  ASSUME Arrive \/ Break \/ BrokerTake \/ BrokerPublish \/ Expire \/ MQTTYield \/ LoopEnd
           \/ LoopOn \/ DiscardLate \/ DiscardEnd
  PROVE  UNCHANGED <<client, ping, remain_pktfrag_len>>
<1>1. CASE Arrive \/ Break \/ BrokerTake \/ BrokerPublish
  BY <1>1 DEF Arrive, Break, BrokerTake, BrokerPublish
<1>2. CASE Expire \/ MQTTYield \/ LoopEnd \/ LoopOn \/ DiscardLate \/ DiscardEnd
  BY <1>2 DEF Expire, MQTTYield, LoopEnd, LoopOn, DiscardLate, DiscardEnd
<1>3. QED
  BY <1>1, <1>2

\* What reads make of the count of the bytes that are left.
LEMMA RemainStep ==
  ASSUME TypeInv, Reads
  PROVE  remain_pktfrag_len' \in Nat /\ UNCHANGED <<client, ping>>
<1>1. avail \in Nat /\ remain_pktfrag_len \in Nat /\ rem_len \in Nat
  BY RemFacts, LenProperties DEF TypeInv, NetOK, ClientOK
<1>2. CASE DiscardRest
  BY <1>1, <1>2 DEF DiscardRest, Whole, Short
<1>3. CASE DiscardBroken
  BY <1>1, <1>3 DEF DiscardBroken
<1>4. CASE ReadType \/ ReadLength
  BY <1>1, <1>4 DEF ReadType, ReadLength
<1>5. CASE ReadBody
  BY <1>1, <1>5 DEF ReadBody, Whole, Short
<1>6. QED
  BY <1>2, <1>3, <1>4, <1>5 DEF Reads

LEMMA ClientStep ==
  ASSUME TypeInv, Next
  PROVE  ClientOK'
<1>1. ClientOK
  BY DEF TypeInv
<1>2. /\ isconnected \in BOOLEAN /\ next_packetid \in 0 .. MaxId
      /\ handlers \in [Slots -> Tops]
      /\ ping_outstanding \in BOOLEAN /\ due \in BOOLEAN /\ dues \in 0 .. MaxDue
      /\ remain_pktfrag_len \in Nat
  BY <1>1 DEF ClientOK
<1>3. CASE \/ Arrive \/ Break \/ BrokerTake \/ BrokerPublish \/ Expire \/ MQTTYield \/ LoopEnd
           \/ LoopOn \/ DiscardLate \/ DiscardEnd
  BY <1>2, <1>3, ClientKept DEF ClientOK, client, ping
<1>4. CASE PingDue
  BY <1>2, <1>4, Constants DEF PingDue, ClientOK, client
<1>5. CASE MQTTConnect
  <2>1. Free \in [Slots -> Tops]
    BY DEF Free, Slots, Tops
  <2>2. /\ \/ MQTTClient
           \/ UNCHANGED <<isconnected, ping_outstanding, handlers, remain_pktfrag_len>>
        /\ due' \in {due, FALSE} /\ UNCHANGED <<next_packetid, dues>>
    BY <1>5 DEF MQTTConnect
  <2>3. /\ handlers' \in [Slots -> Tops] /\ remain_pktfrag_len' \in Nat
        /\ next_packetid' \in 0 .. MaxId /\ dues' \in 0 .. MaxDue
    BY <1>2, <2>1, <2>2 DEF MQTTClient
  <2>4. isconnected' \in BOOLEAN /\ ping_outstanding' \in BOOLEAN
    BY <1>2, <2>2 DEF MQTTClient
  <2>5. due' \in BOOLEAN
    BY <1>2, <2>2
  <2>6. QED
    BY <2>3, <2>4, <2>5 DEF ClientOK
<1>6. CASE Close
  BY <1>2, <1>6 DEF Close, ClientOK, ping
<1>7. CASE Requests
  <2>1. /\ next_packetid' \in 0 .. MaxId
        /\ UNCHANGED <<isconnected, handlers, ping_outstanding, dues, remain_pktfrag_len>>
        /\ due' \in {due, FALSE}
    BY <1>7, RequestFacts DEF Written
  <2>2. QED
    BY <1>2, <2>1 DEF ClientOK
<1>8. CASE HandlePublish \/ HandlePubrec
  <2>1. /\ UNCHANGED <<client, ping_outstanding, dues, remain_pktfrag_len>>
        /\ due' \in {due, FALSE}
    BY <1>8, AckFacts DEF Written
  <2>2. QED
    BY <1>2, <2>1 DEF ClientOK, client
<1>9. CASE Keepalive
  <2>1. /\ UNCHANGED <<client, dues, remain_pktfrag_len>>
        /\ due' \in {due, FALSE} /\ ping_outstanding' \in {ping_outstanding, TRUE}
    BY <1>9, KeepaliveFacts DEF Written
  <2>2. QED
    BY <1>2, <2>1 DEF ClientOK, client
<1>10. CASE Reads
  BY <1>2, <1>10, RemainStep DEF ClientOK, client, ping
<1>11. CASE HandleOther
  BY <1>2, <1>11 DEF HandleOther, ClientOK, client
<1>12. CASE CallEnd
  <2>1. /\ UNCHANGED <<next_packetid, ping, remain_pktfrag_len>>
        /\ isconnected' \in BOOLEAN
    BY <1>2, <1>12 DEF CallEnd
  <2>2. call.topic \in Tops /\ NoTopic \in Tops
    BY DEF TypeInv, CallOK, Tops
  <2>3. \/ UNCHANGED handlers \/ Put(NoTopic, call.topic) \/ Put(call.topic, NoTopic)
    BY <1>12 DEF CallEnd
  <2>4. handlers' \in [Slots -> Tops]
    BY <1>1, <1>2, <2>2, <2>3, PutFacts
  <2>5. QED
    BY <1>2, <2>1, <2>4 DEF ClientOK, ping
<1>13. QED
  BY <1>3, <1>4, <1>5, <1>6, <1>7, <1>8, <1>9, <1>10, <1>11, <1>12, NextCases DEF Apart

LEMMA CallStep ==
  ASSUME TypeInv, Next
  PROVE  CallOK'
<1>1. /\ pc \in Pcs /\ late \in BOOLEAN /\ call \in Calls
      /\ call.op = "subscribe" => call.topic \in Topics
      /\ calls \in 0 .. MaxCalls
  BY DEF TypeInv, CallOK, Calls
<1>2. ASSUME pc' \in Pcs, late' \in BOOLEAN, call' \in Calls,
             call'.op = "subscribe" => call'.topic \in Topics, calls' \in 0 .. MaxCalls
      PROVE  CallOK'
  BY <1>2 DEF CallOK, Calls
<1>3. ASSUME calls < MaxCalls, calls' = calls + 1 PROVE calls' \in 0 .. MaxCalls
  BY <1>1, <1>3, Constants
<1>4. \A tp \in Tops, op \in DOMAIN Want : Call(op, 0, tp) \in Calls /\ Call(op, 0, tp).op = op
  BY CallFacts, Constants DEF Call
<1>5. NoTopic \in Tops /\ "yield" \in DOMAIN Want /\ "connect" \in DOMAIN Want
  BY DEF Tops, Want
<1>6. CASE Arrive \/ Break \/ BrokerTake \/ BrokerPublish \/ PingDue \/ Close
  <2>1. UNCHANGED <<pc, late, call, calls>>
    BY <1>6 DEF Arrive, Break, BrokerTake, BrokerPublish, PingDue, Close
  <2>2. QED
    BY <1>1, <1>2, <2>1
<1>7. CASE Expire
  BY <1>1, <1>2, <1>7 DEF Expire
<1>8. CASE MQTTConnect
  <2>1. /\ calls < MaxCalls /\ calls' = calls + 1 /\ late' = FALSE
        /\ call' = Call("connect", 0, NoTopic) /\ pc' \in {"idle", "loop"}
    BY <1>8 DEF MQTTConnect, Begin
  <2>2. QED
    BY <1>2, <1>3, <1>4, <1>5, <2>1 DEF Pcs
<1>9. CASE MQTTYield
  <2>1. /\ calls < MaxCalls /\ calls' = calls + 1 /\ late' = FALSE
        /\ call' = Call("yield", 0, NoTopic) /\ pc' = "loop"
    BY <1>9 DEF MQTTYield, Begin
  <2>2. QED
    BY <1>2, <1>3, <1>4, <1>5, <2>1 DEF Pcs
<1>10. CASE Requests
  BY <1>2, <1>3, <1>10, RequestFacts DEF Pcs
<1>11. CASE HandlePublish \/ HandlePubrec
  <2>1. UNCHANGED <<call, late, calls>> /\ pc' \in {"keepalive", "idle", "loop"}
    BY <1>11, AckFacts
  <2>2. QED
    BY <1>1, <1>2, <2>1 DEF Pcs
<1>12. CASE Keepalive
  <2>1. UNCHANGED <<call, late, calls>> /\ pc' \in {"answer", "loop"}
    BY <1>12, KeepaliveFacts
  <2>2. QED
    BY <1>1, <1>2, <2>1 DEF Pcs
<1>13. CASE LoopEnd
  <2>1. UNCHANGED <<late, calls>> /\ call' = NoCall /\ pc' = "idle"
    BY <1>13 DEF LoopEnd, GiveUp
  <2>2. QED
    BY <1>1, <1>2, <1>4, <1>5, <2>1 DEF Pcs, NoCall
<1>14. CASE Reads \/ LoopOn \/ DiscardLate \/ DiscardEnd \/ HandleOther \/ CallEnd
  <2>1. Reads => /\ UNCHANGED <<call, late, calls>>
                 /\ pc' \in {pc, "length", "body", "handle", "keepalive"}
    BY DEF Reads, DiscardRest, DiscardBroken, ReadType, ReadLength, ReadBody, Unread
  <2>2. LoopOn \/ DiscardLate \/ DiscardEnd \/ HandleOther \/ CallEnd =>
          /\ UNCHANGED <<call, late, calls>>
          /\ pc' \in {"discard", "keepalive", "type", "idle"}
    BY DEF LoopOn, DiscardLate, DiscardEnd, HandleOther, CallEnd, Unread, EndCycle
  <2>3. pc' \in Pcs
    BY <1>1, <1>14, <2>1, <2>2 DEF Pcs
  <2>4. QED
    BY <1>1, <1>2, <1>14, <2>1, <2>2, <2>3
<1>15. QED
  BY <1>6, <1>7, <1>8, <1>9, <1>10, <1>11, <1>12, <1>13, <1>14, NextCases DEF Apart

LEMMA ReadStep ==
  ASSUME TypeInv, Next
  PROVE  ReadOK'
<1>1. got \in Packets(Inbound) \cup {NoPacket} /\ whole \in BOOLEAN
  BY DEF TypeInv, ReadOK
<1>2. CASE UNCHANGED reading
  BY <1>1, <1>2 DEF ReadOK, reading
<1>3. CASE got' \in {got, NoPacket} /\ whole' \in BOOLEAN
  BY <1>1, <1>3 DEF ReadOK
<1>4. CASE Arrive \/ Break \/ BrokerTake \/ BrokerPublish \/ MQTTConnect \/ Close
  <2>1. UNCHANGED reading
    BY <1>4 DEF Arrive, Break, BrokerTake, BrokerPublish, MQTTConnect, Close
  <2>2. QED
    BY <1>2, <2>1
<1>5. CASE Requests \/ HandlePublish \/ HandlePubrec \/ Keepalive
  <2>1. UNCHANGED reading \/ (got' = NoPacket /\ whole' = FALSE)
    BY <1>5, RequestFacts, AckFacts, KeepaliveFacts
  <2>2. QED
    BY <1>2, <1>3, <2>1
<1>6. CASE Apart
  <2>1. UNCHANGED reading \/ (got' = NoPacket /\ whole' = FALSE)
    BY <1>6 DEF Apart, PingDue, Expire, MQTTYield, LoopEnd, LoopOn, DiscardLate, DiscardEnd,
                HandleOther, CallEnd, Unread, EndCycle
  <2>2. QED
    BY <1>2, <1>3, <2>1
<1>7. CASE ReadType
  <2>1. CASE Unread
    BY <1>3, <2>1 DEF Unread
  <2>2. CASE ~ Unread
    <3>1. /\ avail >= 1 /\ got' = IF wire[1].i = 1 THEN wire[1].p ELSE NoPacket
          /\ whole' = whole
      BY <1>7, <2>2 DEF ReadType, Whole
    <3>2. wire \in Seq(AllCells) /\ 1 \in 1 .. Len(wire)
      BY <3>1, LenProperties DEF TypeInv, NetOK
    <3>3. wire[1].p \in Packets(Inbound)
      BY <3>2, CellFacts
    <3>4. QED
      BY <1>1, <3>1, <3>3 DEF ReadOK
  <2>3. QED
    BY <2>1, <2>2
<1>8. CASE DiscardRest \/ DiscardBroken \/ ReadLength \/ ReadBody
  <2>1. got' \in {got, NoPacket} /\ whole' \in BOOLEAN
    BY <1>1, <1>8 DEF DiscardRest, DiscardBroken, ReadLength, ReadBody, Unread, reading
  <2>2. QED
    BY <1>3, <2>1
<1>9. QED
  BY <1>4, <1>5, <1>6, <1>7, <1>8, NextCases DEF Reads

LEMMA WantFacts ==
  ASSUME NEW op \in DOMAIN Want
  PROVE  Want[op] \in Inbound \cup {"nothing"}
BY MqttClientAssumption DEF MqttClientAssumption, Want

LEMMA HistoryStep ==
  ASSUME TypeInv, Next
  PROVE  HistoryOK'
<1>1. /\ torn \in BOOLEAN /\ carried \in BOOLEAN
      /\ gaveUp \subseteq Inbound \cup {"nothing"} /\ missed \subseteq Topics
      /\ done \in Packets(Inbound) \cup {NoPacket}
  BY DEF TypeInv, HistoryOK
<1>2. call.op \in DOMAIN Want /\ (call.op = "subscribe" => call.topic \in Topics)
  BY DEF TypeInv, CallOK
<1>3. CASE UNCHANGED history
  BY <1>1, <1>3 DEF HistoryOK, history
<1>4. CASE \/ Arrive \/ BrokerTake \/ BrokerPublish \/ PingDue \/ Expire \/ LoopOn
           \/ DiscardRest \/ DiscardLate \/ DiscardBroken \/ DiscardEnd
  <2>1. UNCHANGED history
    BY <1>4 DEF Arrive, BrokerTake, BrokerPublish, PingDue, Expire, LoopOn, DiscardRest,
                DiscardLate, DiscardBroken, DiscardEnd
  <2>2. QED
    BY <1>3, <2>1
<1>5. CASE ReadType \/ ReadBody \/ HandleOther \/ HandlePublish \/ HandlePubrec \/ Keepalive
  <2>1. UNCHANGED history
    BY <1>5, AckFacts, KeepaliveFacts DEF ReadType, ReadBody, HandleOther
  <2>2. QED
    BY <1>3, <2>1
<1>6. CASE Break \/ Close
  <2>1. /\ torn' = FALSE /\ gaveUp' = {} /\ missed' = {} /\ carried' = FALSE
        /\ done' = NoPacket
    BY <1>6 DEF Break, Close, Anew
  <2>2. QED
    BY <2>1 DEF HistoryOK
<1>7. CASE MQTTConnect
  <2>1. /\ torn' = FALSE /\ gaveUp' = {} /\ missed' = {} /\ done' = NoPacket
        /\ carried' \in BOOLEAN
    BY <1>7 DEF MQTTConnect, Anew, Begin
  <2>2. QED
    BY <2>1 DEF HistoryOK
<1>8. CASE Requests \/ MQTTYield
  <2>1. UNCHANGED <<torn, carried, gaveUp, missed>> /\ done' = NoPacket
    BY <1>8, RequestFacts DEF MQTTYield, Begin
  <2>2. QED
    BY <1>1, <2>1 DEF HistoryOK
<1>9. CASE LoopEnd
  <2>1. /\ gaveUp' = gaveUp \cup {Want[call.op]} /\ UNCHANGED <<torn, carried, done>>
        /\ missed' = IF call.op = "subscribe" THEN missed \cup {call.topic} ELSE missed
    BY <1>9 DEF LoopEnd, GiveUp
  <2>2. gaveUp' \subseteq Inbound \cup {"nothing"}
    BY <1>1, <1>2, <2>1, WantFacts
  <2>3. missed' \subseteq Topics
    BY <1>1, <1>2, <2>1
  <2>4. QED
    BY <1>1, <2>1, <2>2, <2>3 DEF HistoryOK
<1>10. CASE ReadLength
  <2>1. UNCHANGED <<carried, gaveUp, missed, done>> /\ torn' \in {torn, TRUE, FALSE}
    BY <1>10 DEF ReadLength
  <2>2. QED
    BY <1>1, <2>1 DEF HistoryOK
<1>11. CASE CallEnd
  <2>1. /\ UNCHANGED <<torn, carried, gaveUp>>
        /\ done' \in {got, NoPacket}
    BY <1>11 DEF CallEnd
  <2>2. got \in Packets(Inbound) \cup {NoPacket}
    BY DEF TypeInv, ReadOK
  <2>3. missed' \subseteq Topics
    <3>1. CASE call.op = "subscribe"
      BY <1>1, <1>2, <1>11, <3>1 DEF CallEnd
    <3>2. CASE call.op # "subscribe"
      BY <1>1, <1>11, <3>2 DEF CallEnd
    <3>3. QED
      BY <3>1, <3>2
  <2>4. QED
    BY <1>1, <2>1, <2>2, <2>3 DEF HistoryOK
<1>12. QED
  BY <1>4, <1>5, <1>6, <1>7, <1>8, <1>9, <1>10, <1>11, NextCases DEF Reads, Apart

LEMMA TypeStep == TypeInv /\ [Next]_vars => TypeInv'
<1>1. ASSUME TypeInv, Next PROVE TypeInv'
  <2>1. NetOK' /\ BrokerOK' /\ ClientOK'
    BY <1>1, NetStep, BrokerStep, ClientStep
  <2>2. CallOK' /\ ReadOK' /\ HistoryOK'
    BY <1>1, CallStep, ReadStep, HistoryStep
  <2>3. QED
    BY <2>1, <2>2 DEF TypeInv
<1>2. ASSUME TypeInv, UNCHANGED vars PROVE TypeInv'
  <2>1. NetOK' /\ BrokerOK' /\ ClientOK'
    BY <1>2 DEF TypeInv, vars, net, broker, client, ping, NetOK, BrokerOK, ClientOK
  <2>2. CallOK' /\ ReadOK' /\ HistoryOK'
    BY <1>2 DEF TypeInv, vars, reading, history, CallOK, ReadOK, HistoryOK
  <2>3. QED
    BY <2>1, <2>2 DEF TypeInv
<1>3. QED
  BY <1>1, <1>2

LEMMA TypeInit == Init => TypeInv
<1> SUFFICES ASSUME Init PROVE TypeInv
  OBVIOUS
<1>1. NetOK
  <2>1. link = "closed" /\ up = <<>> /\ wire = <<>> /\ avail = 0
    BY DEF Init
  <2>2. UpOK(up)
    BY <2>1, EmptyUp
  <2>3. wire \in Seq(AllCells) /\ avail \in 0 .. Len(wire)
    BY <2>1, EmptySeq
  <2>4. QED
    BY <2>1, <2>2, <2>3 DEF NetOK, UpOK
<1>2. BrokerOK
  <2>1. session = FALSE /\ granted = {} /\ awaits = {} /\ pubs = 0
    BY DEF Init
  <2>2. pubs \in 0 .. MaxPubs
    BY <2>1, Constants
  <2>3. granted \subseteq Topics /\ session \in BOOLEAN
    BY <2>1
  <2>4. awaits \subseteq {"PUBACK", "PUBREC", "PUBREL", "PUBCOMP"} \X Nat
    BY <2>1, Zenon
  <2>5. QED
    BY <2>2, <2>3, <2>4 DEF BrokerOK
<1>3. ClientOK
  <2>1. Free \in [Slots -> Tops]
    BY DEF Free, Slots, Tops
  <2>2. /\ isconnected = FALSE /\ next_packetid = 0 /\ handlers = Free
        /\ ping_outstanding = FALSE /\ due = TRUE /\ dues = 0
        /\ remain_pktfrag_len = 0
    BY DEF Init
  <2>3. next_packetid \in 0 .. MaxId /\ dues \in 0 .. MaxDue /\ remain_pktfrag_len \in Nat
    BY <2>2, Constants
  <2>4. isconnected \in BOOLEAN /\ ping_outstanding \in BOOLEAN /\ due \in BOOLEAN
    BY <2>2
  <2>5. QED
    BY <2>1, <2>2, <2>3, <2>4 DEF ClientOK
<1>4. CallOK
  <2>1. "yield" \in DOMAIN Want /\ NoTopic \in Tops
    BY DEF Want, Tops
  <2>2. call = [op |-> "yield", id |-> 0, topic |-> NoTopic]
    BY DEF Init, NoCall, Call
  <2>3. pc = "idle" /\ late = FALSE /\ calls = 0
    BY DEF Init
  <2>4. 0 \in 0 .. MaxId /\ calls \in 0 .. MaxCalls
    BY <2>3, Constants
  <2>5. /\ call \in [op : DOMAIN Want, id : 0 .. MaxId, topic : Tops]
        /\ call.op # "subscribe"
    BY <2>1, <2>2, <2>4
  <2>6. QED
    BY <2>3, <2>4, <2>5 DEF CallOK, Pcs
<1>5. ReadOK /\ HistoryOK
  BY DEF Init, ReadOK, HistoryOK
<1>6. QED
  BY <1>1, <1>2, <1>3, <1>4, <1>5 DEF TypeInv

LEMMA TypeInvSpec == Spec => []TypeInv
BY TypeInit, TypeStep, PTL DEF Spec

\* The variables of the client, the connection and the broker keep their types:
\* what is left of a packet is never negative, and no more cells have arrived
\* than were sent, whatever reads were cut short (MQTTClient.c:124-183).
THEOREM TypeCorrect == Spec => []TypeOK
<1>1. TypeInv => TypeOK
  BY DEF TypeInv, NetOK, BrokerOK, ClientOK, CallOK, ReadOK, HistoryOK, TypeOK, Tops
<1>2. QED
  BY <1>1, TypeInvSpec, PTL

-----------------------------------------------------------------------------
(* The client stays in step with the packets on the wire.                  *)

LEMMA WholeStep ==
  ASSUME IInv, Next, link' = "up"
  PROVE  WholePackets(wire')
<1>1. TypeInv /\ wire \in Seq(AllCells) /\ (link = "up" => WholePackets(wire))
  BY DEF IInv, SyncInv, TypeInv, NetOK
<1>2. CASE BrokerTake \/ BrokerPublish
  <2>1. link = "up"
    BY <1>2 DEF BrokerTake, BrokerPublish
  <2>2. wire' = wire \/ \E p \in Packets(Inbound) : wire' = wire \o Cells(p)
    BY <1>1, <1>2, BrokerFacts, PublishFacts
  <2>3. QED
    BY <1>1, <2>1, <2>2, AnswerWhole
<1>3. CASE Break \/ Close
  BY <1>3 DEF Break, Close
<1>4. CASE MQTTConnect
  <2>1. wire' = <<>>
    BY <1>4 DEF MQTTConnect
  <2>2. Len(wire') = 0
    BY <2>1
  <2>3. QED
    BY <2>2 DEF WholePackets
<1>5. CASE Reads
  <2>1. link = "up"
    BY <1>1, <1>5, ReadFacts
  <2>2. PICK n \in 0 .. avail : Take(n)
    BY <1>1, <1>5, ReadFacts
  <2>3. wire' = SubSeq(wire, n + 1, Len(wire)) /\ n \in 0 .. Len(wire)
    BY <1>1, <2>2, TakeFacts DEF TypeInv
  <2>4. QED
    BY <1>1, <2>1, <2>3, DropWhole
<1>6. CASE Arrive \/ Requests \/ HandlePublish \/ HandlePubrec \/ Keepalive \/ Apart
  <2>1. Arrive => UNCHANGED <<link, wire>>
    BY DEF Arrive
  <2>2. UNCHANGED <<link, wire>>
    BY <1>1, <1>6, <2>1, RequestFacts, AckFacts, KeepaliveFacts, ApartFacts DEF net
  <2>3. QED
    BY <1>1, <2>2
<1>7. QED
  BY <1>2, <1>3, <1>4, <1>5, <1>6, NextCases

LEMMA LeftFacts == ASSUME TypeInv PROVE Left \in Nat /\ Len(wire) \in Nat
<1>1. rem_len \in Nat /\ remain_pktfrag_len \in Nat
  BY RemFacts DEF TypeInv, ClientOK
<1>2. QED
  BY <1>1, LenProperties DEF Left, TypeInv, NetOK

\* Nothing is read, and more may be on the wire.
LEMMA PlacedAppend ==
  ASSUME TypeInv, Placed, UNCHANGED <<pc, got, remain_pktfrag_len>>,
         wire' = wire \/ \E p \in Packets(Inbound) : wire' = wire \o Cells(p)
  PROVE  Placed'
<1>1. Left' = Left /\ Left \in Nat /\ Len(wire) \in Nat /\ wire \in Seq(AllCells)
  BY LeftFacts DEF Left, rem_len, TypeInv, NetOK
<1>2. /\ pc \in {"type", "length", "body"} => remain_pktfrag_len = 0
      /\ pc \in {"length", "body"} => got # NoPacket
      /\ Left <= Len(wire)
      /\ \A j \in 1 .. Left : wire[j].i # 1
      /\ Left < Len(wire) => wire[Left + 1].i = 1
  BY DEF Placed
<1>3. CASE wire' = wire
  BY <1>1, <1>2, <1>3 DEF Placed
<1>4. CASE \E p \in Packets(Inbound) : wire' = wire \o Cells(p)
  <2>1. PICK p \in Packets(Inbound) : wire' = wire \o Cells(p)
    BY <1>4
  <2>2. /\ Body[p.type] \in Nat
        /\ Len(wire') = Len(wire) + 2 + Body[p.type]
        /\ \A i \in 1 .. Len(wire) : wire'[i] = wire[i]
        /\ \A i \in 1 .. 2 + Body[p.type] : wire'[Len(wire) + i] = [p |-> p, i |-> i]
    BY <1>1, <2>1, AnswerFacts
  <2>3. Left <= Len(wire')
    BY <1>1, <1>2, <2>2
  <2>4. \A j \in 1 .. Left : wire'[j].i # 1
    <3> TAKE j \in 1 .. Left
    <3>1. j \in 1 .. Len(wire)
      BY <1>1, <1>2
    <3>2. QED
      BY <1>2, <2>2, <3>1
  <2>5. wire'[Left + 1].i = 1
    <3>1. CASE Left < Len(wire)
      <4>1. Left + 1 \in 1 .. Len(wire)
        BY <1>1, <3>1
      <4>2. QED
        BY <1>2, <2>2, <3>1, <4>1
    <3>2. CASE ~ (Left < Len(wire))
      <4>1. Left = Len(wire) /\ 1 \in 1 .. 2 + Body[p.type]
        BY <1>1, <1>2, <2>2, <3>2
      <4>2. wire'[Len(wire) + 1] = [p |-> p, i |-> 1]
        BY <2>2, <4>1
      <4>3. QED
        BY <4>1, <4>2
    <3>3. QED
      BY <3>1, <3>2
  <2>6. QED
    BY <1>1, <1>2, <2>3, <2>4, <2>5 DEF Placed
<1>5. QED
  BY <1>3, <1>4

\* Nothing is read, and the client goes on outside a packet.
LEMMA PlacedElsewhere ==
  ASSUME TypeInv, Placed, UNCHANGED <<wire, remain_pktfrag_len>>,
         pc \notin {"length", "body"}, pc' \notin {"length", "body"},
         pc' = "type" => remain_pktfrag_len = 0
  PROVE  Placed'
<1>1. Left = remain_pktfrag_len /\ Left' = Left
  BY DEF Left
<1>2. QED
  BY <1>1 DEF Placed

\* The first n cells of those left are read.
LEMMA PlacedRead ==
  ASSUME TypeInv, Placed, NEW n \in 0 .. avail, Take(n), n <= Left, Left' = Left - n,
         pc' \in {"type", "length", "body"} => remain_pktfrag_len' = 0,
         pc' \in {"length", "body"} => got' # NoPacket
  PROVE  Placed'
<1>1. Left \in Nat /\ Len(wire) \in Nat
  BY LeftFacts
<1>2. /\ Left <= Len(wire)
      /\ \A j \in 1 .. Left : wire[j].i # 1
      /\ Left < Len(wire) => wire[Left + 1].i = 1
  BY DEF Placed
<1>3. /\ Len(wire') = Len(wire) - n /\ n \in 0 .. Len(wire)
      /\ \A i \in 1 .. Len(wire) - n : wire'[i] = wire[i + n]
  BY TakeFacts DEF TypeInv
<1>4. Left' <= Len(wire')
  BY <1>1, <1>2, <1>3
<1>5. \A j \in 1 .. Left' : wire'[j].i # 1
  <2> TAKE j \in 1 .. Left'
  <2>1. j \in 1 .. Len(wire) - n /\ j + n \in 1 .. Left
    BY <1>1, <1>2, <1>3
  <2>2. QED
    BY <1>2, <1>3, <2>1
<1>6. ASSUME Left' < Len(wire') PROVE wire'[Left' + 1].i = 1
  <2>1. /\ Left' + 1 \in 1 .. Len(wire) - n /\ (Left' + 1) + n = Left + 1
        /\ Left < Len(wire)
    BY <1>1, <1>2, <1>3, <1>6
  <2>2. wire'[Left' + 1] = wire[(Left' + 1) + n]
    BY <1>3, <2>1
  <2>3. wire[Left + 1].i = 1
    BY <1>2, <2>1
  <2>4. QED
    BY <2>1, <2>2, <2>3
<1>7. QED
  BY <1>4, <1>5, <1>6 DEF Placed

\* The header of the next packet is read, with the client at its place.
LEMMA PlacedHeader ==
  ASSUME TypeInv, Placed, WholePackets(wire), pc = "type", Whole(1),
         got' = IF wire[1].i = 1 THEN wire[1].p ELSE NoPacket, pc' = "length",
         UNCHANGED remain_pktfrag_len
  PROVE  Placed' /\ wire[1].i = 1
<1>1. /\ remain_pktfrag_len = 0 /\ Left = 0 /\ Len(wire) \in Nat
      /\ wire \in Seq(AllCells) /\ avail \in 0 .. Len(wire)
  BY LeftFacts DEF Placed, Left, TypeInv, NetOK
<1>2. avail >= 1 /\ Take(1) /\ 1 \in 0 .. avail /\ 1 \in 1 .. Len(wire)
  BY <1>1 DEF Whole
<1>3. wire[1].i = 1
  BY <1>1, <1>2 DEF Placed
<1> DEFINE b == Body[wire[1].p.type]
<1>4. got' = wire[1].p /\ wire[1].p \in Packets(Inbound) /\ b \in Nat
  BY <1>1, <1>2, <1>3, CellFacts
<1>5. wire[1].p # NoPacket
  <2>1. wire[1].p.type \in Inbound /\ NoPacket.type = "none"
    BY <1>1, <1>2, CellFacts DEF NoPacket, Plain, Packet
  <2>2. "none" \notin Inbound
    BY MqttClientAssumption DEF MqttClientAssumption
  <2>3. QED
    BY <2>1, <2>2
<1>6. Left' = 1 + b
  BY <1>4, <1>5 DEF Left, rem_len
<1>7. /\ 1 + 1 + b <= Len(wire)
      /\ \A j \in 1 .. 1 + b : wire[1 + j].i = 1 + j
      /\ 1 + 2 + b <= Len(wire) => wire[1 + 2 + b].i = 1
  BY <1>2, <1>3 DEF WholePackets
<1> HIDE DEF b
<1>8. /\ Len(wire') = Len(wire) - 1
      /\ \A i \in 1 .. Len(wire) - 1 : wire'[i] = wire[i + 1]
  BY <1>2, TakeFacts DEF TypeInv
<1>9. Left' <= Len(wire')
  BY <1>1, <1>4, <1>6, <1>7, <1>8
<1>10. \A j \in 1 .. Left' : wire'[j].i # 1
  <2> TAKE j \in 1 .. Left'
  <2>1. j \in 1 .. Len(wire) - 1 /\ j \in 1 .. 1 + b /\ j + 1 = 1 + j /\ 1 + j # 1
    BY <1>1, <1>4, <1>6, <1>7
  <2>2. wire'[j] = wire[1 + j]
    BY <1>8, <2>1
  <2>3. QED
    BY <1>7, <2>1, <2>2
<1>11. ASSUME Left' < Len(wire') PROVE wire'[Left' + 1].i = 1
  <2>1. /\ Left' + 1 \in 1 .. Len(wire) - 1 /\ (Left' + 1) + 1 = 1 + 2 + b
        /\ 1 + 2 + b <= Len(wire)
    BY <1>1, <1>4, <1>6, <1>8, <1>11
  <2>2. wire'[Left' + 1] = wire[(Left' + 1) + 1]
    BY <1>8, <2>1
  <2>3. QED
    BY <1>7, <2>1, <2>2
<1>12. QED
  BY <1>1, <1>3, <1>4, <1>5, <1>9, <1>10, <1>11 DEF Placed

\* The steps that read nothing.
LEMMA PlacedQuiet ==
  ASSUME TypeInv, Placed,
         \/ Arrive \/ BrokerTake \/ BrokerPublish
         \/ Requests \/ HandlePublish \/ HandlePubrec \/ Keepalive \/ Apart
  PROVE  Placed'
<1>1. CASE Arrive \/ PingDue \/ Expire
  <2>1. UNCHANGED <<pc, got, remain_pktfrag_len, wire>>
    BY <1>1 DEF Arrive, PingDue, Expire, net, reading
  <2>2. QED
    BY <2>1, PlacedAppend
<1>2. CASE BrokerTake
  <2>1. UNCHANGED <<pc, got, remain_pktfrag_len>>
    BY <1>2 DEF BrokerTake, reading
  <2>2. QED
    BY <1>2, <2>1, BrokerFacts, PlacedAppend
<1>3. CASE BrokerPublish
  <2>1. UNCHANGED <<pc, got, remain_pktfrag_len>>
    BY <1>3 DEF BrokerPublish, reading
  <2>2. QED
    BY <1>3, <2>1, PublishFacts, PlacedAppend
<1>4. CASE Requests
  <2>1. UNCHANGED <<wire, remain_pktfrag_len>> /\ pc = "idle" /\ pc' \in {"idle", "loop"}
    BY <1>4, RequestFacts
  <2>2. QED
    BY <2>1, PlacedElsewhere
<1>5. CASE HandlePublish \/ HandlePubrec
  <2>1. /\ UNCHANGED <<wire, remain_pktfrag_len>>
        /\ pc = "handle" /\ pc' \in {"keepalive", "idle", "loop"}
    BY <1>5, AckFacts
  <2>2. QED
    BY <2>1, PlacedElsewhere
<1>6. CASE Keepalive
  <2>1. /\ UNCHANGED <<wire, remain_pktfrag_len>>
        /\ pc = "keepalive" /\ pc' \in {"answer", "loop"}
    BY <1>6, KeepaliveFacts
  <2>2. QED
    BY <2>1, PlacedElsewhere
<1>7. CASE MQTTYield \/ LoopEnd \/ LoopOn \/ DiscardLate
  <2>1. /\ UNCHANGED <<wire, remain_pktfrag_len>>
        /\ pc \in {"idle", "loop", "discard"}
        /\ pc' \in {"loop", "idle", "discard", "keepalive"}
    BY <1>7 DEF MQTTYield, Begin, LoopEnd, GiveUp, LoopOn, DiscardLate, Unread, net
  <2>2. QED
    BY <2>1, PlacedElsewhere
<1>8. CASE DiscardEnd
  <2>1. /\ UNCHANGED <<wire, remain_pktfrag_len>> /\ remain_pktfrag_len = 0
        /\ pc = "discard" /\ pc' = "type"
    BY <1>8 DEF DiscardEnd, net
  <2>2. QED
    BY <2>1, PlacedElsewhere
<1>9. CASE HandleOther \/ CallEnd
  <2>1. /\ UNCHANGED <<wire, remain_pktfrag_len>>
        /\ pc \in {"handle", "answer"} /\ pc' \in {"keepalive", "idle"}
    BY <1>9 DEF HandleOther, CallEnd, EndCycle, net
  <2>2. QED
    BY <2>1, PlacedElsewhere
<1>10. QED
  BY <1>1, <1>2, <1>3, <1>4, <1>5, <1>6, <1>7, <1>8, <1>9 DEF Apart

\* The reads, while the connection stands.
LEMMA PlacedReads ==
  ASSUME TypeInv, Placed, WholePackets(wire), link = "up", ~torn', Reads
  PROVE  Placed'
<1>1. /\ avail \in Nat /\ avail \in 0 .. avail /\ 0 \in 0 .. avail
      /\ remain_pktfrag_len \in Nat /\ rem_len \in Nat
  BY RemFacts, LenProperties DEF TypeInv, NetOK, ClientOK
<1>2. CASE DiscardRest
  <2>1. pc = "discard" /\ Left = remain_pktfrag_len
    BY <1>2 DEF DiscardRest, Left
  <2>2. CASE Whole(remain_pktfrag_len) /\ remain_pktfrag_len' = 0 /\ UNCHANGED <<pc, reading>>
    <3>1. /\ Take(remain_pktfrag_len) /\ remain_pktfrag_len \in 0 .. avail
          /\ Left' = Left - remain_pktfrag_len
      BY <1>1, <2>1, <2>2 DEF Whole, Left
    <3>2. QED
      BY <1>1, <2>1, <2>2, <3>1, PlacedRead
  <2>3. CASE Short(remain_pktfrag_len) /\ remain_pktfrag_len' = remain_pktfrag_len - avail
             /\ Unread
    <3>1. /\ Take(avail) /\ avail < remain_pktfrag_len /\ pc' = "keepalive"
          /\ Left' = Left - avail
      BY <1>1, <2>1, <2>3 DEF Short, Left, Unread
    <3>2. avail <= Left
      BY <1>1, <2>1, <3>1
    <3>3. QED
      BY <1>1, <3>1, <3>2, PlacedRead
  <2>4. QED
    BY <1>2, <2>2, <2>3 DEF DiscardRest
<1>3. CASE ReadType
  <2>1. pc = "type" /\ Left = 0 /\ remain_pktfrag_len = 0 /\ UNCHANGED remain_pktfrag_len
    BY <1>3 DEF ReadType, Left, Placed
  <2>2. CASE Whole(1)
    <3>1. got' = (IF wire[1].i = 1 THEN wire[1].p ELSE NoPacket) /\ pc' = "length"
      BY <1>1, <1>3, <2>2 DEF ReadType, Whole, Short
    <3>2. QED
      BY <2>1, <2>2, <3>1, PlacedHeader
  <2>3. CASE Short(1) /\ Unread
    <3>1. avail = 0 /\ Take(avail) /\ pc' = "keepalive"
      BY <1>1, <2>3 DEF Short, Unread
    <3>2. Take(0) /\ Left' = Left - 0 /\ 0 <= Left
      BY <2>1, <3>1 DEF Left
    <3>3. QED
      BY <1>1, <3>1, <3>2, PlacedRead
  <2>4. QED
    BY <1>3, <2>2, <2>3 DEF ReadType
<1>4. CASE ReadLength
  <2>1. /\ pc = "length" /\ Left = 1 + rem_len /\ remain_pktfrag_len = 0
        /\ got # NoPacket /\ UNCHANGED <<remain_pktfrag_len, got>>
    BY <1>4 DEF ReadLength, Left, Placed
  <2>2. Whole(1) /\ pc' = IF rem_len = 0 THEN "handle" ELSE "body"
    BY <1>4 DEF ReadLength
  <2>3. rem_len' = rem_len
    BY <2>1 DEF rem_len
  <2>4. Left' = rem_len
    BY <2>1, <2>2, <2>3 DEF Left
  <2>5. Take(1) /\ 1 \in 0 .. avail /\ 1 <= Left /\ Left' = Left - 1
    BY <1>1, <2>1, <2>2, <2>4 DEF Whole
  <2>6. QED
    BY <2>1, <2>5, PlacedRead
<1>5. CASE ReadBody
  <2>1. pc = "body" /\ Left = rem_len /\ remain_pktfrag_len = 0
    BY <1>5 DEF ReadBody, Left, Placed
  <2>2. CASE Whole(rem_len) /\ pc' = "handle" /\ UNCHANGED <<reading, remain_pktfrag_len>>
    <3>1. Take(rem_len) /\ rem_len \in 0 .. avail /\ Left' = 0
      BY <1>1, <2>1, <2>2 DEF Whole, Left
    <3>2. rem_len <= Left /\ Left' = Left - rem_len
      BY <1>1, <2>1, <3>1
    <3>3. QED
      BY <2>2, <3>1, <3>2, PlacedRead
  <2>3. CASE Short(rem_len) /\ remain_pktfrag_len' = rem_len - avail /\ Unread
    <3>1. Take(avail) /\ avail < rem_len /\ pc' = "keepalive" /\ Left' = Left - avail
      BY <2>1, <2>3 DEF Short, Left, Unread
    <3>2. avail <= Left
      BY <1>1, <2>1, <3>1
    <3>3. QED
      BY <1>1, <3>1, <3>2, PlacedRead
  <2>4. QED
    BY <1>5, <2>2, <2>3 DEF ReadBody
<1>6. CASE DiscardBroken
  BY <1>6 DEF DiscardBroken
<1>7. QED
  BY <1>2, <1>3, <1>4, <1>5, <1>6 DEF Reads

\* A read takes no note back of a length that was lost.
LEMMA TornKept ==
  ASSUME Reads
  PROVE  UNCHANGED <<link, carried, ping_outstanding>> /\ (torn => torn')
<1>1. CASE ReadLength
  <2>1. UNCHANGED <<link, carried, ping_outstanding>>
    BY <1>1 DEF ReadLength, ping
  <2>2. torn' = torn \/ torn' = (torn \/ link = "up")
    BY <1>1 DEF ReadLength
  <2>3. torn => torn'
    BY ONLY <2>2
  <2>4. QED
    BY <2>1, <2>3
<1>2. CASE DiscardRest \/ DiscardBroken \/ ReadType \/ ReadBody
  <2>1. UNCHANGED <<link, ping, history>>
    BY <1>2 DEF DiscardRest, DiscardBroken, ReadType, ReadBody
  <2>2. QED
    BY <2>1 DEF ping, history
<1>3. QED
  BY <1>1, <1>2 DEF Reads

LEMMA PlacedStep ==
  ASSUME IInv, Next, Sound'
  PROVE  Placed'
<1>1. /\ TypeInv /\ link' = "up" /\ ~torn' /\ ~carried'
      /\ link = "up" => WholePackets(wire)
      /\ Sound => Placed
  BY DEF IInv, SyncInv, Sound
<1>2. CASE MQTTConnect
  <2>1. wire' = <<>> /\ pc' \in {"idle", "loop"}
    BY <1>2 DEF MQTTConnect
  <2>2. remain_pktfrag_len' = 0
    BY <1>1, <1>2 DEF MQTTConnect, MQTTClient
  <2>3. Left' = 0 /\ Len(wire') = 0
    BY <2>1, <2>2 DEF Left
  <2>4. QED
    BY <2>1, <2>3 DEF Placed
<1>3. CASE Break \/ Close
  BY <1>1, <1>3 DEF Break, Close
<1>4. CASE \/ Arrive \/ BrokerTake \/ BrokerPublish
           \/ Requests \/ HandlePublish \/ HandlePubrec \/ Keepalive \/ Apart
  <2>1. UNCHANGED <<link, torn, carried>>
    <3>1. CASE Arrive \/ BrokerTake \/ BrokerPublish
      BY <3>1 DEF Arrive, BrokerTake, BrokerPublish, history
    <3>2. CASE Requests
      BY <1>1, <3>2, RequestFacts
    <3>3. CASE HandlePublish \/ HandlePubrec \/ Keepalive
      BY <3>3 DEF HandlePublish, HandlePubrec, Keepalive, history
    <3>4. CASE PingDue \/ Expire \/ MQTTYield \/ LoopEnd \/ LoopOn
      BY <3>4 DEF PingDue, Expire, MQTTYield, LoopEnd, LoopOn, history, net
    <3>5. CASE DiscardLate \/ DiscardEnd \/ HandleOther \/ CallEnd
      BY <3>5 DEF DiscardLate, DiscardEnd, HandleOther, CallEnd, history, net
    <3>6. QED
      BY <1>4, <3>1, <3>2, <3>3, <3>4, <3>5 DEF Apart
  <2>2. Placed
    BY <1>1, <2>1 DEF Sound
  <2>3. QED
    BY <1>1, <1>4, <2>2, PlacedQuiet
<1>5. CASE Reads
  <2>1. UNCHANGED <<link, carried>> /\ (torn => torn')
    BY <1>5, TornKept
  <2>2. Placed /\ link = "up"
    BY <1>1, <2>1 DEF Sound
  <2>3. QED
    BY <1>1, <1>5, <2>2, PlacedReads
<1>6. QED
  BY <1>2, <1>3, <1>4, <1>5, NextCases

LEMMA SyncStep == IInv /\ [Next]_vars => IInv'
<1> SUFFICES ASSUME IInv, [Next]_vars PROVE IInv'
  OBVIOUS
<1>1. TypeInv'
  BY TypeStep DEF IInv
<1>2. CASE Next
  BY <1>1, <1>2, WholeStep, PlacedStep DEF IInv, SyncInv
<1>3. CASE UNCHANGED vars
  <2>1. UNCHANGED <<link, wire, pc, got, remain_pktfrag_len, torn, carried>>
    BY <1>3 DEF vars, net, reading, history
  <2>2. Left' = Left /\ Sound' = Sound
    BY <2>1 DEF Left, rem_len, Sound
  <2>3. Placed' = Placed
    BY <2>1, <2>2 DEF Placed
  <2>4. SyncInv'
    BY <2>1, <2>2, <2>3 DEF SyncInv, IInv
  <2>5. QED
    BY <1>1, <2>4 DEF IInv
<1>4. QED
  BY <1>2, <1>3

LEMMA SyncInit == Init => IInv
<1> SUFFICES ASSUME Init PROVE IInv
  OBVIOUS
<1>1. link = "closed"
  BY DEF Init
<1>2. QED
  BY <1>1, TypeInit DEF IInv, SyncInv, Sound

LEMMA SyncInvSpec == Spec => []IInv
<1>1. QED
  BY SyncInit, SyncStep, PTL DEF Spec

\* readPacket never takes a byte out of the middle of a packet for a header,
\* however many reads ran out of time before: cycle notes what is left.
THEOREM InSyncCorrect == Spec => []InSync
<1>1. IInv => InSync
  <2> SUFFICES ASSUME IInv, Sound, pc = "type", wire # <<>> PROVE wire[1].i = 1
    BY DEF InSync
  <2>1. Placed /\ Left = 0 /\ wire \in Seq(AllCells)
    BY DEF IInv, SyncInv, Placed, Left, TypeInv, NetOK
  <2>2. Len(wire) # 0
    BY <2>1, EmptySeq
  <2>3. Len(wire) \in Nat
    BY <2>1, LenProperties
  <2>4. 0 < Len(wire)
    BY <2>2, <2>3
  <2>5. QED
    BY <2>1, <2>4 DEF Placed
<1>2. QED
  BY <1>1, SyncInvSpec, PTL

-----------------------------------------------------------------------------
(* The ping that is waited for.                                            *)

Asked    == \E k \in 1 .. Len(up) : up[k].type = "PINGREQ"
Answered == \E k \in 1 .. Len(wire) : wire[k].p.type = "PINGRESP" /\ wire[k].i = 1
Held     == pc \in {"length", "handle"} /\ got.type = "PINGRESP"

\* A read takes cells of the packet that was begun, or the header of the next one.
LEMMA ReadLeft ==
  ASSUME TypeInv, Placed, link = "up", ~torn', Reads
  PROVE  /\ UNCHANGED <<up, ping_outstanding>>
         /\ \E n \in 0 .. avail :
              /\ Take(n)
              /\ n <= Left \/ (n = 1 /\ got' = wire[1].p /\ pc' = "length")
<1> DEFINE P(n) == Take(n) /\ (n <= Left \/ (n = 1 /\ got' = wire[1].p /\ pc' = "length"))
<1>1. /\ avail \in Nat /\ avail \in 0 .. avail /\ 0 \in 0 .. avail
      /\ remain_pktfrag_len \in Nat /\ rem_len \in Nat
      /\ Left \in Nat /\ wire \in Seq(AllCells) /\ avail \in 0 .. Len(wire)
      /\ Len(wire) \in Nat
  BY RemFacts, LeftFacts, LenProperties DEF TypeInv, NetOK, ClientOK
<1>2. UNCHANGED <<up, ping_outstanding>>
  BY DEF Reads, DiscardRest, DiscardBroken, ReadType, ReadLength, ReadBody, ping
<1>3. CASE DiscardRest
  <2>1. Left = remain_pktfrag_len
    BY <1>3 DEF DiscardRest, Left
  <2>2. Whole(remain_pktfrag_len) \/ Short(remain_pktfrag_len)
    BY <1>3 DEF DiscardRest
  <2>3. QED
    BY <1>1, <1>2, <2>1, <2>2 DEF Whole, Short
<1>4. CASE ReadType
  <2>1. Left = 0 /\ (0 < Len(wire) => wire[1].i = 1)
    BY <1>4 DEF ReadType, Left, Placed
  <2>2. CASE Whole(1) /\ got' = (IF wire[1].i = 1 THEN wire[1].p ELSE NoPacket) /\ pc' = "length"
    <3>1. 1 \in 0 .. avail /\ Take(1) /\ 0 < Len(wire)
      BY <1>1, <2>2 DEF Whole
    <3>2. got' = wire[1].p
      BY <2>1, <2>2, <3>1
    <3>3. QED
      BY <1>2, <2>2, <3>1, <3>2
  <2>3. CASE Short(1)
    <3>1. avail = 0 /\ Take(0)
      BY <1>1, <2>3 DEF Short
    <3>2. QED
      BY <1>1, <1>2, <2>1, <3>1
  <2>4. QED
    BY <1>4, <2>2, <2>3 DEF ReadType
<1>5. CASE ReadLength
  <2>1. Left = 1 + rem_len /\ Whole(1)
    BY <1>5 DEF ReadLength, Left
  <2>2. 1 \in 0 .. avail /\ Take(1) /\ 1 <= Left
    BY <1>1, <2>1 DEF Whole
  <2>3. QED
    BY <1>2, <2>2
<1>6. CASE ReadBody
  <2>1. Left = rem_len
    BY <1>6 DEF ReadBody, Left
  <2>2. Whole(rem_len) \/ Short(rem_len)
    BY <1>6 DEF ReadBody
  <2>3. QED
    BY <1>1, <1>2, <2>1, <2>2 DEF Whole, Short
<1>7. CASE DiscardBroken
  BY <1>7 DEF DiscardBroken
<1>8. QED
  BY <1>3, <1>4, <1>5, <1>6, <1>7 DEF Reads

\* A packet more, on either way, takes no ping away.
LEMMA AskedKept ==
  ASSUME TypeInv, Asked,
         \/ UNCHANGED up
         \/ \E p \in Packets(Sent) : up' = Append(up, p)
  PROVE  Asked'
<1>1. PICK k \in 1 .. Len(up) : up[k].type = "PINGREQ"
  BY DEF Asked
<1>2. up \in Seq(Packets(Sent)) /\ Len(up) \in Nat
  BY LenProperties DEF TypeInv, NetOK
<1>3. CASE UNCHANGED up
  BY <1>1, <1>3 DEF Asked
<1>4. CASE \E p \in Packets(Sent) : up' = Append(up, p)
  <2>1. PICK p \in Packets(Sent) : up' = Append(up, p)
    BY <1>4
  <2>2. Len(up') = Len(up) + 1 /\ \A i \in 1 .. Len(up) : up'[i] = up[i]
    BY <1>2, <2>1, AppendProperties
  <2>3. k \in 1 .. Len(up') /\ up'[k].type = "PINGREQ"
    BY <1>1, <1>2, <2>2
  <2>4. QED
    BY <2>3 DEF Asked
<1>5. QED
  BY <1>3, <1>4

LEMMA AnsweredKept ==
  ASSUME TypeInv, Answered,
         wire' = wire \/ \E p \in Packets(Inbound) : wire' = wire \o Cells(p)
  PROVE  Answered'
<1>1. PICK k \in 1 .. Len(wire) : wire[k].p.type = "PINGRESP" /\ wire[k].i = 1
  BY DEF Answered
<1>2. wire \in Seq(AllCells) /\ Len(wire) \in Nat
  BY LenProperties DEF TypeInv, NetOK
<1>3. CASE wire' = wire
  BY <1>1, <1>3 DEF Answered
<1>4. CASE \E p \in Packets(Inbound) : wire' = wire \o Cells(p)
  <2>1. PICK p \in Packets(Inbound) : wire' = wire \o Cells(p)
    BY <1>4
  <2>2. /\ Body[p.type] \in Nat
        /\ Len(wire') = Len(wire) + 2 + Body[p.type]
        /\ \A i \in 1 .. Len(wire) : wire'[i] = wire[i]
    BY <1>2, <2>1, AnswerFacts
  <2>3. k \in 1 .. Len(wire')
    BY <1>1, <1>2, <2>2
  <2>4. wire'[k].p.type = "PINGRESP" /\ wire'[k].i = 1
    BY <1>1, <2>2
  <2>5. QED
    BY <2>3, <2>4 DEF Answered
<1>5. QED
  BY <1>3, <1>4

\* The broker turns a ping into its answer.
LEMMA PingTaken ==
  ASSUME TypeInv, BrokerTake, Asked
  PROVE  Asked' \/ Answered'
<1>1. PICK k \in 1 .. Len(up) : up[k].type = "PINGREQ"
  BY DEF Asked
<1>2. /\ up \in Seq(Packets(Sent)) /\ Len(up) \in Nat
      /\ wire \in Seq(AllCells) /\ Len(wire) \in Nat
  BY LenProperties DEF TypeInv, NetOK
<1>3. up # <<>> /\ up' = Tail(up)
  BY BrokerFacts
<1>4. CASE k = 1
  <2>1. Head(up).type = "PINGREQ"
    BY <1>1, <1>2, <1>3, <1>4, HeadTailProperties
  <2> DEFINE p == Plain("PINGRESP")
  <2>2. p \in Packets(Inbound) /\ wire' = wire \o Cells(p)
    BY <2>1, BrokerFacts
  <2>3. p.type = "PINGRESP"
    BY DEF Plain, Packet
  <2> HIDE DEF p
  <2>4. /\ Body[p.type] \in Nat
        /\ Len(wire') = Len(wire) + 2 + Body[p.type]
        /\ \A i \in 1 .. 2 + Body[p.type] : wire'[Len(wire) + i] = [p |-> p, i |-> i]
    BY <1>2, <2>2, AnswerFacts
  <2>5. 1 \in 1 .. 2 + Body[p.type] /\ Len(wire) + 1 \in 1 .. Len(wire')
    BY <1>2, <2>4
  <2>6. wire'[Len(wire) + 1] = [p |-> p, i |-> 1]
    BY <2>4, <2>5
  <2>7. Answered'
    BY <2>3, <2>5, <2>6 DEF Answered
  <2>8. QED
    BY <2>7
<1>5. CASE k # 1
  <2>1. Len(up') = Len(up) - 1 /\ \A i \in 1 .. Len(up) - 1 : up'[i] = up[i + 1]
    BY <1>2, <1>3, HeadTailProperties
  <2>2. k - 1 \in 1 .. Len(up) - 1 /\ (k - 1) + 1 = k
    BY <1>1, <1>2, <1>5
  <2>3. up'[k - 1] = up[k]
    BY <2>1, <2>2
  <2>4. QED
    BY <1>1, <2>1, <2>2, <2>3 DEF Asked
<1>6. QED
  BY <1>4, <1>5

\* A read takes the answer off the wire only as the header of a packet.
LEMMA PingRead ==
  ASSUME TypeInv, Placed, link = "up", ~torn', Reads, Asked \/ Answered \/ Held
  PROVE  Asked' \/ Answered' \/ Held'
<1>1. UNCHANGED up
  BY ReadLeft
<1>2. PICK n \in 0 .. avail :
        Take(n) /\ (n <= Left \/ (n = 1 /\ got' = wire[1].p /\ pc' = "length"))
  BY ReadLeft
<1>3. CASE Asked
  BY <1>1, <1>3 DEF Asked
<1>4. CASE Answered
  <2>1. PICK k \in 1 .. Len(wire) : wire[k].p.type = "PINGRESP" /\ wire[k].i = 1
    BY <1>4 DEF Answered
  <2>2. /\ n \in 0 .. Len(wire) /\ Len(wire) \in Nat /\ Len(wire') = Len(wire) - n
        /\ \A i \in 1 .. Len(wire) - n : wire'[i] = wire[i + n]
    BY <1>2, TakeFacts DEF TypeInv
  <2>3. CASE k > n
    <3>1. k - n \in 1 .. Len(wire) - n /\ (k - n) + n = k
      BY <2>1, <2>2, <2>3
    <3>2. wire'[k - n] = wire[k]
      BY <2>2, <3>1
    <3>3. Answered'
      BY <2>1, <2>2, <3>1, <3>2 DEF Answered
    <3>4. QED
      BY <3>3
  <2>4. CASE ~ (k > n)
    <3>1. ~ (n <= Left)
      <4>1. SUFFICES ASSUME n <= Left PROVE FALSE
        OBVIOUS
      <4>2. Left \in Nat /\ k \in 1 .. Left
        BY <2>1, <2>2, <2>4, <4>1, LeftFacts
      <4>3. QED
        BY <2>1, <4>2 DEF Placed
    <3>2. n = 1 /\ got' = wire[1].p /\ pc' = "length"
      BY <1>2, <3>1
    <3>3. k = 1
      BY <2>1, <2>2, <2>4, <3>2
    <3>4. QED
      BY <2>1, <3>2, <3>3 DEF Held
  <2>5. QED
    BY <2>3, <2>4
<1>5. CASE Held
  <2>1. pc = "length" /\ ReadLength
    BY <1>5 DEF Held, Reads, DiscardRest, DiscardBroken, ReadType, ReadLength, ReadBody
  <2>2. /\ Whole(1) /\ pc' = IF rem_len = 0 THEN "handle" ELSE "body"
        /\ UNCHANGED got
    BY <2>1 DEF ReadLength
  <2>3. rem_len = 0
    BY <1>5, Constants DEF Held, rem_len
  <2>4. QED
    BY <1>5, <2>2, <2>3 DEF Held
<1>6. QED
  BY <1>3, <1>4, <1>5

LEMMA PingForm ==
  ASSUME PingNotForgotten, Sound, ping_outstanding
  PROVE  Asked \/ Answered \/ Held
BY DEF PingNotForgotten, Asked, Answered, Held

\* What leaves the wire, the answer waited for and the packet in hand alone.
LEMMA PingKept ==
  ASSUME TypeInv, Asked \/ Answered \/ Held,
         wire' = wire \/ \E p \in Packets(Inbound) : wire' = wire \o Cells(p),
         \/ UNCHANGED up
         \/ \E p \in Packets(Sent) : up' = Append(up, p),
         Held => UNCHANGED <<pc, got>>
  PROVE  Asked' \/ Answered' \/ Held'
<1>1. CASE Asked
  BY <1>1, AskedKept
<1>2. CASE Answered
  BY <1>2, AnsweredKept
<1>3. CASE Held
  BY <1>3 DEF Held
<1>4. QED
  BY <1>1, <1>2, <1>3

LEMMA PingStep ==
  ASSUME IInv, PingNotForgotten, Next, Sound', ping_outstanding'
  PROVE  Asked' \/ Answered' \/ Held'
<1> DEFINE Before == Sound /\ ping_outstanding
<1>1. /\ TypeInv /\ link' = "up" /\ ~torn' /\ ~carried'
      /\ Before => Placed /\ (Asked \/ Answered \/ Held)
  BY PingForm DEF IInv, SyncInv, Sound
<1> HIDE DEF Before
<1>2. CASE Arrive \/ PingDue \/ Expire \/ BrokerPublish
  <2>1. UNCHANGED <<link, torn, carried, ping_outstanding, up, pc, got>>
    BY <1>2 DEF Arrive, PingDue, Expire, BrokerPublish, net, ping, reading, history
  <2>2. Before
    BY <1>1, <2>1 DEF Before, Sound
  <2>3. wire' = wire \/ \E p \in Packets(Inbound) : wire' = wire \o Cells(p)
    <3>1. CASE BrokerPublish
      BY <1>1, <3>1, PublishFacts
    <3>2. CASE Arrive \/ PingDue \/ Expire
      BY <3>2 DEF Arrive, PingDue, Expire, net
    <3>3. QED
      BY <1>2, <3>1, <3>2
  <2>4. QED
    BY <1>1, <2>1, <2>2, <2>3, PingKept
<1>3. CASE BrokerTake
  <2>1. UNCHANGED <<link, torn, carried, ping_outstanding, pc, got>>
    BY <1>3 DEF BrokerTake, ping, reading, history
  <2>2. Before
    BY <1>1, <2>1 DEF Before, Sound
  <2>3. CASE Asked
    BY <1>1, <1>3, <2>3, PingTaken
  <2>4. CASE Answered
    BY <1>1, <1>3, <2>4, BrokerFacts, AnsweredKept
  <2>5. CASE Held
    BY <2>1, <2>5 DEF Held
  <2>6. QED
    BY <1>1, <2>2, <2>3, <2>4, <2>5
<1>4. CASE Requests \/ HandlePublish \/ HandlePubrec
  <2>1. CASE Requests
    <3>1. /\ UNCHANGED up \/ \E p \in Packets(Sent) : up' = Append(up, p)
          /\ UNCHANGED <<link, wire, ping_outstanding, torn, carried>>
          /\ pc = "idle"
      BY <1>1, <2>1, RequestFacts DEF Written
    <3>2. Before /\ ~Held
      BY <1>1, <3>1 DEF Before, Sound, Held
    <3>3. QED
      BY <1>1, <3>1, <3>2, PingKept
  <2>2. CASE HandlePublish \/ HandlePubrec
    <3>1. /\ UNCHANGED up \/ \E p \in Packets(Sent) : up' = Append(up, p)
          /\ UNCHANGED <<link, wire, ping_outstanding, history>>
          /\ got.type \in {"PUBLISH", "PUBREC", "PUBREL"}
      BY <1>1, <2>2, AckFacts DEF Written
    <3>2. Before /\ ~Held
      BY <1>1, <3>1 DEF Before, Sound, Held, history
    <3>3. QED
      BY <1>1, <3>1, <3>2, PingKept
  <2>3. QED
    BY <1>4, <2>1, <2>2
<1>5. CASE Keepalive
  <2>1. /\ UNCHANGED <<link, wire, history>> /\ pc = "keepalive"
        /\ \/ UNCHANGED <<up, due, ping_outstanding>>
           \/ /\ Plain("PINGREQ") \in Packets(Sent) /\ Plain("PINGREQ").type = "PINGREQ"
              /\ Written(Plain("PINGREQ")) /\ ping_outstanding' = TRUE
    BY <1>1, <1>5, KeepaliveFacts
  <2>2. CASE UNCHANGED <<up, due, ping_outstanding>>
    <3>1. Before /\ ~Held
      BY <1>1, <2>1, <2>2 DEF Before, Sound, Held, history
    <3>2. QED
      BY <1>1, <2>1, <2>2, <3>1, PingKept
  <2>3. CASE Plain("PINGREQ") \in Packets(Sent) /\ Plain("PINGREQ").type = "PINGREQ"
             /\ Written(Plain("PINGREQ"))
    <3>1. up' = Append(up, Plain("PINGREQ")) /\ up \in Seq(Packets(Sent)) /\ Len(up) \in Nat
      BY <1>1, <2>3, LenProperties DEF Written, TypeInv, NetOK
    <3>2. Len(up') = Len(up) + 1 /\ up'[Len(up) + 1] = Plain("PINGREQ")
      BY <2>3, <3>1, AppendProperties
    <3>3. Len(up) + 1 \in 1 .. Len(up')
      BY <3>1, <3>2
    <3>4. Asked'
      BY <2>3, <3>2, <3>3 DEF Asked
    <3>5. QED
      BY <3>4
  <2>4. QED
    BY <2>1, <2>2, <2>3
<1>6. CASE MQTTYield \/ LoopEnd \/ LoopOn \/ DiscardLate \/ DiscardEnd \/ CallEnd
  <2>1. CASE MQTTYield \/ LoopEnd \/ LoopOn
    <3>1. /\ UNCHANGED <<link, up, wire, ping_outstanding, torn, carried>>
          /\ pc \notin {"length", "handle"}
      BY <2>1 DEF MQTTYield, Begin, LoopEnd, LoopOn, net, ping, history
    <3>2. Before /\ ~Held
      BY <1>1, <3>1 DEF Before, Sound, Held
    <3>3. QED
      BY <1>1, <3>1, <3>2, PingKept
  <2>2. CASE DiscardLate \/ DiscardEnd \/ CallEnd
    <3>1. /\ UNCHANGED <<link, up, wire, ping_outstanding, torn, carried>>
          /\ pc \notin {"length", "handle"}
      BY <2>2 DEF DiscardLate, DiscardEnd, CallEnd, net, ping, history
    <3>2. Before /\ ~Held
      BY <1>1, <3>1 DEF Before, Sound, Held
    <3>3. QED
      BY <1>1, <3>1, <3>2, PingKept
  <2>3. QED
    BY <1>6, <2>1, <2>2
<1>7. CASE HandleOther
  <2>1. /\ UNCHANGED <<link, up, wire, torn, carried>>
        /\ ping_outstanding' = (ping_outstanding /\ got.type # "PINGRESP")
    BY <1>7 DEF HandleOther, net, history
  <2>2. ping_outstanding /\ got.type # "PINGRESP"
    BY <2>1
  <2>3. Before /\ ~Held
    BY <1>1, <2>1, <2>2 DEF Before, Sound, Held
  <2>4. QED
    BY <1>1, <2>1, <2>3, PingKept
<1>8. CASE MQTTConnect
  <2>1. \/ ping_outstanding' = FALSE
        \/ /\ ping_outstanding' = ping_outstanding
           /\ carried' = (isconnected \/ ping_outstanding \/ remain_pktfrag_len # 0)
    BY <1>8 DEF MQTTConnect, MQTTClient
  <2>2. QED
    BY <1>1, <2>1
<1>9. CASE Break \/ Close
  BY <1>1, <1>9 DEF Break, Close
<1>10. CASE Reads
  <2>1. UNCHANGED <<link, carried, ping_outstanding>> /\ (torn => torn')
    BY <1>10, TornKept
  <2>2. Before /\ link = "up"
    BY <1>1, <2>1 DEF Before, Sound
  <2>3. QED
    BY <1>1, <1>10, <2>2, PingRead
<1>11. QED
  BY <1>2, <1>3, <1>4, <1>5, <1>6, <1>7, <1>8, <1>9, <1>10, NextCases DEF Apart

\* While the connection stands and the client is in step, a ping it waits for is
\* with the broker, or its answer on the way: keepalive never waits for an answer
\* that cannot come.
THEOREM PingCorrect == Spec => []PingNotForgotten
<1>1. Init => PingNotForgotten
  <2> SUFFICES ASSUME Init PROVE PingNotForgotten
    OBVIOUS
  <2>1. link = "closed"
    BY DEF Init
  <2>2. QED
    BY <2>1 DEF PingNotForgotten, Sound
<1>2. IInv /\ PingNotForgotten /\ [Next]_vars => PingNotForgotten'
  <2> SUFFICES ASSUME IInv, PingNotForgotten, [Next]_vars PROVE PingNotForgotten'
    OBVIOUS
  <2>1. CASE Next
    <3> SUFFICES ASSUME Sound', ping_outstanding'
                 PROVE  \/ \E k \in 1 .. Len(up') : up'[k].type = "PINGREQ"
                        \/ \E k \in 1 .. Len(wire') : /\ wire'[k].p.type = "PINGRESP"
                                                     /\ wire'[k].i = 1
                        \/ pc' \in {"length", "handle"} /\ got'.type = "PINGRESP"
      BY DEF PingNotForgotten
    <3>1. QED
      BY <2>1, PingStep DEF Asked, Answered, Held
  <2>2. CASE UNCHANGED vars
    <3>1. UNCHANGED <<link, up, wire, pc, got, ping_outstanding, torn, carried>>
      BY <2>2 DEF vars, net, ping, reading, history
    <3>2. QED
      BY <3>1 DEF PingNotForgotten, Sound
  <2>3. QED
    BY <2>1, <2>2
<1>3. QED
  BY <1>1, <1>2, SyncInvSpec, PTL DEF Spec
-----------------------------------------------------------------------------
(* What is under way.  A packet on its way has a place: -k is the k-th of  *)
(* those the broker has not taken, k the cell of the wire its header is    *)
(* in, 0 the hands of the client.                                          *)

\* The client holds a packet it has not dealt with.
InHand ==
  /\ got # NoPacket
  /\ \/ pc \in {"length", "body", "handle"}
     \/ pc \in {"keepalive", "answer"} /\ got.type \notin {"PUBLISH", "PUBREC", "PUBREL"}

Place(w, u, h, x) ==
  \/ x = 0 /\ h
  \/ x \in 1 .. Len(w) /\ w[x].i = 1
  \/ -x \in 1 .. Len(u)

UnderWay(w, u, h, g) ==
  [x \in {y \in -Len(u) .. Len(w) : Place(w, u, h, y)} |->
     IF x = 0 THEN g ELSE IF x > 0 THEN w[x].p ELSE u[-x]]

Flight == UnderWay(wire, up, InHand, got)

\* Of two places of one direction, the one whose packet goes first; what the
\* client has not read goes before what the broker has not.
Before(x, y) == (y < 0 /\ y < x) \/ (x >= 0 /\ x < y)

\* From F to G packets move on and keep their order: what is at x comes from
\* f[x], but x0 is new, the last of its direction, and y0, the first, is gone.
Flows(F, G, f, x0, y0) ==
  /\ DOMAIN F \subseteq Int /\ DOMAIN G \subseteq Int
  /\ \A x \in DOMAIN G : x # x0 =>
       /\ f[x] \in DOMAIN F /\ f[x] # y0
       /\ G[x] = F[f[x]]
       /\ x < 0 <=> f[x] < 0
  /\ \A y \in DOMAIN F : y # y0 => \E x \in DOMAIN G : x # x0 /\ f[x] = y
  /\ \A x, y \in DOMAIN G : x # x0 /\ y # x0 => (Before(f[x], f[y]) <=> Before(x, y))
  /\ x0 \in DOMAIN G =>
       \A x \in DOMAIN G : x # x0 /\ (x < 0 <=> x0 < 0) => Before(x, x0)
  /\ y0 \in DOMAIN F =>
       \A y \in DOMAIN F : y # y0 /\ (y < 0 <=> y0 < 0) => Before(y0, y)

\* What becomes of what is under way when the broker takes p; r is its answer, if
\* the wire is longer for it.
Took(F, G, p, r, w, w2) ==
  \E f : \E x0, y0 \in Int :
    /\ Flows(F, G, f, x0, y0)
    /\ x0 > 0 /\ y0 < 0
    /\ y0 \in DOMAIN F /\ F[y0] = p
    /\ x0 \in DOMAIN G => w2 # w /\ G[x0] = r
    /\ w2 = w \o Cells(r) => x0 \in DOMAIN G

\* When the broker sends r.
Published(F, G, r) ==
  \E f : \E x0 \in Int :
    /\ Flows(F, G, f, x0, x0)
    /\ x0 > 0 /\ x0 \notin DOMAIN F
    /\ x0 \in DOMAIN G /\ G[x0] = r

\* When the client does no more than be done with what it holds, unless h2.
Went(F, G, h2) ==
  \E f : \E x0, y0 \in Int :
    /\ Flows(F, G, f, x0, y0)
    /\ x0 \notin DOMAIN G
    /\ y0 \in DOMAIN F => y0 = 0 /\ ~ h2

LEMMA UnderWayFacts ==
  ASSUME NEW w, NEW u, NEW h, NEW g, Len(w) \in Nat, Len(u) \in Nat,
         NEW F, F = UnderWay(w, u, h, g)
  PROVE  /\ DOMAIN F \subseteq Int
         /\ \A x \in Int : x \in DOMAIN F <=> Place(w, u, h, x)
         /\ 0 \in DOMAIN F => F[0] = g
         /\ \A x \in DOMAIN F : x > 0 => F[x] = w[x].p
         /\ \A x \in DOMAIN F : x < 0 => F[x] = u[-x]
<1> DEFINE D == {y \in -Len(u) .. Len(w) : Place(w, u, h, y)}
<1>1. DOMAIN F = D
  BY DEF UnderWay
<1>2. \A x \in D : F[x] = IF x = 0 THEN g ELSE IF x > 0 THEN w[x].p ELSE u[-x]
  BY DEF UnderWay
<1>3. D \subseteq Int
  OBVIOUS
<1>4. ASSUME NEW x \in Int, Place(w, u, h, x) PROVE x \in D
  BY <1>4 DEF Place
<1>5. \A x \in D : Place(w, u, h, x)
  OBVIOUS
<1> HIDE DEF D
<1>6. \A x \in Int : x \in DOMAIN F <=> Place(w, u, h, x)
  BY <1>1, <1>4, <1>5
<1>7. 0 \in DOMAIN F => F[0] = g
  BY <1>1, <1>2
<1>8. ASSUME NEW x \in DOMAIN F
      PROVE  (x > 0 => F[x] = w[x].p) /\ (x < 0 => F[x] = u[-x])
  <2>1. x \in Int /\ F[x] = IF x = 0 THEN g ELSE IF x > 0 THEN w[x].p ELSE u[-x]
    BY <1>1, <1>2, <1>3
  <2>2. QED
    BY ONLY <2>1
<1>9. DOMAIN F \subseteq Int
  BY <1>1, <1>3
<1>10. QED
  BY <1>6, <1>7, <1>8, <1>9

\* A write of the client, and a packet it is done with.
LEMMA FlowWrite ==
  ASSUME NEW w, NEW u \in Seq(Packets(Sent)), NEW u2, NEW h \in BOOLEAN, NEW h2 \in BOOLEAN,
         NEW g, NEW g2, NEW p \in Packets(Sent), u2 = u \/ u2 = Append(u, p),
         h2 => h /\ g2 = g, Len(w) \in Nat,
         NEW F, F = UnderWay(w, u, h, g), NEW G, G = UnderWay(w, u2, h2, g2),
         NEW x0, x0 = -(Len(u) + 1), NEW y0, y0 = IF h2 THEN Len(w) + 1 ELSE 0
  PROVE  /\ Flows(F, G, [x \in Int |-> x], x0, y0)
         /\ x0 \in Int /\ y0 \in Int /\ x0 < 0
         /\ x0 \in DOMAIN G => u2 # u /\ G[x0] = p
         /\ y0 \in DOMAIN F => y0 = 0
<1> DEFINE f == [x \in Int |-> x]
<1>1. Len(u) \in Nat
  BY LenProperties
<1>2. /\ Len(u2) \in Nat /\ Len(u2) \in {Len(u), Len(u) + 1}
      /\ \A k \in 1 .. Len(u) : u2[k] = u[k]
      /\ u2 = u => Len(u2) = Len(u)
      /\ u2 # u => u2 = Append(u, p) /\ Len(u2) = Len(u) + 1 /\ u2[Len(u) + 1] = p
  <2>1. CASE u2 = u
    BY <1>1, <2>1
  <2>2. CASE u2 = Append(u, p)
    BY <1>1, <2>2, AppendProperties
  <2>3. QED
    BY <2>1, <2>2
<1>3. /\ DOMAIN F \subseteq Int
      /\ \A x \in Int : x \in DOMAIN F <=> Place(w, u, h, x)
      /\ 0 \in DOMAIN F => F[0] = g
      /\ \A x \in DOMAIN F : x > 0 => F[x] = w[x].p
      /\ \A x \in DOMAIN F : x < 0 => F[x] = u[-x]
  BY <1>1, UnderWayFacts
<1>4. /\ DOMAIN G \subseteq Int
      /\ \A x \in Int : x \in DOMAIN G <=> Place(w, u2, h2, x)
      /\ 0 \in DOMAIN G => G[0] = g2
      /\ \A x \in DOMAIN G : x > 0 => G[x] = w[x].p
      /\ \A x \in DOMAIN G : x < 0 => G[x] = u2[-x]
  BY <1>2, UnderWayFacts
<1>5. x0 \in Int /\ y0 \in Int /\ x0 < 0 /\ \A x \in Int : f[x] = x
  BY <1>1
<1> HIDE DEF f
<1>6. x0 \in DOMAIN G => u2 # u /\ G[x0] = p
  <2>1. SUFFICES ASSUME x0 \in DOMAIN G PROVE u2 # u /\ G[x0] = p
    OBVIOUS
  <2>2. -x0 = Len(u) + 1
    BY <1>1
  <2>3. Len(u) + 1 \in 1 .. Len(u2)
    BY <1>1, <1>4, <1>5, <2>1, <2>2 DEF Place
  <2>4. u2 # u
    BY <1>1, <1>2, <2>3
  <2>5. G[x0] = u2[Len(u) + 1]
    BY <1>4, <1>5, <2>1, <2>2
  <2>6. QED
    BY <1>2, <2>4, <2>5
<1>7. y0 \in DOMAIN F => y0 = 0
  BY <1>1, <1>3, <1>5 DEF Place
<1>8. ASSUME NEW x \in DOMAIN G, x # x0
      PROVE  x \in DOMAIN F /\ x # y0 /\ G[x] = F[x]
  <2>1. x \in Int /\ Place(w, u2, h2, x)
    BY <1>4
  <2>2. CASE x = 0
    <3>1. h2 /\ h /\ g2 = g
      BY <1>1, <1>2, <2>1, <2>2 DEF Place
    <3>2. 0 \in DOMAIN F
      BY ONLY <1>3, <3>1 DEF Place
    <3>3. 0 # y0
      BY <1>1, <3>1
    <3>4. QED
      BY <1>3, <1>4, <2>2, <3>1, <3>2, <3>3
  <2>3. CASE x > 0
    BY <1>1, <1>3, <1>4, <1>8, <2>1, <2>3 DEF Place
  <2>4. CASE x < 0
    <3>1. -x \in 1 .. Len(u)
      BY <1>1, <1>2, <1>8, <2>1, <2>4 DEF Place
    <3>2. x \in DOMAIN F /\ F[x] = u[-x] /\ G[x] = u2[-x]
      BY <1>3, <1>4, <2>1, <2>4, <3>1 DEF Place
    <3>3. x # y0
      BY <1>1, <2>4
    <3>4. QED
      BY <1>2, <3>1, <3>2, <3>3
  <2>5. QED
    BY <2>1, <2>2, <2>3, <2>4
<1>9. ASSUME NEW y \in DOMAIN F, y # y0
      PROVE  y \in DOMAIN G /\ y # x0
  <2>1. y \in Int /\ Place(w, u, h, y)
    BY <1>3
  <2>2. CASE y = 0
    BY <1>1, <1>4, <1>9, <2>1, <2>2 DEF Place
  <2>3. CASE y > 0
    BY <1>1, <1>4, <1>9, <2>1, <2>3 DEF Place
  <2>4. CASE y < 0
    BY <1>1, <1>2, <1>4, <1>9, <2>1, <2>4 DEF Place
  <2>5. QED
    BY <2>1, <2>2, <2>3, <2>4
<1>10. ASSUME NEW x \in DOMAIN G, x # x0, x < 0 <=> x0 < 0 PROVE Before(x, x0)
  <2>1. x \in Int /\ x < 0 /\ Place(w, u2, h2, x)
    BY <1>4, <1>5, <1>10
  <2>2. QED
    BY <1>1, <1>2, <1>10, <2>1 DEF Place, Before
<1>11. ASSUME y0 \in DOMAIN F, NEW y \in DOMAIN F, y # y0, y < 0 <=> y0 < 0
       PROVE  Before(y0, y)
  BY <1>3, <1>7, <1>11 DEF Before
<1>12. Flows(F, G, f, x0, y0)
  <2>1. \A x \in DOMAIN G : x \in Int /\ f[x] = x
    BY <1>4, <1>5
  <2>2. \A y \in DOMAIN F : y \in Int /\ f[y] = y
    BY <1>3, <1>5
  <2>3. QED
    BY <1>3, <1>4, <1>8, <1>9, <1>10, <1>11, <2>1, <2>2 DEF Flows
<1>13. QED
  BY <1>5, <1>6, <1>7, <1>12 DEF f

\* Where the header of an answer is.
LEMMA AnswerHeader ==
  ASSUME NEW w \in Seq(AllCells), NEW r \in Packets(Inbound)
  PROVE  LET v == w \o Cells(r) IN
         /\ Len(v) \in Nat /\ Len(w) \in Nat
         /\ \A k \in 1 .. Len(w) : v[k] = w[k]
         /\ Len(w) + 1 \in 1 .. Len(v) /\ v[Len(w) + 1] = [p |-> r, i |-> 1]
         /\ \A k \in 1 .. Len(v) : v[k].i = 1 /\ k # Len(w) + 1 => k \in 1 .. Len(w)
<1> DEFINE v == w \o Cells(r)
           b == Body[r.type]
<1>1. /\ Len(w) \in Nat /\ b \in Nat /\ Len(v) = Len(w) + 2 + b
      /\ \A i \in 1 .. Len(w) : v[i] = w[i]
      /\ \A i \in 1 .. 2 + b : v[Len(w) + i] = [p |-> r, i |-> i]
  BY AnswerFacts
<1> HIDE DEF v, b
<1>2. Len(v) \in Nat /\ Len(w) + 1 \in 1 .. Len(v) /\ 1 \in 1 .. 2 + b
  BY <1>1
<1>3. v[Len(w) + 1] = [p |-> r, i |-> 1]
  BY <1>1, <1>2
<1>4. ASSUME NEW k \in 1 .. Len(v), v[k].i = 1, k # Len(w) + 1, k \notin 1 .. Len(w)
      PROVE  FALSE
  <2>1. k - Len(w) \in 1 .. 2 + b /\ Len(w) + (k - Len(w)) = k /\ k - Len(w) # 1
    BY <1>1, <1>4
  <2>2. v[k] = [p |-> r, i |-> k - Len(w)]
    BY <1>1, <2>1
  <2>3. v[k].i = k - Len(w)
    BY <2>2
  <2>4. QED
    BY <1>4, <2>1, <2>3
<1>5. QED
  BY <1>1, <1>2, <1>3, <1>4 DEF v

\* The broker takes a packet, and may answer it.
LEMMA FlowTake ==
  ASSUME NEW w \in Seq(AllCells), NEW w2, NEW u \in Seq(Packets(Sent)), u # <<>>, NEW u2,
         u2 = Tail(u), NEW h \in BOOLEAN, NEW g,
         NEW r \in Packets(Inbound), w2 = w \/ w2 = w \o Cells(r),
         NEW F, F = UnderWay(w, u, h, g), NEW G, G = UnderWay(w2, u2, h, g)
  PROVE  Took(F, G, Head(u), r, w, w2)
<1> SUFFICES ASSUME NEW x0, x0 = Len(w) + 1, NEW y0 \in Int, y0 + 1 = 0
             PROVE  Took(F, G, Head(u), r, w, w2)
  <2>1. -1 \in Int /\ -1 + 1 = 0
    OBVIOUS
  <2>2. QED
    BY <2>1
<1> DEFINE f == [x \in Int |-> IF x < 0 THEN x - 1 ELSE x]
<1>1. /\ Len(w) \in Nat /\ Len(u) \in Nat \ {0}
      /\ Len(u2) = Len(u) - 1 /\ Len(u2) \in Nat
      /\ \A k \in 1 .. Len(u) - 1 : u2[k] = u[k + 1]
      /\ Head(u) = u[1]
  BY LenProperties, EmptySeq, HeadTailProperties
<1>2. /\ Len(w2) \in Nat
      /\ \A k \in 1 .. Len(w) : w2[k] = w[k] /\ k \in 1 .. Len(w2)
      /\ x0 \in 1 .. Len(w2) => w2 = w \o Cells(r) /\ w2[x0] = [p |-> r, i |-> 1]
      /\ w2 = w \o Cells(r) => x0 \in 1 .. Len(w2)
      /\ \A k \in 1 .. Len(w2) : w2[k].i = 1 /\ k # x0 => k \in 1 .. Len(w)
  <2>1. CASE w2 = w \o Cells(r)
    <3>1. /\ Len(w2) \in Nat
          /\ \A k \in 1 .. Len(w) : w2[k] = w[k]
          /\ x0 \in 1 .. Len(w2) /\ w2[x0] = [p |-> r, i |-> 1]
          /\ \A k \in 1 .. Len(w2) : w2[k].i = 1 /\ k # x0 => k \in 1 .. Len(w)
      BY <2>1, AnswerHeader
    <3>2. QED
      BY <1>1, <2>1, <3>1
  <2>2. CASE w2 = w /\ w2 # w \o Cells(r)
    BY <1>1, <2>2
  <2>3. QED
    BY <2>1, <2>2
<1>3. /\ DOMAIN F \subseteq Int
      /\ \A x \in Int : x \in DOMAIN F <=> Place(w, u, h, x)
      /\ 0 \in DOMAIN F => F[0] = g
      /\ \A x \in DOMAIN F : x > 0 => F[x] = w[x].p
      /\ \A x \in DOMAIN F : x < 0 => F[x] = u[-x]
  BY <1>1, UnderWayFacts
<1>4. /\ DOMAIN G \subseteq Int
      /\ \A x \in Int : x \in DOMAIN G <=> Place(w2, u2, h, x)
      /\ 0 \in DOMAIN G => G[0] = g
      /\ \A x \in DOMAIN G : x > 0 => G[x] = w2[x].p
      /\ \A x \in DOMAIN G : x < 0 => G[x] = u2[-x]
  <2>1. Len(w2) \in Nat /\ Len(u2) \in Nat /\ G = UnderWay(w2, u2, h, g)
    BY <1>1, <1>2
  <2>2. QED
    BY ONLY <2>1, UnderWayFacts
<1>5. x0 \in Int /\ x0 > 0 /\ \A x \in Int : f[x] = IF x < 0 THEN x - 1 ELSE x
  BY <1>1
<1> HIDE DEF f
<1>6. /\ x0 \in DOMAIN G => w2 # w /\ G[x0] = r
      /\ w2 = w \o Cells(r) => x0 \in DOMAIN G
  <2>1. x0 \in DOMAIN G <=> x0 \in 1 .. Len(w2) /\ w2[x0].i = 1
    BY <1>1, <1>4, <1>5 DEF Place
  <2>2. x0 \in DOMAIN G => G[x0] = w2[x0].p
    BY <1>4, <1>5
  <2>3. x0 \in 1 .. Len(w2) => w2 # w
    BY <1>1
  <2>4. QED
    BY <1>2, <2>1, <2>2, <2>3
<1>7. y0 \in DOMAIN F /\ F[y0] = Head(u)
  <2>0. 1 \in 1 .. Len(u)
    BY <1>1
  <2>1. y0 \in Int /\ -y0 = 1 /\ y0 < 0
    OBVIOUS
  <2>2. y0 \in DOMAIN F
    BY <1>3, <2>0, <2>1 DEF Place
  <2>3. F[y0] = u[1]
    BY <1>3, <2>0, <2>1, <2>2
  <2>4. QED
    BY <1>1, <2>2, <2>3
<1>8. ASSUME NEW x \in DOMAIN G, x # x0
      PROVE  f[x] \in DOMAIN F /\ f[x] # y0 /\ G[x] = F[f[x]] /\ (x < 0 <=> f[x] < 0)
  <2>1. x \in Int /\ Place(w2, u2, h, x)
    BY <1>4
  <2>2. CASE x = 0
    <3>1. f[x] = 0 /\ 0 # y0
      BY <1>5, <2>1, <2>2
    <3>2. h
      BY <1>1, <1>2, <2>1, <2>2 DEF Place
    <3>3. 0 \in DOMAIN F
      BY <1>3, <2>1, <2>2, <3>2 DEF Place
    <3>4. QED
      BY <1>3, <1>4, <2>2, <3>1, <3>3
  <2>3. CASE x > 0
    <3>1. x \in 1 .. Len(w2) /\ w2[x].i = 1
      BY <1>1, <2>1, <2>3 DEF Place
    <3>2. x \in 1 .. Len(w)
      BY <1>2, <1>8, <3>1
    <3>3. x \in DOMAIN F /\ F[x] = w[x].p /\ G[x] = w2[x].p /\ w2[x] = w[x]
      BY <1>2, <1>3, <1>4, <2>1, <2>3, <3>1, <3>2 DEF Place
    <3>4. QED
      BY <1>5, <2>1, <2>3, <3>3
  <2>4. CASE x < 0
    <3>1. -x \in 1 .. Len(u) - 1
      BY <1>1, <2>1, <2>4 DEF Place
    <3>2. /\ f[x] = x - 1 /\ -(x - 1) = -x + 1 /\ -x + 1 \in 1 .. Len(u)
          /\ x - 1 \in Int /\ x - 1 # y0 /\ x - 1 < 0
      BY <1>1, <1>5, <2>1, <2>4, <3>1
    <3>3. x - 1 \in DOMAIN F
      BY <1>3, <3>2 DEF Place
    <3>4. F[x - 1] = u[-x + 1]
      BY <1>3, <3>2, <3>3
    <3>5. G[x] = u2[-x] /\ u2[-x] = u[-x + 1]
      BY <1>1, <1>4, <2>4, <3>1
    <3>6. QED
      BY <2>4, <3>2, <3>3, <3>4, <3>5
  <2>5. QED
    BY <2>1, <2>2, <2>3, <2>4
<1>9. ASSUME NEW y \in DOMAIN F, y # y0
      PROVE  \E x \in DOMAIN G : x # x0 /\ f[x] = y
  <2>1. y \in Int /\ Place(w, u, h, y)
    BY <1>3
  <2>2. CASE y = 0
    <3>1. y # x0 /\ f[y] = y
      BY <1>5, <2>1, <2>2
    <3>2. h
      BY <1>1, <2>1, <2>2 DEF Place
    <3>3. y \in DOMAIN G
      BY <1>4, <2>1, <2>2, <3>2 DEF Place
    <3>4. QED
      BY <3>1, <3>3
  <2>3. CASE y > 0
    <3>1. y \in 1 .. Len(w) /\ w[y].i = 1
      BY <1>1, <2>1, <2>3 DEF Place
    <3>2. y \in 1 .. Len(w2) /\ w2[y].i = 1 /\ y # x0
      BY <1>1, <1>2, <3>1
    <3>3. y \in DOMAIN G
      BY ONLY <1>4, <2>1, <3>2 DEF Place
    <3>4. f[y] = y
      BY ONLY <1>5, <2>1, <2>3
    <3>5. QED
      BY <3>2, <3>3, <3>4
  <2>4. CASE y < 0
    <3>1. -y \in 1 .. Len(u)
      BY <1>1, <2>1, <2>4 DEF Place
    <3>2. y + 1 \in Int /\ y + 1 < 0 /\ -(y + 1) \in 1 .. Len(u2) /\ (y + 1) - 1 = y
      BY <1>1, <1>9, <2>1, <2>4, <3>1
    <3>3. y + 1 \in DOMAIN G /\ f[y + 1] = y /\ y + 1 # x0
      BY <1>4, <1>5, <3>2 DEF Place
    <3>4. QED
      BY <3>3
  <2>5. QED
    BY <2>1, <2>2, <2>3, <2>4
<1>10. ASSUME NEW x \in DOMAIN G, NEW y \in DOMAIN G
       PROVE  Before(f[x], f[y]) <=> Before(x, y)
  <2>1. x \in Int /\ y \in Int
    BY <1>4
  <2>2. f[x] = (IF x < 0 THEN x - 1 ELSE x) /\ f[y] = (IF y < 0 THEN y - 1 ELSE y)
    BY <1>5, <2>1
  <2>3. /\ f[x] \in Int /\ f[y] \in Int
        /\ (x < 0 <=> f[x] < 0) /\ (y < 0 <=> f[y] < 0)
        /\ x < 0 => f[x] = x - 1
        /\ y < 0 => f[y] = y - 1
        /\ x >= 0 => f[x] = x
        /\ y >= 0 => f[y] = y
    BY ONLY <2>1, <2>2
  <2>4. QED
    BY ONLY <2>1, <2>3 DEF Before
<1>11. ASSUME x0 \in DOMAIN G, NEW x \in DOMAIN G, x # x0, x < 0 <=> x0 < 0 PROVE Before(x, x0)
  <2>1. x \in Int /\ ~ (x < 0) /\ Place(w2, u2, h, x)
    BY <1>4, <1>5, <1>11
  <2>2. CASE x = 0
    BY <1>5, <2>2 DEF Before
  <2>3. CASE x > 0
    <3>1. x \in 1 .. Len(w2) /\ w2[x].i = 1
      BY <1>1, <2>1, <2>3 DEF Place
    <3>2. x \in 1 .. Len(w)
      BY <1>2, <1>11, <3>1
    <3>3. QED
      BY <1>1, <3>2 DEF Before
  <2>4. QED
    BY <2>1, <2>2, <2>3
<1>12. ASSUME NEW y \in DOMAIN F, y # y0, y < 0 <=> y0 < 0
       PROVE  Before(y0, y)
  <2>1. y \in Int /\ y < 0
    BY <1>3, <1>12
  <2>2. QED
    BY <1>12, <2>1 DEF Before
<1>13. Flows(F, G, f, x0, y0)
  BY <1>3, <1>4, <1>8, <1>9, <1>10, <1>11, <1>12 DEF Flows
<1>14. y0 < 0
  OBVIOUS
<1>15. QED
  BY <1>5, <1>6, <1>7, <1>13, <1>14, Zenon DEF Took

\* The broker sends a message.
LEMMA FlowPublish ==
  ASSUME NEW w \in Seq(AllCells), NEW w2, NEW u \in Seq(Packets(Sent)), NEW h \in BOOLEAN, NEW g,
         NEW r \in Packets(Inbound), w2 = w \o Cells(r),
         NEW F, F = UnderWay(w, u, h, g), NEW G, G = UnderWay(w2, u, h, g)
  PROVE  Published(F, G, r)
<1> SUFFICES ASSUME NEW x0, x0 = Len(w) + 1 PROVE Published(F, G, r)
  OBVIOUS
<1> DEFINE f == [x \in Int |-> x]
<1>1. Len(w) \in Nat /\ Len(u) \in Nat
  BY LenProperties
<1>2. /\ Len(w2) \in Nat
      /\ \A k \in 1 .. Len(w) : w2[k] = w[k] /\ k \in 1 .. Len(w2)
      /\ x0 \in 1 .. Len(w2) /\ w2[x0] = [p |-> r, i |-> 1]
      /\ \A k \in 1 .. Len(w2) : w2[k].i = 1 /\ k # x0 => k \in 1 .. Len(w)
  <2>1. /\ Len(w2) \in Nat
        /\ \A k \in 1 .. Len(w) : w2[k] = w[k]
        /\ x0 \in 1 .. Len(w2) /\ w2[x0] = [p |-> r, i |-> 1]
        /\ \A k \in 1 .. Len(w2) : w2[k].i = 1 /\ k # x0 => k \in 1 .. Len(w)
    BY AnswerHeader
  <2>2. QED
    BY <1>1, <2>1
<1>3. /\ DOMAIN F \subseteq Int
      /\ \A x \in Int : x \in DOMAIN F <=> Place(w, u, h, x)
      /\ 0 \in DOMAIN F => F[0] = g
      /\ \A x \in DOMAIN F : x > 0 => F[x] = w[x].p
      /\ \A x \in DOMAIN F : x < 0 => F[x] = u[-x]
  BY <1>1, UnderWayFacts
<1>4. /\ DOMAIN G \subseteq Int
      /\ \A x \in Int : x \in DOMAIN G <=> Place(w2, u, h, x)
      /\ 0 \in DOMAIN G => G[0] = g
      /\ \A x \in DOMAIN G : x > 0 => G[x] = w2[x].p
      /\ \A x \in DOMAIN G : x < 0 => G[x] = u[-x]
  <2>1. Len(w2) \in Nat /\ Len(u) \in Nat /\ G = UnderWay(w2, u, h, g)
    BY <1>1, <1>2
  <2>2. QED
    BY ONLY <2>1, UnderWayFacts
<1>5. x0 \in Int /\ x0 > 0 /\ \A x \in Int : f[x] = x
  BY <1>1
<1> HIDE DEF f
<1>6. x0 \in DOMAIN G /\ G[x0] = r /\ x0 \notin DOMAIN F
  <2>1. w2[x0].i = 1 /\ w2[x0].p = r
    BY <1>2
  <2>2. x0 \in DOMAIN G
    BY <1>2, <1>4, <1>5, <2>1 DEF Place
  <2>3. x0 \notin DOMAIN F
    BY <1>1, <1>3, <1>5 DEF Place
  <2>4. QED
    BY <1>4, <1>5, <2>1, <2>2, <2>3
<1>7. ASSUME NEW x \in DOMAIN G, x # x0
      PROVE  x \in DOMAIN F /\ G[x] = F[x]
  <2>1. x \in Int /\ Place(w2, u, h, x)
    BY <1>4
  <2>2. CASE x = 0
    <3>1. h
      BY <1>1, <1>2, <2>1, <2>2 DEF Place
    <3>2. 0 \in DOMAIN F
      BY ONLY <1>3, <3>1 DEF Place
    <3>3. QED
      BY <1>3, <1>4, <2>2, <3>2
  <2>3. CASE x > 0
    <3>1. x \in 1 .. Len(w2) /\ w2[x].i = 1
      BY <1>1, <2>1, <2>3 DEF Place
    <3>2. x \in 1 .. Len(w)
      BY <1>2, <1>7, <3>1
    <3>3. QED
      BY <1>2, <1>3, <1>4, <2>1, <2>3, <3>1, <3>2, ZenonT(40) DEF Place
  <2>4. CASE x < 0
    <3>1. -x \in 1 .. Len(u)
      BY <1>1, <1>2, <2>1, <2>4 DEF Place
    <3>2. x \in DOMAIN F
      BY <1>3, <2>1, <3>1 DEF Place
    <3>3. QED
      BY <1>3, <1>4, <2>4, <3>2
  <2>5. QED
    BY <2>1, <2>2, <2>3, <2>4
<1>8. ASSUME NEW y \in DOMAIN F
      PROVE  y \in DOMAIN G /\ y # x0
  <2>1. y \in Int /\ Place(w, u, h, y)
    BY <1>3
  <2>2. Place(w2, u, h, y)
    BY <1>1, <1>2, <2>1 DEF Place
  <2>3. QED
    BY <1>4, <1>6, <2>1, <2>2
<1>9. ASSUME NEW x \in DOMAIN G, x # x0, x < 0 <=> x0 < 0 PROVE Before(x, x0)
  <2>1. x \in Int /\ ~ (x < 0) /\ Place(w2, u, h, x)
    BY <1>4, <1>5, <1>9
  <2>2. x <= Len(w)
    BY <1>1, <1>2, <1>9, <2>1 DEF Place
  <2>3. QED
    BY <1>1, <2>1, <2>2 DEF Before
<1>10. Flows(F, G, f, x0, x0)
  <2>1. \A x \in DOMAIN G : x \in Int /\ f[x] = x
    BY <1>4, <1>5
  <2>2. \A y \in DOMAIN F : y \in Int /\ f[y] = y
    BY <1>3, <1>5
  <2>3. QED
    BY <1>3, <1>4, <1>6, <1>7, <1>8, <1>9, <2>1, <2>2 DEF Flows
<1>11. QED
  BY <1>5, <1>6, <1>10, Zenon DEF Published

\* The client reads n cells inside a packet, and may be done with the packet.
LEMMA FlowRead ==
  ASSUME NEW w \in Seq(AllCells), NEW n \in 0 .. Len(w), NEW w2, w2 = SubSeq(w, n + 1, Len(w)),
         \A j \in 1 .. n : w[j].i # 1,
         NEW u \in Seq(Packets(Sent)), NEW h \in BOOLEAN, NEW h2 \in BOOLEAN, NEW g, NEW g2,
         h2 => h /\ g2 = g,
         NEW F, F = UnderWay(w, u, h, g), NEW G, G = UnderWay(w2, u, h2, g2)
  PROVE  Went(F, G, h2)
<1> SUFFICES ASSUME NEW x0, x0 = Len(w) + 1, NEW y0, y0 = IF h2 THEN Len(w) + 1 ELSE 0
             PROVE  Went(F, G, h2)
  OBVIOUS
<1> DEFINE f == [x \in Int |-> IF x > 0 THEN x + n ELSE x]
<1>1. /\ Len(w) \in Nat /\ Len(u) \in Nat /\ Len(w2) = Len(w) - n /\ Len(w2) \in Nat /\ n \in Nat
      /\ \A i \in 1 .. Len(w) - n : w2[i] = w[i + n]
  BY LenProperties, DropFacts
<1>3. /\ DOMAIN F \subseteq Int
      /\ \A x \in Int : x \in DOMAIN F <=> Place(w, u, h, x)
      /\ 0 \in DOMAIN F => F[0] = g
      /\ \A x \in DOMAIN F : x > 0 => F[x] = w[x].p
      /\ \A x \in DOMAIN F : x < 0 => F[x] = u[-x]
  BY <1>1, UnderWayFacts
<1>4. /\ DOMAIN G \subseteq Int
      /\ \A x \in Int : x \in DOMAIN G <=> Place(w2, u, h2, x)
      /\ 0 \in DOMAIN G => G[0] = g2
      /\ \A x \in DOMAIN G : x > 0 => G[x] = w2[x].p
      /\ \A x \in DOMAIN G : x < 0 => G[x] = u[-x]
  <2>1. Len(w2) \in Nat /\ Len(u) \in Nat /\ G = UnderWay(w2, u, h2, g2)
    BY <1>1
  <2>2. QED
    BY ONLY <2>1, UnderWayFacts
<1>5. x0 \in Int /\ x0 > 0 /\ y0 \in Int
  BY <1>1
<1>f. \A x \in Int : f[x] = IF x > 0 THEN x + n ELSE x
  OBVIOUS
<1> HIDE DEF f
<1>6. x0 \notin DOMAIN G /\ (y0 \in DOMAIN F => y0 = 0)
  <2>1. x0 \notin DOMAIN G
    BY <1>1, <1>4, <1>5 DEF Place
  <2>2. y0 \in DOMAIN F => y0 = 0
    BY <1>1, <1>3, <1>5 DEF Place
  <2>3. QED
    BY <2>1, <2>2
<1>7. ASSUME NEW x \in DOMAIN G
      PROVE  f[x] \in DOMAIN F /\ f[x] # y0 /\ G[x] = F[f[x]] /\ (x < 0 <=> f[x] < 0)
  <2>1. x \in Int /\ Place(w2, u, h2, x)
    BY <1>4
  <2>2. CASE x = 0
    <3>1. h2 /\ h /\ g2 = g
      BY <1>1, <2>1, <2>2 DEF Place
    <3>2. f[x] = 0 /\ 0 # y0
      <4>1. y0 = Len(w) + 1
        BY <3>1
      <4>2. QED
        BY ONLY <1>1, <1>f, <2>2, <4>1, SMTT(30)
    <3>3. 0 \in DOMAIN F
      BY <1>3, <2>1, <2>2, <3>1 DEF Place
    <3>4. QED
      BY <1>3, <1>4, <2>2, <3>1, <3>2, <3>3
  <2>3. CASE x > 0
    <3>1. x \in 1 .. Len(w) - n /\ w2[x].i = 1
      BY <1>1, <2>1, <2>3 DEF Place
    <3>2. w2[x] = w[x + n] /\ x + n \in 1 .. Len(w) /\ x + n > 0 /\ x + n # y0
      BY <1>1, <2>1, <2>3, <3>1, SMTT(30)
    <3>f. f[x] = x + n
      BY ONLY <1>f, <2>1, <2>3
    <3>3. x + n \in DOMAIN F
      BY <1>3, <3>1, <3>2 DEF Place
    <3>4. QED
      BY ONLY <1>3, <1>4, <2>1, <2>3, <3>2, <3>3, <3>f, x \in DOMAIN G
  <2>4. CASE x < 0
    <3>1. -x \in 1 .. Len(u)
      BY <1>1, <2>1, <2>4 DEF Place
    <3>2. x \in DOMAIN F
      BY <1>3, <2>1, <3>1 DEF Place
    <3>3. f[x] = x
      BY ONLY <1>f, <2>1, <2>4
    <3>4. x # y0
      BY <1>1, <2>1, <2>4
    <3>5. QED
      BY <1>3, <1>4, <2>4, <3>2, <3>3, <3>4
  <2>5. QED
    BY <2>1, <2>2, <2>3, <2>4
<1>8. ASSUME NEW y \in DOMAIN F, y # y0
      PROVE  \E x \in DOMAIN G : f[x] = y
  <2>1. y \in Int /\ Place(w, u, h, y)
    BY <1>3
  <2>2. CASE y = 0
    <3>1. h2 /\ f[y] = y
      BY <1>f, <1>8, <2>1, <2>2, SMTT(30)
    <3>2. y \in DOMAIN G
      BY <1>4, <2>1, <2>2, <3>1 DEF Place
    <3>3. QED
      BY <3>1, <3>2
  <2>3. CASE y > 0
    <3>1. y \in 1 .. Len(w) /\ w[y].i = 1
      BY <1>1, <2>1, <2>3 DEF Place
    <3>2. y > n
      BY <1>1, <3>1
    <3>3. y - n \in 1 .. Len(w) - n /\ (y - n) + n = y /\ y - n > 0 /\ y - n \in Int
      BY <1>1, <3>1, <3>2
    <3>f. f[y - n] = y
      BY ONLY <1>f, <3>3
    <3>4. w2[y - n] = w[y] /\ f[y - n] = y
      BY <1>1, <3>3, <3>f
    <3>5. y - n \in DOMAIN G
      BY <1>1, <1>4, <3>1, <3>3, <3>4 DEF Place
    <3>6. QED
      BY <3>4, <3>5
  <2>4. CASE y < 0
    <3>1. f[y] = y
      BY ONLY <1>f, <2>1, <2>4
    <3>2. -y \in 1 .. Len(u)
      BY <1>1, <2>1, <2>4 DEF Place
    <3>3. y \in DOMAIN G
      BY <1>4, <2>1, <3>2 DEF Place
    <3>4. QED
      BY <3>1, <3>3
  <2>5. QED
    BY <2>1, <2>2, <2>3, <2>4
<1>9. ASSUME NEW x \in DOMAIN G, NEW y \in DOMAIN G
      PROVE  Before(f[x], f[y]) <=> Before(x, y)
  <2>1. x \in Int /\ y \in Int
    BY <1>4
  <2>2. /\ f[x] = (IF x > 0 THEN x + n ELSE x) /\ f[y] = (IF y > 0 THEN y + n ELSE y)
        /\ n \in Nat
    BY ONLY <1>1, <1>f, <2>1
  <2>3. QED
    BY ONLY <2>1, <2>2 DEF Before
<1>10. ASSUME y0 \in DOMAIN F, NEW y \in DOMAIN F, y # y0, y < 0 <=> y0 < 0
       PROVE  Before(y0, y)
  BY <1>3, <1>6, <1>10 DEF Before
<1>11. Flows(F, G, f, x0, y0)
  <2> HIDE DEF Before
  <2>1. \A x \in DOMAIN G : x # x0
    BY <1>6
  <2>2. QED
    BY <1>3, <1>4, <1>6, <1>7, <1>8, <1>9, <1>10, <2>1 DEF Flows
<1>12. h2 => y0 # 0
  BY <1>1
<1>13. QED
  BY <1>5, <1>6, <1>11, <1>12, Zenon DEF Went

\* The client reads the header of a packet.
LEMMA FlowHeader ==
  ASSUME NEW w, w \in Seq(AllCells), Len(w) >= 1, w[1].i = 1, NEW w2, w2 = SubSeq(w, 2, Len(w)),
         NEW u, u \in Seq(Packets(Sent)), NEW h \in BOOLEAN, ~h, NEW h2 \in BOOLEAN, h2,
         NEW g, NEW g2, g2 = w[1].p,
         NEW F, F = UnderWay(w, u, h, g), NEW G, G = UnderWay(w2, u, h2, g2),
         NEW x0, x0 = Len(w) + 1
  PROVE  /\ Flows(F, G, [x \in Int |-> IF x < 0 THEN x ELSE x + 1], x0, x0)
         /\ x0 \in Int /\ x0 \notin DOMAIN G /\ x0 \notin DOMAIN F
<1> DEFINE f == [x \in Int |-> IF x < 0 THEN x ELSE x + 1]
<1>1. /\ Len(w) \in Nat /\ Len(u) \in Nat /\ Len(w2) = Len(w) - 1 /\ Len(w2) \in Nat
      /\ \A i \in 1 .. Len(w) - 1 : w2[i] = w[i + 1]
  <2>1. Len(w) \in Nat /\ 1 \in 0 .. Len(w) /\ w2 = SubSeq(w, 1 + 1, Len(w))
    BY LenProperties
  <2>2. Len(w2) = Len(w) - 1 /\ \A i \in 1 .. Len(w) - 1 : w2[i] = w[i + 1]
    BY <2>1, DropFacts
  <2>3. QED
    BY <2>1, <2>2, LenProperties
<1>3. /\ DOMAIN F \subseteq Int
      /\ \A x \in Int : x \in DOMAIN F <=> Place(w, u, h, x)
      /\ 0 \in DOMAIN F => F[0] = g
      /\ \A x \in DOMAIN F : x > 0 => F[x] = w[x].p
      /\ \A x \in DOMAIN F : x < 0 => F[x] = u[-x]
  <2>1. Len(w) \in Nat /\ Len(u) \in Nat /\ F = UnderWay(w, u, h, g)
    BY <1>1
  <2>2. QED
    BY ONLY <2>1, UnderWayFacts
<1>4. /\ DOMAIN G \subseteq Int
      /\ \A x \in Int : x \in DOMAIN G <=> Place(w2, u, h2, x)
      /\ 0 \in DOMAIN G => G[0] = g2
      /\ \A x \in DOMAIN G : x > 0 => G[x] = w2[x].p
      /\ \A x \in DOMAIN G : x < 0 => G[x] = u[-x]
  <2>1. Len(w2) \in Nat /\ Len(u) \in Nat /\ G = UnderWay(w2, u, h2, g2)
    BY <1>1
  <2>2. QED
    BY ONLY <2>1, UnderWayFacts
<1>5. x0 \in Int /\ x0 > 0
  BY <1>1
<1>f. \A x \in Int : (x < 0 => f[x] = x) /\ (~ (x < 0) => f[x] = x + 1)
  OBVIOUS
<1> HIDE DEF f
<1>6. x0 \notin DOMAIN G /\ x0 \notin DOMAIN F
  <2>1. x0 \notin DOMAIN G
    BY ONLY <1>1, <1>4, <1>5, x0 = Len(w) + 1 DEF Place
  <2>2. x0 \notin DOMAIN F
    BY ONLY <1>1, <1>3, <1>5, x0 = Len(w) + 1 DEF Place
  <2>3. QED
    BY <2>1, <2>2
<1>7. ASSUME NEW x \in DOMAIN G
      PROVE  f[x] \in DOMAIN F /\ G[x] = F[f[x]] /\ (x < 0 <=> f[x] < 0)
  <2>1. x \in Int /\ Place(w2, u, h2, x)
    BY <1>4
  <2>2. CASE x = 0
    <3>0. 1 \in 1 .. Len(w)
      BY <1>1
    <3>1. f[x] = 1 /\ 1 \in 1 .. Len(w)
      BY ONLY <1>f, <2>2, <3>0
    <3>2. 1 \in DOMAIN F
      <4>1. 1 \in Int /\ Place(w, u, h, 1)
        BY <3>1 DEF Place
      <4>2. QED
        BY ONLY <1>3, <4>1
    <3>3. QED
      BY ONLY <1>3, <1>4, <2>2, <3>1, <3>2, x \in DOMAIN G, g2 = w[1].p
  <2>3. CASE x > 0
    <3>1. x \in 1 .. Len(w) - 1 /\ w2[x].i = 1
      BY <1>1, <2>1, <2>3 DEF Place
    <3>2. w2[x] = w[x + 1] /\ x + 1 \in 1 .. Len(w) /\ x + 1 > 0
      BY <1>1, <2>1, <2>3, <3>1
    <3>f. f[x] = x + 1
      BY ONLY <1>f, <2>1, <2>3
    <3>3. x + 1 \in DOMAIN F
      BY ONLY <1>3, <3>1, <3>2 DEF Place
    <3>4. QED
      BY ONLY <1>3, <1>4, <2>1, <2>3, <3>2, <3>3, <3>f, x \in DOMAIN G
  <2>4. CASE x < 0
    <3>1. -x \in 1 .. Len(u)
      BY <1>1, <2>1, <2>4 DEF Place
    <3>2. x \in DOMAIN F
      BY <1>3, <2>1, <3>1 DEF Place
    <3>3. f[x] = x
      BY ONLY <1>f, <2>1, <2>4
    <3>4. QED
      BY <1>3, <1>4, <2>4, <3>2, <3>3
  <2>5. QED
    BY ONLY <2>1, <2>2, <2>3, <2>4
<1>8. ASSUME NEW y \in DOMAIN F
      PROVE  \E x \in DOMAIN G : f[x] = y
  <2>1. y \in Int /\ Place(w, u, h, y)
    BY <1>3
  <2>2. CASE y = 0
    BY <1>1, <2>1, <2>2 DEF Place
  <2>3. CASE y > 0
    <3>1. y \in 1 .. Len(w) /\ w[y].i = 1
      BY <1>1, <2>1, <2>3 DEF Place
    <3>2. CASE y = 1
      <4>1. 0 \in DOMAIN G
        BY ONLY <1>4, h2 DEF Place
      <4>2. f[0] = 1
        BY ONLY <1>f
      <4>3. QED
        BY <3>2, <4>1, <4>2
    <3>3. CASE y # 1
      <4>1. y - 1 \in 1 .. Len(w) - 1 /\ (y - 1) + 1 = y /\ y - 1 > 0 /\ y - 1 \in Int
        BY <1>1, <3>1, <3>3
      <4>f. f[y - 1] = y
        <5>1. ASSUME NEW z \in Int, z > 0 PROVE f[z] = z + 1
          BY ONLY <1>f, <5>1
        <5>2. f[y - 1] = (y - 1) + 1
          BY ONLY <4>1, <5>1
        <5>3. QED
          BY ONLY <4>1, <5>2
      <4>2. w2[y - 1] = w[y] /\ f[y - 1] = y
        BY <1>1, <4>1, <4>f
      <4>3. y - 1 \in DOMAIN G
        BY <1>1, <1>4, <3>1, <4>1, <4>2 DEF Place
      <4>4. QED
        BY <4>2, <4>3
    <3>4. QED
      BY <3>2, <3>3
  <2>4. CASE y < 0
    <3>1. f[y] = y
      BY ONLY <1>f, <2>1, <2>4
    <3>2. -y \in 1 .. Len(u)
      BY <1>1, <2>1, <2>4 DEF Place
    <3>3. y \in DOMAIN G
      BY <1>4, <2>1, <3>2 DEF Place
    <3>4. QED
      BY <3>1, <3>3
  <2>5. QED
    BY ONLY <2>1, <2>2, <2>3, <2>4
<1>9. ASSUME NEW x \in DOMAIN G, NEW y \in DOMAIN G
      PROVE  Before(f[x], f[y]) <=> Before(x, y)
  <2>1. x \in Int /\ y \in Int
    BY <1>4
  <2>2. f[x] = (IF x < 0 THEN x ELSE x + 1) /\ f[y] = (IF y < 0 THEN y ELSE y + 1)
    BY ONLY <1>f, <2>1
  <2>3. QED
    BY ONLY <2>1, <2>2 DEF Before
<1>10. Flows(F, G, f, x0, x0)
  <2>1. (\A x \in DOMAIN G : x # x0 /\ f[x] # x0) /\ \A y \in DOMAIN F : y # x0
    BY <1>6, <1>7
  <2>2. QED
    BY <1>3, <1>4, <1>6, <1>7, <1>8, <1>9, <2>1, ZenonT(40) DEF Flows
<1>11. QED
  BY <1>5, <1>6, <1>10 DEF f

-----------------------------------------------------------------------------
(* Whose packet it is: the answer it brings to the call of the client, or  *)
(* an exchange the broker began.                                           *)

\* The line of a packet of the client, and of one of the broker.
SentLine(p) ==
  CASE p.type = "CONNECT"     -> "CONNACK"
    [] p.type = "SUBSCRIBE"   -> "SUBACK"
    [] p.type = "UNSUBSCRIBE" -> "UNSUBACK"
    [] p.type = "PUBLISH"     -> <<"none", "PUBACK", "PUBCOMP">>[p.code + 1]
    [] p.type = "PUBREL"      -> "PUBCOMP"
    [] p.type = "PINGREQ"     -> "none"
    [] OTHER                  -> "theirs"
GotLine(p) ==
  CASE p.type = "PUBLISH"  -> IF p.code = 0 THEN "none" ELSE "theirs"
    [] p.type = "PUBREL"   -> "theirs"
    [] p.type = "PUBREC"   -> "PUBCOMP"
    [] p.type = "PINGRESP" -> "none"
    [] OTHER               -> p.type
Line(x, p) == IF x < 0 THEN SentLine(p) ELSE GotLine(p)

\* The acknowledgement of the client that a packet is, or calls for.
GotAsks(p) == CASE p.type = "PUBLISH" -> Reply.PUBLISH[p.code + 1]
                [] p.type = "PUBREC"  -> "PUBREL"
                [] p.type = "PUBREL"  -> "PUBCOMP"
                [] OTHER              -> "none"
SentAsks(p) == IF p.type \in Acks THEN p.type ELSE "none"
Asks(x, p) == IF x < 0 THEN SentAsks(p) ELSE GotAsks(p)

\* The packets of line l are all about n, and one at most.
Ours(F, l, n) ==
  \A x \in DOMAIN F : Line(x, F[x]) = l =>
    F[x].id = n /\ \A y \in DOMAIN F : Line(y, F[y]) = l => y = x

NoneOf(F, l) == \A x \in DOMAIN F : Line(x, F[x]) # l

\* One packet of line l at most has an identifier, and what it calls for is
\* waited for.
Exchange(F, l, aw) ==
  \A x \in DOMAIN F : Line(x, F[x]) = l =>
    /\ \A y \in DOMAIN F : Line(y, F[y]) = l /\ F[y].id = F[x].id => y = x
    /\ Asks(x, F[x]) # "none" => <<Asks(x, F[x]), F[x].id>> \in aw

Upto(F, l, n) == \A x \in DOMAIN F : Line(x, F[x]) = l => F[x].id <= n

\* What is new at x0 goes on from what was at y0, or is of another line.
Carries(F, G, x0, y0, l) ==
  x0 \in DOMAIN G /\ Line(x0, G[x0]) = l =>
    y0 \in DOMAIN F /\ Line(y0, F[y0]) = l /\ G[x0].id = F[y0].id

LEMMA FlowLine ==
  ASSUME NEW F, NEW G, NEW f, NEW x0, NEW y0, Flows(F, G, f, x0, y0),
         NEW x \in DOMAIN G, x # x0
  PROVE  /\ f[x] \in DOMAIN F /\ f[x] # y0 /\ G[x] = F[f[x]]
         /\ Line(x, G[x]) = Line(f[x], F[f[x]])
         /\ Asks(x, G[x]) = Asks(f[x], F[f[x]])
<1>1. /\ f[x] \in DOMAIN F /\ f[x] # y0 /\ G[x] = F[f[x]]
      /\ x < 0 <=> f[x] < 0
  BY DEF Flows
<1>2. Line(x, G[x]) = Line(f[x], F[f[x]])
  BY <1>1 DEF Line
<1>3. Asks(x, G[x]) = Asks(f[x], F[f[x]])
  BY <1>1 DEF Asks
<1>4. QED
  BY <1>1, <1>2, <1>3

LEMMA FlowApart ==
  ASSUME NEW F, NEW G, NEW f, NEW x0, NEW y0, Flows(F, G, f, x0, y0),
         NEW x \in DOMAIN G, x # x0, NEW y \in DOMAIN G, y # x0, f[x] = f[y]
  PROVE  x = y
<1>1. x \in Int /\ y \in Int /\ f[x] \in Int
  BY DEF Flows
<1>2. ~ Before(f[x], f[y]) /\ ~ Before(f[y], f[x])
  BY <1>1 DEF Before
<1>3. ~ Before(x, y) /\ ~ Before(y, x)
  BY <1>2 DEF Flows
<1>4. QED
  BY <1>1, <1>3 DEF Before

LEMMA OursKept ==
  ASSUME NEW F, NEW G, NEW f, NEW x0, NEW y0, Flows(F, G, f, x0, y0),
         NEW l, NEW n, Ours(F, l, n), Carries(F, G, x0, y0, l)
  PROVE  Ours(G, l, n)
<1>1. ASSUME NEW x \in DOMAIN G, Line(x, G[x]) = l PROVE G[x].id = n
  <2>1. CASE x = x0
    BY <1>1, <2>1 DEF Ours, Carries
  <2>2. CASE x # x0
    BY <1>1, <2>2, FlowLine DEF Ours
  <2>3. QED
    BY <2>1, <2>2
<1>2. ASSUME NEW x \in DOMAIN G, Line(x, G[x]) = l, NEW y \in DOMAIN G, Line(y, G[y]) = l
      PROVE  y = x
  <2>1. CASE x # x0 /\ y # x0
    <3>1. /\ f[x] \in DOMAIN F /\ Line(f[x], F[f[x]]) = l
          /\ f[y] \in DOMAIN F /\ Line(f[y], F[f[y]]) = l
      BY <1>2, <2>1, FlowLine
    <3>2. f[x] = f[y]
      BY <3>1 DEF Ours
    <3>3. QED
      BY <2>1, <3>2, FlowApart
  <2>2. ASSUME NEW z \in DOMAIN G, z # x0, Line(z, G[z]) = l, x0 \in DOMAIN G,
               Line(x0, G[x0]) = l
        PROVE  FALSE
    <3>1. f[z] \in DOMAIN F /\ Line(f[z], F[f[z]]) = l /\ f[z] # y0
      BY <2>2, FlowLine
    <3>2. y0 \in DOMAIN F /\ Line(y0, F[y0]) = l
      BY <2>2 DEF Carries
    <3>3. QED
      BY <3>1, <3>2 DEF Ours
  <2>3. QED
    BY <1>2, <2>1, <2>2
<1>3. QED
  BY <1>1, <1>2 DEF Ours

LEMMA NoneKept ==
  ASSUME NEW F, NEW G, NEW f, NEW x0, NEW y0, Flows(F, G, f, x0, y0),
         NEW l, NoneOf(F, l), Carries(F, G, x0, y0, l)
  PROVE  NoneOf(G, l)
<1>1. ASSUME NEW x \in DOMAIN G, Line(x, G[x]) = l PROVE FALSE
  <2>1. CASE x = x0
    BY <1>1, <2>1 DEF NoneOf, Carries
  <2>2. CASE x # x0
    BY <1>1, <2>2, FlowLine DEF NoneOf
  <2>3. QED
    BY <2>1, <2>2
<1>2. QED
  BY <1>1 DEF NoneOf

\* The first packet of a line.
LEMMA OursBegun ==
  ASSUME NEW F, NEW G, NEW f, NEW x0, NEW y0, Flows(F, G, f, x0, y0),
         NEW l, NEW n, NoneOf(F, l), x0 \in DOMAIN G /\ Line(x0, G[x0]) = l => G[x0].id = n
  PROVE  Ours(G, l, n)
<1>1. ASSUME NEW x \in DOMAIN G, Line(x, G[x]) = l PROVE x = x0
  BY <1>1, FlowLine DEF NoneOf
<1>2. QED
  BY <1>1 DEF Ours

\* The last.
LEMMA OursEnded ==
  ASSUME NEW F, NEW G, NEW f, NEW x0, NEW y0, Flows(F, G, f, x0, y0),
         NEW l, NEW n, Ours(F, l, n), x0 \notin DOMAIN G,
         y0 \in DOMAIN F, Line(y0, F[y0]) = l
  PROVE  NoneOf(G, l)
<1>1. ASSUME NEW x \in DOMAIN G, Line(x, G[x]) = l PROVE FALSE
  <2>1. f[x] \in DOMAIN F /\ f[x] # y0 /\ Line(f[x], F[f[x]]) = l
    BY <1>1, FlowLine
  <2>2. QED
    BY <2>1 DEF Ours
<1>2. QED
  BY <1>1 DEF NoneOf

\* The tags of the acknowledgements of a line.
Tags(l) == CASE l = "theirs" -> {"PUBACK", "PUBREC", "PUBCOMP"} [] OTHER -> {"PUBREL"}

\* What is no longer waited for is what was at y0.
Settles(F, y0, l, aw, aw2) ==
  \A t \in Tags(l), n \in Nat :
    <<t, n>> \in aw /\ <<t, n>> \notin aw2 =>
      y0 \in DOMAIN F /\ Line(y0, F[y0]) = l /\ n = F[y0].id

LEMMA ExchangeKept ==
  ASSUME NEW F, NEW G, NEW f, NEW x0, NEW y0, Flows(F, G, f, x0, y0),
         NEW l, NEW aw, NEW aw2, Exchange(F, l, aw), Carries(F, G, x0, y0, l),
         Settles(F, y0, l, aw, aw2),
         \A x \in DOMAIN F : F[x].id \in Nat,
         \A x \in DOMAIN F : Line(x, F[x]) = l => Asks(x, F[x]) \in Tags(l) \cup {"none"},
         x0 \in DOMAIN G /\ Line(x0, G[x0]) = l =>
           (Asks(x0, G[x0]) # "none" => <<Asks(x0, G[x0]), G[x0].id>> \in aw2)
  PROVE  Exchange(G, l, aw2)
<1>1. ASSUME NEW x \in DOMAIN G, Line(x, G[x]) = l, Asks(x, G[x]) # "none"
      PROVE  <<Asks(x, G[x]), G[x].id>> \in aw2
  <2>1. CASE x = x0
    BY <1>1, <2>1
  <2>2. CASE x # x0
    <3> DEFINE z == f[x]
    <3>1. /\ z \in DOMAIN F /\ z # y0 /\ G[x] = F[z]
          /\ Line(z, F[z]) = l /\ Asks(z, F[z]) = Asks(x, G[x])
      BY <1>1, <2>2, FlowLine
    <3> HIDE DEF z
    <3>2. <<Asks(z, F[z]), F[z].id>> \in aw /\ F[z].id \in Nat /\ Asks(z, F[z]) \in Tags(l)
      BY <1>1, <3>1 DEF Exchange
    <3>3. ~ (y0 \in DOMAIN F /\ Line(y0, F[y0]) = l /\ F[z].id = F[y0].id)
      BY <3>1 DEF Exchange
    <3>4. <<Asks(z, F[z]), F[z].id>> \in aw2
      BY <3>2, <3>3 DEF Settles
    <3>5. QED
      BY <3>1, <3>4
  <2>3. QED
    BY <2>1, <2>2
<1>2. ASSUME NEW x \in DOMAIN G, Line(x, G[x]) = l, NEW y \in DOMAIN G, Line(y, G[y]) = l,
             G[y].id = G[x].id
      PROVE  y = x
  <2>1. CASE x # x0 /\ y # x0
    <3>1. /\ f[x] \in DOMAIN F /\ Line(f[x], F[f[x]]) = l /\ F[f[x]] = G[x]
          /\ f[y] \in DOMAIN F /\ Line(f[y], F[f[y]]) = l /\ F[f[y]] = G[y]
      BY <1>2, <2>1, FlowLine
    <3>2. f[x] = f[y]
      BY <1>2, <3>1 DEF Exchange
    <3>3. QED
      BY <2>1, <3>2, FlowApart
  <2>2. ASSUME NEW z \in DOMAIN G, z # x0, Line(z, G[z]) = l, x0 \in DOMAIN G,
               Line(x0, G[x0]) = l, G[z].id = G[x0].id
        PROVE  FALSE
    <3>1. f[z] \in DOMAIN F /\ Line(f[z], F[f[z]]) = l /\ f[z] # y0 /\ F[f[z]] = G[z]
      BY <2>2, FlowLine
    <3>2. y0 \in DOMAIN F /\ Line(y0, F[y0]) = l /\ F[y0].id = G[x0].id
      BY <2>2 DEF Carries
    <3>3. QED
      BY <2>2, <3>1, <3>2 DEF Exchange
  <2>3. QED
    BY <1>2, <2>1, <2>2
<1>3. QED
  BY <1>1, <1>2 DEF Exchange

\* No packet of line l has identifier n.
Fresh(F, l, n) == \A x \in DOMAIN F : Line(x, F[x]) = l => F[x].id # n

\* A new exchange, with an identifier no other has.
LEMMA ExchangeBegun ==
  ASSUME NEW F, NEW G, NEW f, NEW x0, NEW y0, Flows(F, G, f, x0, y0),
         NEW l, NEW aw, NEW aw2, Exchange(F, l, aw), aw \subseteq aw2,
         NEW n, Fresh(F, l, n), G[x0].id = n,
         x0 \in DOMAIN G /\ Line(x0, G[x0]) = l =>
           (Asks(x0, G[x0]) # "none" => <<Asks(x0, G[x0]), G[x0].id>> \in aw2)
  PROVE  Exchange(G, l, aw2)
<1>1. ASSUME NEW x \in DOMAIN G, Line(x, G[x]) = l, Asks(x, G[x]) # "none"
      PROVE  <<Asks(x, G[x]), G[x].id>> \in aw2
  <2>1. CASE x = x0
    BY <1>1, <2>1
  <2>2. CASE x # x0
    BY <1>1, <2>2, FlowLine DEF Exchange
  <2>3. QED
    BY <2>1, <2>2
<1>2. ASSUME NEW x \in DOMAIN G, Line(x, G[x]) = l, NEW y \in DOMAIN G, Line(y, G[y]) = l,
             G[y].id = G[x].id
      PROVE  y = x
  <2>1. CASE x # x0 /\ y # x0
    <3>1. /\ f[x] \in DOMAIN F /\ Line(f[x], F[f[x]]) = l /\ F[f[x]] = G[x]
          /\ f[y] \in DOMAIN F /\ Line(f[y], F[f[y]]) = l /\ F[f[y]] = G[y]
      BY <1>2, <2>1, FlowLine
    <3>2. f[x] = f[y]
      BY <1>2, <3>1 DEF Exchange
    <3>3. QED
      BY <2>1, <3>2, FlowApart
  <2>2. ASSUME NEW z \in DOMAIN G, z # x0, Line(z, G[z]) = l, G[z].id = G[x0].id
        PROVE  FALSE
    BY <2>2, FlowLine DEF Fresh
  <2>3. QED
    BY <1>2, <2>1, <2>2
<1>3. QED
  BY <1>1, <1>2 DEF Exchange

LEMMA UptoKept ==
  ASSUME NEW F, NEW G, NEW f, NEW x0, NEW y0, Flows(F, G, f, x0, y0),
         NEW l, NEW n \in Nat, NEW m \in Nat, Upto(F, l, n), n <= m,
         \A x \in DOMAIN F : F[x].id \in Nat,
         \/ Carries(F, G, x0, y0, l)
         \/ x0 \in DOMAIN G /\ Line(x0, G[x0]) = l => G[x0].id <= m
  PROVE  Upto(G, l, m)
<1>1. ASSUME NEW x \in DOMAIN F, Line(x, F[x]) = l PROVE F[x].id <= m
  BY <1>1 DEF Upto
<1>2. ASSUME NEW x \in DOMAIN G, Line(x, G[x]) = l PROVE G[x].id <= m
  <2>1. CASE x = x0
    BY <1>1, <1>2, <2>1 DEF Carries
  <2>2. CASE x # x0
    BY <1>1, <1>2, <2>2, FlowLine
  <2>3. QED
    BY <2>1, <2>2
<1>3. QED
  BY <1>2 DEF Upto

-----------------------------------------------------------------------------
(* What each step does to what is under way.                               *)

LEMMA HandFacts == InHand \in BOOLEAN /\ InHand' \in BOOLEAN
BY DEF InHand

\* What lies where.
LEMMA FlightFacts ==
  ASSUME TypeInv
  PROVE  /\ \A x \in DOMAIN Flight :
              /\ x \in Int /\ Flight[x].id \in Nat
              /\ x < 0  => /\ -x \in 1 .. Len(up) /\ Flight[x] = up[-x]
                          /\ Flight[x] \in Packets(Sent)
              /\ x = 0  => InHand /\ Flight[x] = got
              /\ x > 0  => x \in 1 .. Len(wire) /\ wire[x].i = 1 /\ Flight[x] = wire[x].p
              /\ x >= 0 => Flight[x] \in Packets(Inbound)
         /\ 0 \in DOMAIN Flight <=> InHand
         /\ \A k \in 1 .. Len(up) : -k \in DOMAIN Flight /\ Flight[-k] = up[k]
<1> DEFINE F == Flight
<1>1. /\ wire \in Seq(AllCells) /\ up \in Seq(Packets(Sent))
      /\ Len(wire) \in Nat /\ Len(up) \in Nat
  BY LenProperties DEF TypeInv, NetOK
<1>2. /\ DOMAIN F \subseteq Int
      /\ \A x \in Int : x \in DOMAIN F <=> Place(wire, up, InHand, x)
      /\ 0 \in DOMAIN F => F[0] = got
      /\ \A x \in DOMAIN F : x > 0 => F[x] = wire[x].p
      /\ \A x \in DOMAIN F : x < 0 => F[x] = up[-x]
  BY <1>1, UnderWayFacts DEF Flight
<1> HIDE DEF F
<1>3. 0 \in DOMAIN F <=> InHand
  BY <1>1, <1>2 DEF Place
<1>4. ASSUME NEW x \in DOMAIN F
      PROVE  /\ x \in Int /\ F[x].id \in Nat
             /\ x < 0  => -x \in 1 .. Len(up) /\ F[x] = up[-x] /\ F[x] \in Packets(Sent)
             /\ x = 0  => InHand /\ F[x] = got
             /\ x > 0  => x \in 1 .. Len(wire) /\ wire[x].i = 1 /\ F[x] = wire[x].p
             /\ x >= 0 => F[x] \in Packets(Inbound)
  <2>1. x \in Int /\ Place(wire, up, InHand, x)
    BY <1>2
  <2>2. CASE x < 0
    <3>1. -x \in 1 .. Len(up) /\ F[x] = up[-x]
      BY <1>1, <1>2, <2>1, <2>2 DEF Place
    <3>2. F[x] \in Packets(Sent)
      BY <1>1, <3>1, ElementOfSeq
    <3>3. QED
      BY <2>1, <2>2, <3>1, <3>2 DEF Packets
  <2>3. CASE x = 0
    <3>1. InHand /\ F[x] = got
      BY <1>2, <1>3, <2>3
    <3>2. got \in Packets(Inbound)
      BY <3>1 DEF InHand, TypeInv, ReadOK
    <3>3. QED
      BY <2>1, <2>3, <3>1, <3>2 DEF Packets
  <2>4. CASE x > 0
    <3>1. x \in 1 .. Len(wire) /\ wire[x].i = 1 /\ F[x] = wire[x].p
      BY <1>1, <1>2, <2>1, <2>4 DEF Place
    <3>2. F[x] \in Packets(Inbound)
      BY <1>1, <3>1, CellFacts
    <3>3. QED
      BY <2>1, <2>4, <3>1, <3>2 DEF Packets
  <2>5. QED
    BY <2>1, <2>2, <2>3, <2>4
<1>5. ASSUME NEW k \in 1 .. Len(up) PROVE -k \in DOMAIN F /\ F[-k] = up[k]
  <2>1. -k \in Int /\ -k < 0 /\ -(-k) = k
    BY <1>1
  <2>2. -k \in DOMAIN F
    BY <1>1, <1>2, <2>1 DEF Place
  <2>3. QED
    BY <1>2, <2>1, <2>2
<1>6. QED
  BY <1>3, <1>4, <1>5 DEF F

\* A step that takes nothing from the wire; it may write p.
LEMMA WriteFlow ==
  ASSUME TypeInv, UNCHANGED wire, NEW p \in Packets(Sent), up' = up \/ up' = Append(up, p),
         InHand' => InHand /\ got' = got
  PROVE  \E f : \E x0, y0 \in Int :
           /\ Flows(Flight, Flight', f, x0, y0)
           /\ x0 < 0
           /\ x0 \in DOMAIN Flight' => up' # up /\ Flight'[x0] = p
           /\ y0 \in DOMAIN Flight => y0 = 0 /\ ~ InHand'
           /\ ~ InHand' => y0 = 0
<1>1. wire \in Seq(AllCells) /\ up \in Seq(Packets(Sent)) /\ Len(wire) \in Nat
  BY LenProperties DEF TypeInv, NetOK
<1>2. SUFFICES
        ASSUME NEW F, F = UnderWay(wire, up, InHand, got),
               NEW G, G = UnderWay(wire, up', InHand', got')
        PROVE  \E f : \E x0, y0 \in Int :
                 /\ Flows(F, G, f, x0, y0)
                 /\ x0 < 0
                 /\ x0 \in DOMAIN G => up' # up /\ G[x0] = p
                 /\ y0 \in DOMAIN F => y0 = 0 /\ ~ InHand'
                 /\ ~ InHand' => y0 = 0
  <2>1. Flight = UnderWay(wire, up, InHand, got) /\ Flight' = UnderWay(wire, up', InHand', got')
    BY DEF Flight
  <2>2. QED
    BY <2>1, Zenon
<1>3. PICK x0, y0 : x0 = -(Len(up) + 1) /\ y0 = IF InHand' THEN Len(wire) + 1 ELSE 0
  OBVIOUS
<1>4. /\ Flows(F, G, [x \in Int |-> x], x0, y0)
      /\ x0 \in Int /\ y0 \in Int /\ x0 < 0
      /\ x0 \in DOMAIN G => up' # up /\ G[x0] = p
      /\ y0 \in DOMAIN F => y0 = 0
  BY <1>1, <1>2, <1>3, HandFacts, FlowWrite
<1>5. (~ InHand' => y0 = 0) /\ (InHand' => y0 # 0)
  BY ONLY <1>1, <1>3
<1>6. QED
  <2>1. \E f : Flows(F, G, f, x0, y0)
    BY <1>4, Zenon
  <2>2. QED
    BY ONLY <1>4, <1>5, <2>1, Zenon

\* The broker takes a packet; it may answer r.
LEMMA TakeFlow ==
  ASSUME TypeInv, up # <<>>, up' = Tail(up), UNCHANGED <<pc, got>>,
         NEW r \in Packets(Inbound), wire' = wire \/ wire' = wire \o Cells(r)
  PROVE  Took(Flight, Flight', Head(up), r, wire, wire')
<1>1. wire \in Seq(AllCells) /\ up \in Seq(Packets(Sent))
  BY DEF TypeInv, NetOK
<1>2. InHand' = InHand /\ got' = got
  BY DEF InHand
<1>3. Flight = UnderWay(wire, up, InHand, got) /\ Flight' = UnderWay(wire', up', InHand', got')
  BY DEF Flight
<1>4. Flight' = UnderWay(wire', up', InHand, got)
  BY <1>2, <1>3, Zenon
<1>5. QED
  BY ONLY <1>1, <1>3, <1>4, up # <<>>, up' = Tail(up), r \in Packets(Inbound),
          wire' = wire \/ wire' = wire \o Cells(r), HandFacts, FlowTake

LEMMA PublishFlow ==
  ASSUME TypeInv, UNCHANGED <<up, pc, got>>,
         NEW r \in Packets(Inbound), wire' = wire \o Cells(r)
  PROVE  Published(Flight, Flight', r)
<1>1. wire \in Seq(AllCells) /\ up \in Seq(Packets(Sent))
  BY DEF TypeInv, NetOK
<1>2. InHand' = InHand /\ got' = got /\ up' = up
  BY DEF InHand
<1>3. Flight = UnderWay(wire, up, InHand, got) /\ Flight' = UnderWay(wire', up', InHand', got')
  BY DEF Flight
<1>4. Flight' = UnderWay(wire', up, InHand, got)
  BY <1>2, <1>3, Zenon
<1>5. QED
  BY ONLY <1>1, <1>3, <1>4, r \in Packets(Inbound), wire' = wire \o Cells(r),
          HandFacts, FlowPublish

\* A read of cells of the packet that was begun.
LEMMA ReadOnFlow ==
  ASSUME TypeInv, Placed, UNCHANGED up, NEW n \in 0 .. avail, Take(n), n <= Left,
         InHand' => InHand /\ got' = got
  PROVE  Went(Flight, Flight', InHand')
<1>1. /\ wire \in Seq(AllCells) /\ up \in Seq(Packets(Sent))
      /\ n \in 0 .. Len(wire) /\ wire' = SubSeq(wire, n + 1, Len(wire))
  BY TakeFacts DEF TypeInv, NetOK
<1>2. \A j \in 1 .. n : wire[j].i # 1
  <2>1. Left \in Nat
    BY LeftFacts
  <2>2. \A j \in 1 .. n : j \in 1 .. Left
    BY <2>1
  <2>3. QED
    BY <2>2 DEF Placed
<1>3. Flight = UnderWay(wire, up, InHand, got) /\ Flight' = UnderWay(wire', up', InHand', got')
  BY DEF Flight
<1>4. Flight' = UnderWay(wire', up, InHand', got')
  BY <1>3, Zenon
<1>5. QED
  BY ONLY <1>1, <1>2, <1>3, <1>4, InHand' => InHand /\ got' = got, HandFacts, FlowRead

\* A read of a header.
LEMMA HeaderFlow ==
  ASSUME TypeInv, Placed, UNCHANGED up, pc = "type", pc' = "length", Whole(1),
         got' = IF wire[1].i = 1 THEN wire[1].p ELSE NoPacket
  PROVE  Went(Flight, Flight', InHand')
<1>1. /\ wire \in Seq(AllCells) /\ up \in Seq(Packets(Sent)) /\ Len(wire) \in Nat
      /\ avail \in 0 .. Len(wire)
  BY LenProperties DEF TypeInv, NetOK
<1>2. Len(wire) >= 1 /\ 1 \in 1 .. Len(wire) /\ wire' = SubSeq(wire, 1 + 1, Len(wire))
  BY <1>1 DEF Whole, Take
<1>3. wire[1].i = 1
  <2>1. Left = 0
    BY DEF Left, Placed
  <2>2. QED
    BY <1>1, <1>2, <2>1 DEF Placed
<1>4. got' = wire[1].p /\ got' \in Packets(Inbound) /\ got'.type \in Inbound
  BY <1>1, <1>2, <1>3, CellFacts
<1>5. ~ InHand /\ InHand' /\ wire' = SubSeq(wire, 2, Len(wire))
  <2>1. got' # NoPacket
    BY <1>4, MqttClientAssumption DEF MqttClientAssumption, NoPacket, Plain, Packet
  <2>2. QED
    BY <1>2, <2>1 DEF InHand
<1>6. Flight = UnderWay(wire, up, InHand, got) /\ Flight' = UnderWay(wire', up', InHand', got')
  BY DEF Flight
<1>7. Flight' = UnderWay(wire', up, InHand', got')
  BY <1>6, Zenon
<1>8. PICK x0 : x0 = Len(wire) + 1
  OBVIOUS
<1>9. /\ Flows(Flight, Flight', [x \in Int |-> IF x < 0 THEN x ELSE x + 1], x0, x0)
      /\ x0 \in Int /\ x0 \notin DOMAIN Flight' /\ x0 \notin DOMAIN Flight
  BY ONLY <1>1, <1>2, <1>3, <1>4, <1>5, <1>6, <1>7, <1>8, HandFacts, FlowHeader, ZenonT(40)
<1>10. QED
  BY <1>9, Zenon DEF Went

LEMMA ReadFlow ==
  ASSUME TypeInv, Placed, link = "up", ~torn', Reads
  PROVE  Went(Flight, Flight', InHand')
<1>1. /\ UNCHANGED up /\ avail \in Nat /\ avail \in 0 .. avail /\ 0 \in 0 .. avail
      /\ remain_pktfrag_len \in Nat /\ rem_len \in Nat
  BY RemFacts, ReadLeft, LenProperties DEF TypeInv, NetOK, ClientOK
<1>2. ASSUME NEW n \in 0 .. avail, Take(n), n <= Left, InHand' => InHand /\ got' = got
      PROVE  Went(Flight, Flight', InHand')
  BY <1>1, <1>2, ReadOnFlow
<1>3. CASE DiscardRest
  <2>1. Left = remain_pktfrag_len /\ pc' \in {"discard", "keepalive"}
    BY <1>3 DEF DiscardRest, Left, Unread
  <2>2. ~ InHand'
    BY <1>3 DEF DiscardRest, InHand, Unread
  <2>3. Whole(remain_pktfrag_len) \/ Short(remain_pktfrag_len)
    BY <1>3 DEF DiscardRest
  <2>4. QED
    BY <1>1, <1>2, <2>1, <2>2, <2>3 DEF Whole, Short
<1>4. CASE ReadType
  <2>1. CASE Whole(1) /\ got' = (IF wire[1].i = 1 THEN wire[1].p ELSE NoPacket) /\ pc' = "length"
    <3>1. pc = "type"
      BY <1>4 DEF ReadType
    <3>2. QED
      BY <1>1, <2>1, <3>1, HeaderFlow
  <2>2. CASE Short(1) /\ Unread
    <3>1. Take(0) /\ 0 <= Left
      BY <1>1, <2>2, LeftFacts DEF Short
    <3>2. ~ InHand'
      BY <2>2 DEF Unread, InHand
    <3>3. QED
      BY <1>1, <1>2, <3>1, <3>2
  <2>3. QED
    BY <1>4, <2>1, <2>2 DEF ReadType
<1>5. CASE ReadLength
  <2>1. Left = 1 + rem_len /\ Whole(1)
    BY <1>5 DEF ReadLength, Left
  <2>2. 1 \in 0 .. avail /\ Take(1) /\ 1 <= Left
    BY <1>1, <2>1 DEF Whole
  <2>3. pc = "length" /\ got' = got
    BY <1>5 DEF ReadLength
  <2>4. InHand' => InHand /\ got' = got
    BY <2>3 DEF InHand
  <2>5. QED
    BY <1>2, <2>2, <2>4
<1>6. CASE ReadBody
  <2>1. Left = rem_len /\ pc = "body"
    BY <1>6 DEF ReadBody, Left
  <2>2. Whole(rem_len) \/ Short(rem_len)
    BY <1>6 DEF ReadBody
  <2>3. got' = got \/ got' = NoPacket
    BY <1>6 DEF ReadBody, Unread, reading
  <2>4. InHand' => InHand /\ got' = got
    BY <2>1, <2>3 DEF InHand
  <2>5. QED
    BY <1>1, <1>2, <2>1, <2>2, <2>4 DEF Whole, Short
<1>7. CASE DiscardBroken
  BY <1>7 DEF DiscardBroken
<1>8. QED
  BY <1>3, <1>4, <1>5, <1>6, <1>7 DEF Reads

LEMMA StillFlow ==
  ASSUME TypeInv, UNCHANGED <<wire, up>>, InHand' => InHand /\ got' = got
  PROVE  Went(Flight, Flight', InHand')
<1>1. Plain("PINGREQ") \in Packets(Sent)
  BY SentFacts DEF Plain, Sent, Tops
<1>2. \E f : \E x0, y0 \in Int :
        /\ Flows(Flight, Flight', f, x0, y0)
        /\ x0 < 0
        /\ x0 \in DOMAIN Flight' => up' # up /\ Flight'[x0] = Plain("PINGREQ")
        /\ y0 \in DOMAIN Flight => y0 = 0 /\ ~ InHand'
        /\ ~ InHand' => y0 = 0
  BY <1>1, WriteFlow
<1>3. QED
  BY <1>2, Zenon DEF Went

-----------------------------------------------------------------------------
(* The broker answers within the line.                                     *)

LEMMA BrokerAnswer ==
  ASSUME TypeInv, BrokerTake
  PROVE  \E r \in Packets(Inbound) :
           /\ wire' = wire \/ wire' = wire \o Cells(r)
           /\ wire' # wire =>
                /\ GotLine(r) = SentLine(Head(up))
                /\ r.id = IF Head(up).type \in {"CONNECT", "PINGREQ"} THEN 0 ELSE Head(up).id
                /\ GotAsks(r) # "none" => <<GotAsks(r), r.id>> \in awaits'
           /\ \A t \in Acks, n \in Nat :
                <<t, n>> \in awaits /\ <<t, n>> \notin awaits' =>
                  /\ n = Head(up).id
                  /\ SentLine(Head(up)) = IF t = "PUBREL" THEN "PUBCOMP" ELSE "theirs"
<1> DEFINE p        == Head(up)
           Ack(ty)  == Packet(ty, p.id, NoTopic, 0)
           Added(r) == r \in Packets(Inbound) /\ wire' = wire \o Cells(r)
           Fits(r)  == /\ GotLine(r) = SentLine(p)
                       /\ r.id = IF p.type \in {"CONNECT", "PINGREQ"} THEN 0 ELSE p.id
                       /\ GotAsks(r) # "none" => <<GotAsks(r), r.id>> \in awaits'
           Took1    == \A t \in Acks, n \in Nat :
                         <<t, n>> \in awaits /\ <<t, n>> \notin awaits' =>
                           /\ n = p.id
                           /\ SentLine(p) = IF t = "PUBREL" THEN "PUBCOMP" ELSE "theirs"
<1>0. SUFFICES \E r \in Packets(Inbound) :
                 (wire' = wire \/ (wire' = wire \o Cells(r) /\ Fits(r))) /\ Took1
  <2> HIDE DEF Took1, Fits
  <2>1. QED
    BY <1>0 DEF Took1, Fits
<1>1. p.code \in 0 .. 2
  <2>1. UpOK(up) /\ up # <<>> /\ up' = Tail(up)
    BY DEF UpOK, TypeInv, NetOK, BrokerTake
  <2>2. p \in Packets(Sent)
    BY <2>1, TailUp
  <2>3. QED
    BY <2>2 DEF Packets
<1>2. Plain("PINGRESP") \in Packets(Inbound)
  <2>1. "PINGRESP" \in Inbound /\ 0 \in Nat /\ NoTopic \in Tops /\ 0 \in 0 .. 2
    BY Constants DEF Tops
  <2>2. QED
    BY <2>1, PacketFacts DEF Plain
<1>c. \/ /\ p.type = "CONNECT"
         /\ \E c \in {0, 1} : Added(Packet("CONNACK", 0, NoTopic, c)) /\ session' = (c = 0)
         /\ UNCHANGED <<granted, awaits>>
      \/ /\ p.type = "SUBSCRIBE"
         /\ \E c \in {0, 1} : Added(Packet("SUBACK", p.id, p.topic, c))
         /\ UNCHANGED <<session, awaits>>
      \/ /\ p.type = "UNSUBSCRIBE"
         /\ Added(Packet("UNSUBACK", p.id, p.topic, 0))
         /\ UNCHANGED <<session, awaits>>
      \/ /\ p.type = "PUBLISH"
         /\ \/ p.code = 0 /\ UNCHANGED <<wire, awaits>>
            \/ p.code = 1 /\ Added(Ack("PUBACK")) /\ UNCHANGED awaits
            \/ /\ p.code = 2 /\ Added(Ack("PUBREC"))
               /\ awaits' = awaits \cup {<<"PUBREL", p.id>>}
      \/ /\ p.type = "PUBREL" /\ Added(Ack("PUBCOMP"))
         /\ awaits' = awaits \ {<<"PUBREL", p.id>>}
      \/ /\ p.type = "PUBREC" /\ Added(Ack("PUBREL"))
         /\ awaits' = (awaits \ {<<"PUBREC", p.id>>}) \cup {<<"PUBCOMP", p.id>>}
      \/ /\ p.type \in {"PUBACK", "PUBCOMP"} /\ UNCHANGED wire
         /\ awaits' = awaits \ {<<p.type, p.id>>}
      \/ /\ p.type = "PINGREQ" /\ Added(Plain("PINGRESP"))
         /\ UNCHANGED awaits
  BY BrokerCases, ZenonT(40)
<1> HIDE DEF p
<1> USE DEF SentLine, GotLine, GotAsks
<1>3. CASE awaits' = awaits /\ p.type \notin {"PUBREL", "PUBREC"}
           /\ ~ (p.type = "PUBLISH" /\ p.code = 2)
  <2>1. Took1
    BY <1>3
  <2> HIDE DEF Took1
  <2>2. CASE p.type = "CONNECT" /\ \E c \in {0, 1} : Added(Packet("CONNACK", 0, NoTopic, c))
    BY <2>1, <2>2 DEF Packet
  <2>3. CASE p.type = "SUBSCRIBE" /\ \E c \in {0, 1} : Added(Packet("SUBACK", p.id, p.topic, c))
    BY <2>1, <2>3 DEF Packet
  <2>4. CASE p.type = "UNSUBSCRIBE" /\ Added(Packet("UNSUBACK", p.id, p.topic, 0))
    BY <2>1, <2>4 DEF Packet
  <2>5. CASE p.type = "PUBLISH" /\ p.code = 1 /\ Added(Ack("PUBACK"))
    <3>1. SentLine(p) = "PUBACK"
      BY <2>5
    <3>2. Fits(Ack("PUBACK"))
      BY <2>5, <3>1 DEF Packet
    <3>3. QED
      BY <2>1, <2>5, <3>2
  <2>6. CASE p.type = "PINGREQ" /\ Added(Plain("PINGRESP"))
    BY <2>1, <2>6 DEF Packet, Plain
  <2>7. CASE UNCHANGED wire
    BY <1>2, <2>1, <2>7
  <2>8. QED
    BY <1>c, <1>3, <2>2, <2>3, <2>4, <2>5, <2>6, <2>7
<1>4. CASE p.type = "PUBLISH" /\ p.code = 2 /\ Added(Ack("PUBREC"))
           /\ awaits' = awaits \cup {<<"PUBREL", p.id>>}
  <2>1. Took1
    BY <1>4
  <2>2. Fits(Ack("PUBREC"))
    BY <1>4 DEF Packet
  <2>3. QED
    BY <1>4, <2>1, <2>2
<1>5. CASE p.type = "PUBREL" /\ Added(Ack("PUBCOMP")) /\ awaits' = awaits \ {<<"PUBREL", p.id>>}
  <2>1. Took1
    BY <1>5
  <2>2. Fits(Ack("PUBCOMP"))
    BY <1>5 DEF Packet
  <2>3. QED
    BY <1>5, <2>1, <2>2
<1>6. CASE p.type = "PUBREC" /\ Added(Ack("PUBREL"))
           /\ awaits' = (awaits \ {<<"PUBREC", p.id>>}) \cup {<<"PUBCOMP", p.id>>}
  <2>1. Took1
    BY <1>6
  <2>2. Fits(Ack("PUBREL"))
    BY <1>6 DEF Packet
  <2>3. QED
    BY <1>6, <2>1, <2>2
<1>7. CASE p.type \in {"PUBACK", "PUBCOMP"} /\ UNCHANGED wire
           /\ awaits' = awaits \ {<<p.type, p.id>>}
  <2>1. Took1
    BY <1>7
  <2>2. QED
    BY <1>2, <1>7, <2>1
<1> HIDE DEF Took1, Fits, Added, Ack, SentLine, GotLine, GotAsks
<1>8. CASE awaits' = awaits
  <2>1. CASE p.type \notin {"PUBREL", "PUBREC"} /\ ~ (p.type = "PUBLISH" /\ p.code = 2)
    BY <1>3, <1>8, <2>1
  <2>2. CASE p.type \in {"PUBREL", "PUBREC"} \/ (p.type = "PUBLISH" /\ p.code = 2)
    BY <1>c, <1>4, <1>5, <1>6, <2>2
  <2>3. QED
    BY <2>1, <2>2
<1>9. CASE awaits' # awaits
  BY <1>c, <1>4, <1>5, <1>6, <1>7, <1>9
<1>10. QED
  BY <1>8, <1>9

\* So does the client: an acknowledgement goes on from the message in hand.
LEMMA AckLine ==
  ASSUME TypeInv, HandlePublish \/ HandlePubrec
  PROVE  \/ UNCHANGED up
         \/ \E p \in Packets(Sent) :
              /\ up' = Append(up, p)
              /\ p.type = GotAsks(got) /\ p.type \in Acks /\ SentLine(p) = GotLine(got)
              /\ whole => p.id = got.id
<1>1. got \in Packets(Inbound) \cup {NoPacket} /\ NoPacket.type = "none" /\ got.id \in Nat
  BY DEF TypeInv, ReadOK, NoPacket, Plain, Packet, Packets
<1> DEFINE Written1(ty) == \E p \in Packets(Sent) :
                             up' = Append(up, p) /\ p.type = ty /\ (whole => p.id = got.id)
<1>2. ASSUME NEW ty \in Acks, Answer(ty)
      PROVE  UNCHANGED up \/ Written1(ty)
  <2>1. \A n \in IF whole THEN {got.id} ELSE 0 .. MaxId : n \in Nat
    BY <1>1, Constants
  <2>2. NoTopic \in Tops /\ ty \in Sent
    BY <1>2 DEF Tops, Acks, Sent
  <2>3. \A n \in Nat : /\ Packet(ty, n, NoTopic, 0) \in Packets(Sent)
                       /\ Packet(ty, n, NoTopic, 0).type = ty
                       /\ Packet(ty, n, NoTopic, 0).id = n
    BY <2>2, SentFacts DEF Packet
  <2>4. CASE \E n \in IF whole THEN {got.id} ELSE 0 .. MaxId : Written(Packet(ty, n, NoTopic, 0))
    <3>1. PICK n \in IF whole THEN {got.id} ELSE 0 .. MaxId : Written(Packet(ty, n, NoTopic, 0))
      BY <2>4
    <3>2. n \in Nat /\ (whole => n = got.id)
      BY <2>1, <3>1
    <3>3. up' = Append(up, Packet(ty, n, NoTopic, 0))
      BY <3>1 DEF Written
    <3>4. QED
      BY <2>3, <3>2, <3>3
  <2>5. CASE NotWritten
    BY <2>5 DEF NotWritten
  <2>6. QED
    BY <1>2, <2>4, <2>5 DEF Answer
<1> HIDE DEF Written1
<1>3. ASSUME NEW ty, NEW p \in Packets(Sent), p.type = ty, GotAsks(got) = ty, ty \in Acks,
             got.type \in {"PUBLISH", "PUBREC", "PUBREL"},
             ty = "PUBREL" => got.type = "PUBREC",
             ty # "PUBREL" => GotLine(got) = "theirs"
      PROVE  SentLine(p) = GotLine(got)
  BY <1>3 DEF SentLine, GotLine, Acks
<1>4. SUFFICES ASSUME NEW ty \in Acks, UNCHANGED up \/ Written1(ty), GotAsks(got) = ty,
                      got.type \in {"PUBLISH", "PUBREC", "PUBREL"},
                      ty = "PUBREL" => got.type = "PUBREC",
                      ty # "PUBREL" => GotLine(got) = "theirs"
               PROVE  \/ UNCHANGED up
                      \/ \E p \in Packets(Sent) :
                           /\ up' = Append(up, p)
                           /\ p.type = GotAsks(got) /\ p.type \in Acks
                           /\ SentLine(p) = GotLine(got)
                           /\ whole => p.id = got.id
  <2>1. CASE HandlePublish
    <3>1. pc = "handle" /\ got.type = "PUBLISH" /\ got # NoPacket /\ got.code \in 0 .. 2
      BY <1>1, <2>1 DEF HandlePublish, Packets
    <3>2. CASE got.code = 0
      BY <2>1, <3>2 DEF HandlePublish, NotWritten
    <3>3. CASE got.code # 0
      <4> DEFINE ty == Reply.PUBLISH[got.code + 1]
      <4>1. ty \in {"PUBACK", "PUBREC"}
        BY <3>1, <3>3 DEF Reply
      <4>2. Answer(ty)
        BY <2>1, <3>3 DEF HandlePublish
      <4>3. GotAsks(got) = ty /\ GotLine(got) = "theirs"
        BY <3>1, <3>3 DEF GotAsks, GotLine
      <4> HIDE DEF ty
      <4>4. ty \in Acks /\ ty # "PUBREL"
        BY <4>1 DEF Acks
      <4>5. UNCHANGED up \/ Written1(ty)
        BY <1>2, <4>2, <4>4
      <4>6. QED
        BY <1>4, <3>1, <4>3, <4>4, <4>5
    <3>4. QED
      BY <3>2, <3>3
  <2>2. CASE HandlePubrec
    <3>1. pc = "handle" /\ got.type \in {"PUBREC", "PUBREL"} /\ Answer(Reply[got.type])
      BY <2>2 DEF HandlePubrec
    <3>2. /\ GotAsks(got) = Reply[got.type] /\ Reply[got.type] \in Acks
          /\ Reply[got.type] = "PUBREL" => got.type = "PUBREC"
          /\ Reply[got.type] # "PUBREL" => GotLine(got) = "theirs"
      BY <3>1 DEF GotAsks, GotLine, Reply, Acks
    <3>3. UNCHANGED up \/ Written1(Reply[got.type])
      BY <1>2, <3>1, <3>2
    <3>4. QED
      BY <1>4, <3>1, <3>2, <3>3
  <2>3. QED
    BY <2>1, <2>2
<1>5. CASE Written1(ty)
  <2>1. PICK p \in Packets(Sent) :
          up' = Append(up, p) /\ p.type = ty /\ (whole => p.id = got.id)
    BY <1>5 DEF Written1
  <2>2. SentLine(p) = GotLine(got)
    BY <1>3, <1>4, <2>1
  <2>3. QED
    BY <1>4, <2>1, <2>2
<1>6. QED
  BY <1>4, <1>5

\* A request begins the line of its answer.
LEMMA RequestLine ==
  ASSUME TypeInv, Requests
  PROVE  \E p \in Packets(Sent) :
           /\ \/ UNCHANGED up /\ pc' = "idle"
              \/ /\ up' = Append(up, p)
                 /\ pc' = IF Want[call'.op] = "nothing" THEN "idle" ELSE "loop"
           /\ SentLine(p) = IF Want[call'.op] = "nothing" THEN "none" ELSE Want[call'.op]
           /\ SentAsks(p) = "none" /\ p.id = call'.id
           /\ \/ next_packetid' = next_packetid /\ Want[call'.op] = "nothing"
              \/ next_packetid' = NextId /\ call'.id = NextId
           /\ call'.op # "connect"
           /\ p.type = "SUBSCRIBE" => call'.op = "subscribe" /\ p.topic = call'.topic
           /\ p.type = "UNSUBSCRIBE" => call'.op = "unsubscribe" /\ p.topic = call'.topic
<1>1. NextId \in Nat /\ next_packetid \in Nat /\ NoTopic \in Tops
  BY NextIdFacts, Constants DEF TypeInv, ClientOK, Tops
<1>2. ASSUME NEW op, NEW n, NEW tp, NEW p, Request(op, n, tp, p)
      PROVE  /\ \/ UNCHANGED up /\ pc' = "idle"
                \/ up' = Append(up, p) /\ pc' = IF Want[op] = "nothing" THEN "idle" ELSE "loop"
             /\ call'.op = op /\ call'.id = n /\ call'.topic = tp
  <2>1. call' = Call(op, n, tp)
    BY <1>2 DEF Request, Begin
  <2>2. call'.op = op /\ call'.id = n /\ call'.topic = tp
    BY <2>1 DEF Call
  <2>3. QED
    BY <1>2, <2>2 DEF Request, NotWritten, Written
<1> USE DEF SentLine, SentAsks, Acks
<1>3. CASE MQTTSubscribe
  <2>1. PICK tp \in Topics :
          /\ Request("subscribe", NextId, tp, Packet("SUBSCRIBE", NextId, tp, 0))
          /\ next_packetid' = NextId
    BY <1>3 DEF MQTTSubscribe
  <2> DEFINE p == Packet("SUBSCRIBE", NextId, tp, 0)
  <2>2. p \in Packets(Sent) /\ p.type = "SUBSCRIBE" /\ p.id = NextId /\ p.topic = tp
    BY <1>1, SentFacts DEF Tops, Sent, Packet
  <2>3. /\ \/ UNCHANGED up /\ pc' = "idle"
           \/ up' = Append(up, p) /\ pc' = IF Want["subscribe"] = "nothing" THEN "idle" ELSE "loop"
        /\ call'.op = "subscribe" /\ call'.id = NextId /\ call'.topic = tp
    BY <1>2, <2>1
  <2>4. Want["subscribe"] = "SUBACK"
    BY DEF Want
  <2> HIDE DEF p
  <2>5. QED
    BY <2>1, <2>2, <2>3, <2>4
<1>4. CASE MQTTUnsubscribe
  <2>1. PICK tp \in Topics :
          /\ Request("unsubscribe", NextId, tp, Packet("UNSUBSCRIBE", NextId, tp, 0))
          /\ next_packetid' = NextId
    BY <1>4 DEF MQTTUnsubscribe
  <2> DEFINE p == Packet("UNSUBSCRIBE", NextId, tp, 0)
  <2>2. p \in Packets(Sent) /\ p.type = "UNSUBSCRIBE" /\ p.id = NextId /\ p.topic = tp
    BY <1>1, SentFacts DEF Tops, Sent, Packet
  <2>3. /\ \/ UNCHANGED up /\ pc' = "idle"
           \/ up' = Append(up, p) /\ pc' = IF Want["unsubscribe"] = "nothing" THEN "idle" ELSE "loop"
        /\ call'.op = "unsubscribe" /\ call'.id = NextId /\ call'.topic = tp
    BY <1>2, <2>1
  <2>4. Want["unsubscribe"] = "UNSUBACK"
    BY DEF Want
  <2> HIDE DEF p
  <2>5. QED
    BY <2>1, <2>2, <2>3, <2>4
<1>5. CASE MQTTPublish
  <2>1. PICK q \in 0 .. 2 :
          LET n == IF q = 0 THEN next_packetid ELSE NextId
              op == CASE q = 0 -> "publish0" [] q = 1 -> "publish1" [] q = 2 -> "publish2"
          IN /\ Request(op, n, NoTopic, Packet("PUBLISH", n, NoTopic, q))
             /\ next_packetid' = n
    BY <1>5 DEF MQTTPublish
  <2> DEFINE n == IF q = 0 THEN next_packetid ELSE NextId
             op == CASE q = 0 -> "publish0" [] q = 1 -> "publish1" [] q = 2 -> "publish2"
             p == Packet("PUBLISH", n, NoTopic, q)
  <2>2. p \in Packets(Sent) /\ p.type = "PUBLISH" /\ p.id = n /\ p.code = q
    <3>1. "PUBLISH" \in Sent /\ n \in Nat
      BY <1>1 DEF Sent
    <3> HIDE DEF n
    <3>2. QED
      BY <1>1, <3>1, PacketFacts DEF Packet
  <2>3. Request(op, n, NoTopic, p) /\ next_packetid' = n
    BY <2>1
  <2>4. q = 0 \/ q = 1 \/ q = 2
    OBVIOUS
  <2>5. /\ op \in {"publish0", "publish1", "publish2"}
        /\ <<"none", "PUBACK", "PUBCOMP">>[q + 1] =
             IF Want[op] = "nothing" THEN "none" ELSE Want[op]
        /\ (n = next_packetid /\ Want[op] = "nothing") \/ n = NextId
    <3>1. CASE q = 0
      BY <3>1 DEF Want
    <3>2. CASE q = 1
      BY <3>2 DEF Want
    <3>3. CASE q = 2
      BY <3>3 DEF Want
    <3>4. QED
      BY <2>4, <3>1, <3>2, <3>3
  <2> HIDE DEF p, n, op
  <2>6. /\ \/ UNCHANGED up /\ pc' = "idle"
           \/ up' = Append(up, p) /\ pc' = IF Want[op] = "nothing" THEN "idle" ELSE "loop"
        /\ call'.op = op /\ call'.id = n
    BY <1>2, <2>3
  <2>7. /\ SentLine(p) = IF Want[op] = "nothing" THEN "none" ELSE Want[op]
        /\ SentAsks(p) = "none"
    BY <2>2, <2>5
  <2>8. op # "connect"
    BY <2>5
  <2> HIDE DEF SentLine, SentAsks
  <2>9. QED
    BY <2>2, <2>3, <2>5, <2>6, <2>7, <2>8
<1>6. QED
  BY <1>3, <1>4, <1>5 DEF Requests

-----------------------------------------------------------------------------
(* Answers and acknowledgements: the invariant.                            *)

Acked == {"CONNACK", "SUBACK", "UNSUBACK", "PUBACK", "PUBCOMP"}

\* A call waits for an answer of type l.
Waits(q, c, l) == q # "idle" /\ Want[c.op] = l

\* Of the answers no call stopped waiting for, those under way are the one that
\* is waited for.
One == \A l \in Acked \ gaveUp :
         IF Waits(pc, call, l) THEN Ours(Flight, l, call.id) ELSE NoneOf(Flight, l)

\* The exchanges of the broker, and those of the client while identifiers are
\* apart, are in step; none is ahead of the identifiers given.
Exch == /\ Exchange(Flight, "theirs", awaits) /\ Upto(Flight, "theirs", pubs)
        /\ IdsApart => Exchange(Flight, "PUBCOMP", awaits)
        /\ calls <= MaxId => Upto(Flight, "PUBCOMP", next_packetid)

\* What the steps of a call leave of it.
Bound == /\ calls <= MaxId => next_packetid <= calls
         /\ pc # "idle" => done = NoPacket
         /\ pc = "answer" => got.type = Want[call.op]
         /\ call.op = "connect" => call.id = 0
         /\ Sound /\ pc \in {"body", "handle"} => whole

LineInv == Bound /\ (Sound => One /\ Exch)

LEMMA OneKept ==
  ASSUME NEW f, NEW x0, NEW y0, Flows(Flight, Flight', f, x0, y0), One,
         gaveUp \subseteq gaveUp',
         \A l \in Acked \ gaveUp' :
           /\ Carries(Flight, Flight', x0, y0, l)
           /\ Waits(pc', call', l) <=> Waits(pc, call, l)
           /\ Waits(pc, call, l) => call'.id = call.id
  PROVE  One'
<1>1. ASSUME NEW l \in Acked \ gaveUp'
      PROVE  IF Waits(pc', call', l) THEN Ours(Flight', l, call'.id) ELSE NoneOf(Flight', l)
  <2>1. l \in Acked \ gaveUp
    OBVIOUS
  <2>2. CASE Waits(pc, call, l)
    <3>1. Ours(Flight, l, call.id)
      BY <2>1, <2>2 DEF One
    <3>2. Ours(Flight', l, call.id)
      BY <1>1, <3>1, OursKept
    <3>3. QED
      BY <1>1, <2>2, <3>2
  <2>3. CASE ~ Waits(pc, call, l)
    <3>1. NoneOf(Flight, l)
      BY <2>1, <2>3 DEF One
    <3>2. NoneOf(Flight', l)
      BY <1>1, <3>1, NoneKept
    <3>3. QED
      BY <1>1, <2>3, <3>2
  <2>4. QED
    BY <2>2, <2>3
<1>2. QED
  BY <1>1 DEF One, Waits

LEMMA AsksTags ==
  ASSUME TypeInv, NEW l \in {"theirs", "PUBCOMP"}
  PROVE  \A x \in DOMAIN Flight :
           Line(x, Flight[x]) = l => Asks(x, Flight[x]) \in Tags(l) \cup {"none"}
<1>1. ASSUME NEW p \in Packets(Sent), SentLine(p) = l PROVE SentAsks(p) \in Tags(l) \cup {"none"}
  <2>1. p.type \in Sent /\ p.code \in 0 .. 2
    BY DEF Packets
  <2>2. CASE p.type = "PUBLISH"
    BY <2>2 DEF SentAsks, Acks
  <2>3. CASE p.type # "PUBLISH"
    BY <1>1, <2>1, <2>3 DEF SentLine, SentAsks, Tags, Acks, Sent
  <2>4. QED
    BY <2>2, <2>3
<1>2. ASSUME NEW p \in Packets(Inbound), GotLine(p) = l PROVE GotAsks(p) \in Tags(l) \cup {"none"}
  <2>1. p.type \in Inbound /\ p.code \in 0 .. 2
    BY DEF Packets
  <2>2. CASE p.type = "PUBLISH"
    <3>1. p.code = 0 \/ p.code = 1 \/ p.code = 2
      BY <2>1
    <3>2. GotAsks(p) = Reply.PUBLISH[p.code + 1]
      BY <2>2 DEF GotAsks
    <3>3. GotAsks(p) \in {"none", "PUBACK", "PUBREC"}
      BY <3>1, <3>2 DEF Reply
    <3>4. p.code # 0 => l = "theirs"
      BY <1>2, <2>2 DEF GotLine
    <3>5. p.code # 0
      BY <1>2, <2>2 DEF GotLine
    <3>6. QED
      BY <3>3, <3>4, <3>5 DEF Tags
  <2>3. CASE p.type = "PUBREC"
    BY <1>2, <2>3 DEF GotLine, GotAsks, Tags
  <2>4. CASE p.type = "PUBREL"
    BY <1>2, <2>4 DEF GotLine, GotAsks, Tags
  <2>5. CASE p.type \notin {"PUBLISH", "PUBREC", "PUBREL"}
    BY <2>5 DEF GotAsks
  <2>6. QED
    BY <2>2, <2>3, <2>4, <2>5
<1>3. QED
  BY <1>1, <1>2, FlightFacts DEF Line, Asks

\* The lines a step keeps to.
Live == (Acked \ gaveUp') \cup {"theirs", "PUBCOMP"}

\* A step keeps to the lines: what is new goes on from what is gone.
Kept ==
  \E f : \E x0, y0 \in Int :
    /\ Flows(Flight, Flight', f, x0, y0)
    /\ \A l \in Live : Carries(Flight, Flight', x0, y0, l)
    /\ \A l \in {"theirs", "PUBCOMP"} :
         /\ Settles(Flight, y0, l, awaits, awaits')
         /\ x0 \in DOMAIN Flight' /\ Line(x0, Flight'[x0]) = l /\ (l = "PUBCOMP" => IdsApart') =>
              (Asks(x0, Flight'[x0]) # "none" =>
                 <<Asks(x0, Flight'[x0]), Flight'[x0].id>> \in awaits')

\* A step that only moves packets on.
LEMMA WentKept ==
  ASSUME Went(Flight, Flight', InHand'), awaits' = awaits
  PROVE  Kept
<1>1. PICK f : \E x0, y0 \in Int : Flows(Flight, Flight', f, x0, y0) /\ x0 \notin DOMAIN Flight'
  BY Zenon DEF Went
<1>2. PICK x0 \in Int, y0 \in Int :
        Flows(Flight, Flight', f, x0, y0) /\ x0 \notin DOMAIN Flight'
  BY <1>1, Zenon
<1>3. \A l : Carries(Flight, Flight', x0, y0, l) /\ Settles(Flight, y0, l, awaits, awaits')
  BY <1>2 DEF Carries, Settles
<1>4. QED
  BY <1>2, <1>3, Zenon DEF Kept

LEMMA OneStep ==
  ASSUME One, Kept, gaveUp \subseteq gaveUp',
         \A l \in Acked \ gaveUp' :
           /\ Waits(pc', call', l) <=> Waits(pc, call, l)
           /\ Waits(pc, call, l) => call'.id = call.id
  PROVE  One'
<1>1. PICK f : \E x0, y0 \in Int :
        /\ Flows(Flight, Flight', f, x0, y0)
        /\ \A l \in Live : Carries(Flight, Flight', x0, y0, l)
  BY Zenon DEF Kept
<1>2. PICK x0 \in Int, y0 \in Int :
        /\ Flows(Flight, Flight', f, x0, y0)
        /\ \A l \in Live : Carries(Flight, Flight', x0, y0, l)
  BY <1>1, Zenon
<1>3. QED
  BY <1>2, OneKept DEF Live

LEMMA ExchStep ==
  ASSUME TypeInv, Exch, Kept, pubs' = pubs, IdsApart' => IdsApart,
         calls' <= MaxId => calls <= MaxId /\ next_packetid <= next_packetid',
         next_packetid' \in Nat
  PROVE  Exch'
<1> DEFINE Asked1(l, x0) == x0 \in DOMAIN Flight' /\ Line(x0, Flight'[x0]) = l =>
                (Asks(x0, Flight'[x0]) # "none" =>
                   <<Asks(x0, Flight'[x0]), Flight'[x0].id>> \in awaits')
<1>1. PICK f : \E x0, y0 \in Int :
        /\ Flows(Flight, Flight', f, x0, y0)
        /\ \A l \in Live : Carries(Flight, Flight', x0, y0, l)
        /\ \A l \in {"theirs", "PUBCOMP"} :
             /\ Settles(Flight, y0, l, awaits, awaits')
             /\ (l = "PUBCOMP" => IdsApart') => Asked1(l, x0)
  BY Zenon DEF Kept
<1>2. PICK x0 \in Int, y0 \in Int :
        /\ Flows(Flight, Flight', f, x0, y0)
        /\ \A l \in Live : Carries(Flight, Flight', x0, y0, l)
        /\ \A l \in {"theirs", "PUBCOMP"} :
             /\ Settles(Flight, y0, l, awaits, awaits')
             /\ (l = "PUBCOMP" => IdsApart') => Asked1(l, x0)
  BY <1>1, Zenon
<1>3. \A x \in DOMAIN Flight : Flight[x].id \in Nat
  BY FlightFacts
<1>4. pubs \in Nat /\ next_packetid \in Nat /\ pubs <= pubs
  BY Constants DEF TypeInv, BrokerOK, ClientOK
<1>5. \A l \in {"theirs", "PUBCOMP"} : Carries(Flight, Flight', x0, y0, l)
  BY <1>2 DEF Live
<1>6. Exchange(Flight, "theirs", awaits) => Exchange(Flight', "theirs", awaits')
  <2>1. Asked1("theirs", x0) /\ Settles(Flight, y0, "theirs", awaits, awaits')
    BY <1>2
  <2>2. QED
    BY <1>2, <1>3, <1>5, <2>1, AsksTags, ExchangeKept
<1>7. ASSUME IdsApart'
      PROVE  Exchange(Flight, "PUBCOMP", awaits) => Exchange(Flight', "PUBCOMP", awaits')
  <2>1. Asked1("PUBCOMP", x0) /\ Settles(Flight, y0, "PUBCOMP", awaits, awaits')
    BY <1>2, <1>7
  <2>2. QED
    BY <1>2, <1>3, <1>5, <2>1, AsksTags, ExchangeKept
<1>8. Upto(Flight, "theirs", pubs) => Upto(Flight', "theirs", pubs)
  BY <1>2, <1>3, <1>4, <1>5, UptoKept
<1>9. ASSUME calls' <= MaxId, Upto(Flight, "PUBCOMP", next_packetid)
      PROVE  Upto(Flight', "PUBCOMP", next_packetid')
  BY <1>2, <1>3, <1>4, <1>5, <1>9, UptoKept
<1>10. QED
  BY <1>6, <1>7, <1>8, <1>9 DEF Exch

\* The steps that touch nothing that is under way.
LEMMA StillKept ==
  ASSUME TypeInv, Arrive \/ Apart
  PROVE  /\ Kept /\ UNCHANGED <<up, wire, awaits, pubs>>
         /\ Went(Flight, Flight', InHand')
<1>1. UNCHANGED <<up, wire, awaits, pubs>>
  BY ApartFacts DEF Arrive, net, broker
<1>2. CASE Arrive \/ PingDue \/ Expire
  <2>1. UNCHANGED <<pc, got>>
    BY <1>2 DEF Arrive, PingDue, Expire, reading
  <2>2. InHand' => InHand /\ got' = got
    BY <2>1 DEF InHand
  <2>3. QED
    BY <1>1, <2>2, StillFlow, WentKept
<1>3. CASE MQTTYield \/ LoopEnd \/ LoopOn \/ DiscardEnd \/ CallEnd
  <2>1. pc' \in {"loop", "idle", "discard", "type"}
    BY <1>3 DEF MQTTYield, LoopEnd, GiveUp, LoopOn, DiscardEnd, CallEnd, EndCycle
  <2>2. ~ InHand'
    BY <2>1 DEF InHand
  <2>3. QED
    BY <1>1, <2>2, StillFlow, WentKept
<1>4. CASE DiscardLate
  <2>1. ~ InHand'
    BY <1>4 DEF DiscardLate, Unread, InHand
  <2>2. QED
    BY <1>1, <2>1, StillFlow, WentKept
<1>5. CASE HandleOther
  <2>1. pc = "handle" /\ got' = got /\ pc' = "keepalive"
    BY <1>5 DEF HandleOther, reading
  <2>2. InHand' => InHand /\ got' = got
    BY <2>1 DEF InHand
  <2>3. QED
    BY <1>1, <2>2, StillFlow, WentKept
<1>6. QED
  BY <1>2, <1>3, <1>4, <1>5 DEF Apart

LEMMA ReadsKept ==
  ASSUME TypeInv, Placed, link = "up", ~torn', Reads
  PROVE  Kept
<1>1. awaits' = awaits
  BY DEF Reads, DiscardRest, DiscardBroken, ReadType, ReadLength, ReadBody, broker
<1>2. QED
  BY <1>1, ReadFlow, WentKept

LEMMA PingReqKept ==
  ASSUME TypeInv, Keepalive
  PROVE  Kept
<1> DEFINE p == Plain("PINGREQ")
<1>1. /\ UNCHANGED <<wire, awaits>> /\ p \in Packets(Sent) /\ p.type = "PINGREQ"
      /\ up' = up \/ up' = Append(up, p)
      /\ pc = "keepalive"
      /\ \/ pc' = "answer" /\ got' = got
         \/ pc' = "loop"
  <2>1. UNCHANGED <<wire, broker>> /\ pc = "keepalive"
    BY KeepaliveFacts
  <2>2. p \in Packets(Sent) /\ p.type = "PINGREQ"
    BY KeepaliveFacts, SentFacts DEF Plain, Sent, Tops
  <2>3. up' = up \/ up' = Append(up, p)
    BY DEF Keepalive, Written, NotWritten
  <2>4. (pc' = "answer" /\ UNCHANGED reading) \/ pc' = "loop"
    BY KeepaliveFacts
  <2>5. QED
    BY <2>1, <2>2, <2>3, <2>4 DEF broker, reading
<1>2. InHand' => InHand /\ got' = got
  BY <1>1 DEF InHand
<1>3. SentLine(p) = "none"
  BY <1>1 DEF SentLine
<1> HIDE DEF p
<1>4. PICK f : \E x0, y0 \in Int :
        /\ Flows(Flight, Flight', f, x0, y0)
        /\ x0 < 0
        /\ x0 \in DOMAIN Flight' => Flight'[x0] = p
  BY <1>1, <1>2, WriteFlow
<1>5. PICK x0 \in Int, y0 \in Int :
        /\ Flows(Flight, Flight', f, x0, y0)
        /\ x0 < 0
        /\ x0 \in DOMAIN Flight' => Flight'[x0] = p
  BY <1>4, Zenon
<1>6. x0 \in DOMAIN Flight' => Line(x0, Flight'[x0]) = "none"
  BY <1>3, <1>5 DEF Line
<1>7. "none" \notin Live
  BY DEF Live, Acked
<1>8. \A l \in Live : Carries(Flight, Flight', x0, y0, l)
  BY <1>6, <1>7 DEF Carries
<1>9. \A l \in {"theirs", "PUBCOMP"} :
        /\ Settles(Flight, y0, l, awaits, awaits')
        /\ ~ (x0 \in DOMAIN Flight' /\ Line(x0, Flight'[x0]) = l)
  BY <1>1, <1>6 DEF Settles
<1>10. QED
  BY <1>5, <1>8, <1>9, Zenon DEF Kept

\* An acknowledgement of the client goes on from the message in hand.
LEMMA AckKept ==
  ASSUME TypeInv, Exch, whole, HandlePublish \/ HandlePubrec
  PROVE  Kept
<1>1. /\ UNCHANGED <<wire, awaits, gaveUp, calls>>
      /\ pc = "handle" /\ got.type \in {"PUBLISH", "PUBREC", "PUBREL"}
      /\ \/ pc' = "keepalive" /\ got' = got
         \/ pc' \in {"idle", "loop"}
  BY AckFacts DEF broker, reading, history
<1>2. InHand /\ ~ InHand'
  BY <1>1 DEF InHand, NoPacket, Plain, Packet
<1>3. 0 \in DOMAIN Flight /\ Flight[0] = got
  BY <1>2, FlightFacts
<1>4. IdsApart' = IdsApart
  BY <1>1 DEF IdsApart
<1>5. CASE up' = up
  BY <1>1, <1>2, <1>5, StillFlow, WentKept
<1>6. ASSUME NEW p \in Packets(Sent), up' = Append(up, p), p.type = GotAsks(got),
             p.type \in Acks, SentLine(p) = GotLine(got), p.id = got.id
      PROVE  Kept
  <2>1. PICK f : \E x0, y0 \in Int :
          /\ Flows(Flight, Flight', f, x0, y0)
          /\ x0 < 0 /\ y0 = 0
          /\ x0 \in DOMAIN Flight' => Flight'[x0] = p
    BY <1>1, <1>2, <1>6, WriteFlow
  <2>2. PICK x0 \in Int : 
          /\ Flows(Flight, Flight', f, x0, 0)
          /\ x0 < 0
          /\ x0 \in DOMAIN Flight' => Flight'[x0] = p
    BY <2>1, Zenon
  <2>3. x0 \in DOMAIN Flight' =>
          /\ Line(x0, Flight'[x0]) = Line(0, Flight[0]) /\ Flight'[x0].id = Flight[0].id
          /\ Asks(x0, Flight'[x0]) = Asks(0, Flight[0])
    BY <1>3, <1>6, <2>2 DEF Line, Asks, SentAsks
  <2>4. \A l : /\ Carries(Flight, Flight', x0, 0, l)
               /\ Settles(Flight, 0, l, awaits, awaits')
    BY <1>1, <1>3, <2>3 DEF Carries, Settles
  <2>5. ASSUME NEW l \in {"theirs", "PUBCOMP"}, x0 \in DOMAIN Flight',
               Line(x0, Flight'[x0]) = l, l = "PUBCOMP" => IdsApart', 
               Asks(x0, Flight'[x0]) # "none"
        PROVE  <<Asks(x0, Flight'[x0]), Flight'[x0].id>> \in awaits'
    <3>1. Exchange(Flight, l, awaits)
      BY <1>4, <2>5 DEF Exch
    <3>2. Line(0, Flight[0]) = l /\ Asks(0, Flight[0]) # "none"
      BY <2>3, <2>5
    <3>3. <<Asks(0, Flight[0]), Flight[0].id>> \in awaits
      BY <1>3, <3>1, <3>2 DEF Exchange
    <3>4. QED
      BY <1>1, <2>3, <2>5, <3>3
  <2>6. 0 \in Int
    OBVIOUS
  <2>7. QED
    BY <2>2, <2>4, <2>5, <2>6, Zenon DEF Kept
<1>7. QED
  BY <1>5, <1>6, AckLine

\* The answer of the broker goes on from what it answers.
LEMMA TakeKept ==
  ASSUME TypeInv, Bound, One, BrokerTake
  PROVE  Kept
<1>1. up # <<>> /\ up' = Tail(up) /\ UNCHANGED <<pc, got, gaveUp>>
  BY DEF BrokerTake, reading, history
<1>2. PICK r \in Packets(Inbound) :
        /\ wire' = wire \/ wire' = wire \o Cells(r)
        /\ wire' # wire =>
             /\ GotLine(r) = SentLine(Head(up))
             /\ r.id = IF Head(up).type \in {"CONNECT", "PINGREQ"} THEN 0 ELSE Head(up).id
             /\ GotAsks(r) # "none" => <<GotAsks(r), r.id>> \in awaits'
        /\ \A t \in Acks, n \in Nat :
             <<t, n>> \in awaits /\ <<t, n>> \notin awaits' =>
               /\ n = Head(up).id
               /\ SentLine(Head(up)) = IF t = "PUBREL" THEN "PUBCOMP" ELSE "theirs"
  BY BrokerAnswer
<1>3. Took(Flight, Flight', Head(up), r, wire, wire')
  BY <1>1, <1>2, TakeFlow
<1>4. PICK f : \E x0, y0 \in Int :
        /\ Flows(Flight, Flight', f, x0, y0)
        /\ x0 > 0 /\ y0 < 0
        /\ y0 \in DOMAIN Flight /\ Flight[y0] = Head(up)
        /\ x0 \in DOMAIN Flight' => wire' # wire /\ Flight'[x0] = r
  BY <1>3, Zenon DEF Took
<1>5. PICK x0 \in Int, y0 \in Int :
        /\ Flows(Flight, Flight', f, x0, y0)
        /\ x0 > 0 /\ y0 < 0
        /\ y0 \in DOMAIN Flight /\ Flight[y0] = Head(up)
        /\ x0 \in DOMAIN Flight' => wire' # wire /\ Flight'[x0] = r
  BY <1>4, Zenon
<1>6. /\ Line(y0, Flight[y0]) = SentLine(Head(up))
      /\ x0 \in DOMAIN Flight' => /\ Line(x0, Flight'[x0]) = GotLine(r)
                                  /\ Asks(x0, Flight'[x0]) = GotAsks(r)
  BY <1>5 DEF Line, Asks
<1>7. ASSUME NEW l \in Live, x0 \in DOMAIN Flight', Line(x0, Flight'[x0]) = l
      PROVE  Line(y0, Flight[y0]) = l /\ Flight'[x0].id = Flight[y0].id
  <2>1. SentLine(Head(up)) = l /\ GotLine(r) = l
    BY <1>2, <1>5, <1>6, <1>7
  <2>2. CASE Head(up).type = "CONNECT"
    <3>1. l = "CONNACK" /\ l \in Acked \ gaveUp
      BY <1>1, <2>1, <2>2 DEF SentLine, Live
    <3>2. ~ NoneOf(Flight, l)
      BY <1>5, <1>6, <2>1 DEF NoneOf
    <3>3. Waits(pc, call, l) /\ Ours(Flight, l, call.id)
      BY <3>1, <3>2 DEF One
    <3>4. Flight[y0].id = call.id
      BY <1>5, <1>6, <2>1, <3>3 DEF Ours
    <3>5. call.op = "connect"
      BY <3>1, <3>3 DEF TypeInv, CallOK, Waits, Want
    <3>6. QED
      BY <1>2, <1>5, <1>6, <1>7, <2>1, <2>2, <3>4, <3>5 DEF Bound
  <2>3. CASE Head(up).type = "PINGREQ"
    BY <2>1, <2>3 DEF SentLine, Live, Acked
  <2>4. CASE Head(up).type \notin {"CONNECT", "PINGREQ"}
    BY <1>2, <1>5, <1>6, <1>7, <2>1, <2>4
  <2>5. QED
    BY <2>2, <2>3, <2>4
<1>8. \A l \in Live : Carries(Flight, Flight', x0, y0, l)
  BY <1>5, <1>7 DEF Carries
<1>9. ASSUME NEW l \in {"theirs", "PUBCOMP"}
      PROVE  Settles(Flight, y0, l, awaits, awaits')
  <2>1. ASSUME NEW t \in Tags(l)
        PROVE  t \in Acks /\ l = IF t = "PUBREL" THEN "PUBCOMP" ELSE "theirs"
    BY DEF Tags, Acks
  <2> HIDE DEF Settles
  <2>2. ASSUME NEW t \in Tags(l), NEW n \in Nat, <<t, n>> \in awaits, <<t, n>> \notin awaits'
        PROVE  n = Head(up).id /\ SentLine(Head(up)) = l
    BY <1>2, <2>1, <2>2
  <2>3. QED
    BY <1>5, <1>6, <2>2 DEF Settles
<1>10. ASSUME NEW l \in {"theirs", "PUBCOMP"}, x0 \in DOMAIN Flight',
              Asks(x0, Flight'[x0]) # "none"
       PROVE  <<Asks(x0, Flight'[x0]), Flight'[x0].id>> \in awaits'
  BY <1>2, <1>5, <1>6, <1>10
<1>11. QED
  BY <1>5, <1>8, <1>9, <1>10, Zenon DEF Kept

-----------------------------------------------------------------------------
(* Answers and acknowledgements: every step.                               *)

LEMMA SoundBack ==
  ASSUME TypeInv, Next, Sound', ~ MQTTConnect
  PROVE  Sound /\ link' = "up" /\ ~ torn' /\ ~ Break /\ ~ Close
<1>1. link' = "up" /\ ~torn' /\ ~carried'
  BY DEF Sound
<1>2. ~ Break /\ ~ Close
  BY <1>1 DEF Break, Close
<1>3. CASE Arrive \/ BrokerTake \/ BrokerPublish
  <2>1. UNCHANGED <<link, torn, carried>>
    BY <1>3 DEF Arrive, BrokerTake, BrokerPublish, history
  <2>2. ~ MQTTConnect /\ Sound
    BY <1>1, <2>1 DEF Sound
  <2>3. QED
    BY <1>1, <1>2, <2>2
<1>4. CASE Requests
  BY <1>1, <1>2, <1>4, RequestFacts DEF Sound
<1>5. CASE HandlePublish \/ HandlePubrec \/ Keepalive
  BY <1>1, <1>2, <1>5 DEF HandlePublish, HandlePubrec, Keepalive, history, Sound
<1>6. CASE PingDue \/ Expire \/ MQTTYield \/ LoopEnd \/ LoopOn
  <2>1. UNCHANGED <<link, torn, carried>>
    BY <1>6 DEF PingDue, Expire, MQTTYield, LoopEnd, LoopOn, history, net
  <2>2. QED
    BY <1>1, <1>2, <2>1 DEF Sound
<1>7. CASE DiscardLate \/ DiscardEnd \/ HandleOther \/ CallEnd
  <2>1. UNCHANGED <<link, torn, carried>>
    BY <1>7 DEF DiscardLate, DiscardEnd, HandleOther, CallEnd, history, net
  <2>2. QED
    BY <1>1, <1>2, <2>1 DEF Sound
<1>8. CASE Reads
  <2>1. UNCHANGED <<link, carried>> /\ (torn => torn')
    BY <1>8, TornKept
  <2>2. QED
    BY <1>1, <1>2, <2>1 DEF Sound
<1>9. QED
  BY <1>2, <1>3, <1>4, <1>5, <1>6, <1>7, <1>8, NextCases DEF Apart

LEMMA BoundStep ==
  ASSUME TypeInv, Bound, Next
  PROVE  Bound'
<1>1. /\ calls <= MaxId => next_packetid <= calls
      /\ pc # "idle" => done = NoPacket
      /\ pc = "answer" => got.type = Want[call.op]
      /\ call.op = "connect" => call.id = 0
      /\ Sound /\ pc \in {"body", "handle"} => whole
  BY DEF Bound
<1>2. calls \in Nat /\ next_packetid \in Nat /\ MaxId \in Nat /\ next_packetid <= MaxId
  BY Constants DEF TypeInv, CallOK, ClientOK
<1>3. Sound' => MQTTConnect \/ Sound
  BY SoundBack
<1>4. ASSUME UNCHANGED <<calls, next_packetid, pc, done, got, call, whole>>, ~MQTTConnect
      PROVE  Bound'
  BY <1>1, <1>3, <1>4 DEF Bound
<1>5. CASE Arrive \/ BrokerTake \/ BrokerPublish \/ PingDue
  <2>1. UNCHANGED <<calls, next_packetid, pc, done, got, call, whole, link>>
    BY <1>5 DEF Arrive, BrokerTake, BrokerPublish, PingDue, client, reading, history, net
  <2>2. CASE MQTTConnect
    BY <2>1, <2>2 DEF MQTTConnect
  <2>3. QED
    BY <1>4, <2>1, <2>2
<1>6. CASE Expire
  <2>1. UNCHANGED <<calls, next_packetid, pc, done, got, call, whole, link>>
    BY <1>6 DEF Expire, client, reading, history, net
  <2>2. CASE MQTTConnect
    BY <2>1, <2>2 DEF MQTTConnect
  <2>3. QED
    BY <1>4, <2>1, <2>2
<1>7. CASE Break \/ Close
  <2>1. /\ UNCHANGED <<calls, next_packetid, pc, got, call>>
        /\ done' = NoPacket /\ link' # "up"
    BY <1>7 DEF Break, Close, client, reading
  <2>2. ~ Sound'
    BY <2>1 DEF Sound
  <2>3. QED
    BY <1>1, <2>1, <2>2 DEF Bound
<1>8. CASE MQTTConnect \/ MQTTYield
  <2>1. /\ calls' = calls + 1 /\ done' = NoPacket /\ pc' \in {"idle", "loop"}
        /\ next_packetid' = next_packetid
        /\ call' = Call("connect", 0, NoTopic) \/ call' = Call("yield", 0, NoTopic)
    BY <1>8 DEF MQTTConnect, MQTTYield, Begin, client
  <2>2. call'.id = 0
    BY <2>1 DEF Call
  <2>3. QED
    BY <1>1, <1>2, <2>1, <2>2 DEF Bound
<1>9. CASE Requests
  <2>1. /\ calls' = calls + 1 /\ done' = NoPacket /\ pc' \in {"idle", "loop"}
    BY <1>9, RequestFacts
  <2>2. /\ next_packetid' = next_packetid \/ next_packetid' = NextId
        /\ call'.op # "connect"
    BY <1>9, RequestLine
  <2>3. ASSUME calls' <= MaxId PROVE next_packetid' <= calls'
    <3>1. next_packetid <= calls /\ calls < MaxId
      BY <1>1, <1>2, <2>1, <2>3
    <3>2. NextId = next_packetid + 1
      BY <1>2, <3>1 DEF NextId
    <3>3. QED
      BY <1>2, <2>1, <2>2, <3>1, <3>2
  <2>4. QED
    BY <2>1, <2>2, <2>3 DEF Bound
<1>10. CASE HandlePublish \/ HandlePubrec
  <2>1. /\ UNCHANGED <<client, call, calls, history>>
        /\ pc = "handle" /\ pc' \in {"keepalive", "idle", "loop"}
    BY <1>10, AckFacts
  <2>2. UNCHANGED <<next_packetid, done>>
    BY <2>1 DEF client, history
  <2>3. QED
    BY <1>1, <2>1, <2>2 DEF Bound
<1>11. CASE Keepalive
  <2>1. /\ UNCHANGED <<client, call, calls, history>>
        /\ pc = "keepalive"
        /\ \/ pc' = "answer" /\ got' = got /\ got.type = Want[call.op]
           \/ pc' = "loop"
    BY <1>11, KeepaliveFacts DEF reading
  <2>2. UNCHANGED <<next_packetid, done>>
    BY <2>1 DEF client, history
  <2>3. QED
    BY <1>1, <2>1, <2>2 DEF Bound
<1>12. CASE LoopEnd
  <2>1. /\ UNCHANGED <<next_packetid, calls, done>> /\ call' = NoCall /\ pc' = "idle"
    BY <1>12 DEF LoopEnd, GiveUp, client
  <2>2. call'.op # "connect"
    BY <2>1 DEF NoCall, Call
  <2>3. QED
    BY <1>1, <2>1, <2>2 DEF Bound
<1>13. CASE LoopOn \/ DiscardLate \/ DiscardEnd \/ HandleOther
  <2>1. /\ UNCHANGED <<next_packetid, calls, done, call>>
        /\ pc # "idle" /\ pc' \in {"discard", "keepalive", "type"}
    BY <1>13 DEF LoopOn, DiscardLate, DiscardEnd, HandleOther, Unread, client, history
  <2>2. QED
    BY <1>1, <2>1 DEF Bound
<1>14. CASE CallEnd
  <2>1. UNCHANGED <<next_packetid, calls, call>> /\ pc' = "idle"
    BY <1>14 DEF CallEnd, EndCycle
  <2>2. QED
    BY <1>1, <2>1 DEF Bound
<1>15. CASE Reads
  <2>1. /\ UNCHANGED <<next_packetid, calls, done, call>>
        /\ pc # "idle" /\ pc' # "answer"
    BY <1>15 DEF Reads, DiscardRest, DiscardBroken, ReadType, ReadLength, ReadBody, Unread,
                 client, history
  <2>2. ASSUME Sound', pc' \in {"body", "handle"} PROVE whole'
    <3>1. CASE ReadLength
      <4>1. link' = link /\ link = "up" /\ ~ torn'
        BY <3>1, <2>2 DEF ReadLength, Sound
      <4>2. QED
        BY <3>1, <4>1 DEF ReadLength
    <3>2. CASE ReadBody
      <4>1. Sound /\ pc = "body" /\ UNCHANGED whole
        BY <3>2, <2>2 DEF ReadBody, Unread, reading, Sound, history
      <4>2. QED
        BY <1>1, <4>1
    <3>3. CASE DiscardRest \/ DiscardBroken \/ ReadType
      BY <2>2, <3>3 DEF DiscardRest, DiscardBroken, ReadType, Unread
    <3>4. QED
      BY <1>15, <3>1, <3>2, <3>3 DEF Reads
  <2>3. QED
    BY <1>1, <2>1, <2>2 DEF Bound
<1>16. QED
  BY <1>5, <1>6, <1>7, <1>8, <1>9, <1>10, <1>11, <1>12, <1>13, <1>14, <1>15, NextCases DEF Apart

\* The steps that begin no line.
Onward == \/ Arrive \/ BrokerTake \/ HandlePublish \/ HandlePubrec \/ Keepalive \/ Reads \/ Apart

LEMMA OnwardKept ==
  ASSUME IInv, Bound, Sound, One, Exch, ~ torn', Onward
  PROVE  Kept
<1>1. TypeInv /\ Placed /\ link = "up"
  BY DEF IInv, SyncInv, Sound
<1>2. HandlePublish \/ HandlePubrec => whole
  BY DEF Bound, HandlePublish, HandlePubrec
<1>3. QED
  BY <1>1, <1>2, StillKept, ReadsKept, PingReqKept, AckKept, TakeKept DEF Onward

\* What they do to the calls.
LEMMA OnwardFacts ==
  ASSUME TypeInv, Onward
  PROVE  /\ UNCHANGED <<next_packetid, pubs>> /\ gaveUp \subseteq gaveUp'
         /\ calls' \in {calls, calls + 1}
         /\ ~ CallEnd => \A l \in Acked \ gaveUp' :
                           /\ Waits(pc', call', l) <=> Waits(pc, call, l)
                           /\ Waits(pc, call, l) => call'.id = call.id
<1> DEFINE Same == UNCHANGED <<next_packetid, pubs, gaveUp>> /\ calls' \in {calls, calls + 1}
           Busy == (pc # "idle" /\ pc' # "idle") \/ pc' = pc
<1>1. ASSUME UNCHANGED call, Busy, NEW l
      PROVE  /\ Waits(pc', call', l) <=> Waits(pc, call, l)
             /\ Waits(pc, call, l) => call'.id = call.id
  BY <1>1 DEF Waits
<1>2. CASE Arrive \/ BrokerTake \/ PingDue \/ Expire
  <2>1. Same /\ UNCHANGED <<call, pc>>
    BY <1>2 DEF Arrive, BrokerTake, PingDue, Expire, client, broker, history
  <2>2. QED
    BY <1>1, <2>1
<1>3. CASE LoopOn \/ DiscardLate \/ DiscardEnd \/ HandleOther
  <2>1. Same /\ UNCHANGED call /\ Busy
    BY <1>3 DEF LoopOn, DiscardLate, DiscardEnd, HandleOther, Unread, client, broker, history
  <2>2. QED
    BY <1>1, <2>1
<1>4. CASE Reads
  <2>1. Same /\ UNCHANGED call /\ Busy
    BY <1>4 DEF Reads, DiscardRest, DiscardBroken, ReadType, ReadLength, ReadBody, Unread,
                client, broker, history
  <2>2. QED
    BY <1>1, <2>1
<1>5. CASE Keepalive
  <2>1. UNCHANGED <<client, broker, history, call, calls>> /\ pc = "keepalive" /\ pc' # "idle"
    BY <1>5, KeepaliveFacts
  <2>2. QED
    BY <1>1, <2>1 DEF client, broker, history
<1>6. CASE HandlePublish \/ HandlePubrec
  <2>1. /\ UNCHANGED <<client, broker, history, call, calls>> /\ pc = "handle"
        /\ pc' \in {"keepalive", "idle", "loop"}
    BY <1>6, AckFacts
  <2>2. pc' = "idle" => call.op = "yield"
    BY <1>6 DEF HandlePublish, HandlePubrec, Answer, GoOn, EndCycle
  <2>3. \A l \in Acked : pc' = "idle" => ~ Waits(pc, call, l) /\ ~ Waits(pc', call', l)
    BY <2>1, <2>2 DEF Waits, Want, Acked
  <2>4. QED
    BY <1>1, <2>1, <2>3 DEF client, broker, history
<1>7. CASE MQTTYield
  <2>1. Same /\ pc = "idle" /\ call' = Call("yield", 0, NoTopic)
    BY <1>7 DEF MQTTYield, Begin, client, broker
  <2>2. Want[call'.op] = "nothing"
    BY <2>1 DEF Call, Want
  <2>3. \A l \in Acked : ~ Waits(pc, call, l) /\ ~ Waits(pc', call', l)
    BY <2>1, <2>2 DEF Waits, Acked
  <2>4. QED
    BY <2>1, <2>3
<1>8. CASE LoopEnd
  <2>1. /\ UNCHANGED <<client, broker, calls>> /\ pc' = "idle"
        /\ gaveUp' = gaveUp \cup {Want[call.op]}
    BY <1>8 DEF LoopEnd, GiveUp
  <2>2. \A l \in Acked \ gaveUp' : ~ Waits(pc, call, l) /\ ~ Waits(pc', call', l)
    BY <2>1 DEF Waits
  <2>3. QED
    BY <2>1, <2>2 DEF client, broker
<1>9. CASE CallEnd
  BY <1>9 DEF CallEnd, broker
<1>10. QED
  BY <1>2, <1>3, <1>4, <1>5, <1>6, <1>7, <1>8, <1>9 DEF Onward, Apart

\* The answer ends the call and its line.
LEMMA EndOne ==
  ASSUME TypeInv, Bound, One, CallEnd
  PROVE  One'
<1>1. /\ pc = "answer" /\ pc' = "idle" /\ got.type = Want[call.op]
      /\ UNCHANGED <<up, wire, gaveUp>>
  BY DEF CallEnd, EndCycle, Bound, net
<1>2. call.op # "yield"
  BY DEF CallEnd
<1>3. got.type \in Acked
  BY <1>1, <1>2 DEF TypeInv, CallOK, ReadOK, Want, Acked, Packets, NoPacket, Plain, Packet, CallEnd
<1>4. InHand /\ ~ InHand' /\ GotLine(got) = got.type
  BY <1>1, <1>3 DEF InHand, GotLine, Acked, NoPacket, Plain, Packet
<1>5. 0 \in DOMAIN Flight /\ Line(0, Flight[0]) = Want[call.op]
  BY <1>1, <1>4, FlightFacts DEF Line
<1>6. Plain("PINGREQ") \in Packets(Sent)
  BY SentFacts DEF Plain, Sent, Tops
<1>7. PICK f : \E x0, y0 \in Int :
        /\ Flows(Flight, Flight', f, x0, y0)
        /\ x0 \notin DOMAIN Flight' /\ y0 = 0
  BY <1>1, <1>4, <1>6, WriteFlow
<1>8. PICK x0 \in Int : Flows(Flight, Flight', f, x0, 0) /\ x0 \notin DOMAIN Flight'
  BY <1>7, Zenon
<1>9. ASSUME NEW l \in Acked \ gaveUp
      PROVE  NoneOf(Flight', l)
  <2>1. CASE l = Want[call.op]
    <3>1. Ours(Flight, l, call.id)
      BY <1>1, <2>1 DEF One, Waits
    <3>2. QED
      BY <1>5, <1>8, <2>1, <3>1, OursEnded
  <2>2. CASE l # Want[call.op]
    <3>1. NoneOf(Flight, l) /\ Carries(Flight, Flight', x0, 0, l)
      BY <1>8, <2>2 DEF One, Waits, Carries
    <3>2. QED
      BY <1>8, <3>1, NoneKept
  <2>3. QED
    BY <2>1, <2>2
<1>10. QED
  BY <1>1, <1>9 DEF One, Waits

LEMMA OnwardStep ==
  ASSUME IInv, Bound, Sound, One, Exch, ~ torn', Onward
  PROVE  One' /\ Exch'
<1>1. Kept /\ TypeInv
  BY OnwardKept DEF IInv
<1>2. /\ UNCHANGED <<next_packetid, pubs>> /\ gaveUp \subseteq gaveUp' /\ calls' \in {calls, calls + 1}
  BY <1>1, OnwardFacts
<1>3. calls \in Nat /\ next_packetid \in Nat /\ MaxId \in Nat
  BY <1>1, Constants DEF TypeInv, CallOK, ClientOK
<1>4. (IdsApart' => IdsApart) /\ (calls' <= MaxId => calls <= MaxId)
  BY <1>2, <1>3 DEF IdsApart
<1>5. next_packetid <= next_packetid' /\ next_packetid' \in Nat
  BY <1>2, <1>3
<1>6. Exch'
  BY <1>1, <1>2, <1>4, <1>5, ExchStep
<1>7. CASE CallEnd
  BY <1>1, <1>6, <1>7, EndOne
<1>8. CASE ~ CallEnd
  BY <1>1, <1>2, <1>6, <1>8, OnwardFacts, OneStep
<1>9. QED
  BY <1>7, <1>8

\* A request begins the line of its answer; there was none, for no call runs.
LEMMA RequestStep ==
  ASSUME TypeInv, Bound, One, Exch, Requests
  PROVE  One' /\ Exch'
<1>1. /\ UNCHANGED <<wire, awaits, pubs, gaveUp>> /\ pc = "idle" /\ pc' \in {"idle", "loop"}
      /\ calls' = calls + 1
  BY RequestFacts DEF broker
<1>2. calls \in Nat /\ next_packetid \in Nat /\ MaxId \in Nat /\ pubs \in Nat
      /\ next_packetid <= MaxId
  BY Constants DEF TypeInv, CallOK, ClientOK, BrokerOK
<1>3. PICK p \in Packets(Sent) :
           /\ \/ UNCHANGED up /\ pc' = "idle"
              \/ /\ up' = Append(up, p)
                 /\ pc' = IF Want[call'.op] = "nothing" THEN "idle" ELSE "loop"
           /\ SentLine(p) = IF Want[call'.op] = "nothing" THEN "none" ELSE Want[call'.op]
           /\ SentAsks(p) = "none" /\ p.id = call'.id
           /\ \/ next_packetid' = next_packetid /\ Want[call'.op] = "nothing"
              \/ next_packetid' = NextId /\ call'.id = NextId
  BY RequestLine
<1>4. ~ InHand' /\ (up' = up \/ up' = Append(up, p))
  BY <1>1, <1>3 DEF InHand
<1>5. PICK f : \E x0, y0 \in Int :
        /\ Flows(Flight, Flight', f, x0, y0)
        /\ x0 < 0
        /\ x0 \in DOMAIN Flight' => up' # up /\ Flight'[x0] = p
  BY <1>1, <1>4, WriteFlow
<1>6. PICK x0 \in Int, y0 \in Int :
        /\ Flows(Flight, Flight', f, x0, y0)
        /\ x0 < 0
        /\ x0 \in DOMAIN Flight' => up' # up /\ Flight'[x0] = p
  BY <1>5, Zenon
<1>7. x0 \in DOMAIN Flight' =>
        /\ Line(x0, Flight'[x0]) = IF Want[call'.op] = "nothing" THEN "none" ELSE Want[call'.op]
        /\ Asks(x0, Flight'[x0]) = "none" /\ Flight'[x0].id = call'.id
        /\ pc' = IF Want[call'.op] = "nothing" THEN "idle" ELSE "loop"
  BY <1>3, <1>6 DEF Line, Asks
<1>8. \A l \in Acked : NoneOf(Flight, l) \/ l \in gaveUp
  BY <1>1 DEF One, Waits
<1>9. ASSUME NEW l \in Acked \ gaveUp'
      PROVE  IF Waits(pc', call', l) THEN Ours(Flight', l, call'.id) ELSE NoneOf(Flight', l)
  <2>1. NoneOf(Flight, l)
    BY <1>1, <1>8
  <2>2. CASE Waits(pc', call', l)
    <3>1. Ours(Flight', l, call'.id)
      BY <1>6, <1>7, <2>1, OursBegun
    <3>2. QED
      BY <2>2, <3>1
  <2>3. CASE ~ Waits(pc', call', l)
    <3>1. ~ (x0 \in DOMAIN Flight' /\ Line(x0, Flight'[x0]) = l)
      BY <1>7, <2>3 DEF Waits, Acked
    <3>2. NoneOf(Flight', l)
      BY <1>6, <2>1, <3>1, NoneKept DEF Carries
    <3>3. QED
      BY <2>3, <3>2
  <2>4. QED
    BY <2>2, <2>3
<1>10. One'
  BY <1>9 DEF One, Waits
<1>11. \A x \in DOMAIN Flight : Flight[x].id \in Nat
  BY FlightFacts
<1>12. \A l \in {"theirs", "PUBCOMP"} : Settles(Flight, y0, l, awaits, awaits')
  BY <1>1 DEF Settles
<1>13. x0 \in DOMAIN Flight' => Line(x0, Flight'[x0]) # "theirs"
  <2>1. call'.op \in DOMAIN Want
    BY RequestFacts DEF Calls
  <2>2. Want[call'.op] # "theirs"
    BY <2>1 DEF Want
  <2>3. QED
    BY <1>7, <2>2
<1>14. Exchange(Flight', "theirs", awaits') /\ Upto(Flight', "theirs", pubs')
  <2>1. Carries(Flight, Flight', x0, y0, "theirs")
    BY <1>13 DEF Carries
  <2>2. Exchange(Flight, "theirs", awaits) /\ Upto(Flight, "theirs", pubs)
    BY DEF Exch
  <2>3. Settles(Flight, y0, "theirs", awaits, awaits')
    BY <1>12
  <2>4. Exchange(Flight', "theirs", awaits')
    BY <1>6, <1>11, <1>13, <2>1, <2>2, <2>3, AsksTags, ExchangeKept
  <2>5. Upto(Flight', "theirs", pubs)
    BY <1>2, <1>6, <1>11, <2>1, <2>2, UptoKept
  <2>6. QED
    BY <1>1, <2>4, <2>5
<1>15. x0 \in DOMAIN Flight' /\ Line(x0, Flight'[x0]) = "PUBCOMP" =>
         Flight'[x0].id = NextId /\ next_packetid' = NextId
  BY <1>3, <1>7
<1>16. ASSUME calls' <= MaxId
       PROVE  /\ Upto(Flight, "PUBCOMP", next_packetid) /\ NextId = next_packetid + 1
              /\ Upto(Flight', "PUBCOMP", next_packetid')
  <2>1. calls <= MaxId /\ next_packetid < MaxId
    BY <1>1, <1>2, <1>16 DEF Bound
  <2>2. Upto(Flight, "PUBCOMP", next_packetid) /\ NextId = next_packetid + 1
    BY <1>2, <2>1 DEF Exch, NextId
  <2>3. next_packetid <= next_packetid' /\ next_packetid' \in Nat
    BY <1>2, <1>3, <2>2
  <2>4. x0 \in DOMAIN Flight' /\ Line(x0, Flight'[x0]) = "PUBCOMP" =>
          Flight'[x0].id <= next_packetid'
    BY <1>15, <2>3
  <2>5. Upto(Flight', "PUBCOMP", next_packetid')
    BY <1>2, <1>6, <1>11, <2>2, <2>3, <2>4, UptoKept
  <2>6. QED
    BY <2>2, <2>5
<1>17. ASSUME IdsApart'
       PROVE  Exchange(Flight', "PUBCOMP", awaits')
  <2>1. IdsApart
    BY <1>1, <1>2, <1>17 DEF IdsApart
  <2>2. Exchange(Flight, "PUBCOMP", awaits)
    BY <2>1 DEF Exch
  <2>3. CASE x0 \in DOMAIN Flight' /\ Line(x0, Flight'[x0]) = "PUBCOMP"
    <3>1. \A x \in DOMAIN Flight : Line(x, Flight[x]) = "PUBCOMP" => Flight[x].id # NextId
      <4>1. CASE "PUBCOMP" \notin gaveUp
        BY <1>8, <4>1 DEF Acked, NoneOf
      <4>2. CASE calls' <= MaxId
        <5>1. Upto(Flight, "PUBCOMP", next_packetid) /\ NextId = next_packetid + 1
          BY <1>16, <4>2
        <5>2. \A x \in DOMAIN Flight : Line(x, Flight[x]) = "PUBCOMP" =>
                Flight[x].id <= next_packetid
          BY <5>1 DEF Upto
        <5>3. QED
          BY <1>2, <1>11, <5>1, <5>2
      <4>3. QED
        BY <1>1, <1>17, <4>1, <4>2 DEF IdsApart
    <3>3. awaits \subseteq awaits' /\ Asks(x0, Flight'[x0]) = "none"
      BY <1>1, <1>7, <2>3
    <3>4. Flows(Flight, Flight', f, x0, y0) /\ Flight'[x0].id = NextId
          /\ Fresh(Flight, "PUBCOMP", NextId)
      BY <1>6, <1>15, <2>3, <3>1 DEF Fresh
    <3>5. x0 \in DOMAIN Flight' /\ Line(x0, Flight'[x0]) = "PUBCOMP" =>
            (Asks(x0, Flight'[x0]) # "none" =>
               <<Asks(x0, Flight'[x0]), Flight'[x0].id>> \in awaits')
      BY <3>3
    <3>6. QED
      BY ONLY <2>2, <3>3, <3>4, <3>5, ExchangeBegun
  <2>4. CASE ~ (x0 \in DOMAIN Flight' /\ Line(x0, Flight'[x0]) = "PUBCOMP")
    <3>1. Carries(Flight, Flight', x0, y0, "PUBCOMP")
      BY <2>4 DEF Carries
    <3>2. Settles(Flight, y0, "PUBCOMP", awaits, awaits')
      BY <1>12
    <3>3. QED
      BY <1>6, <1>11, <2>2, <2>4, <3>1, <3>2, AsksTags, ExchangeKept
  <2>5. QED
    BY <2>3, <2>4
<1>18. QED
  BY <1>10, <1>14, <1>16, <1>17 DEF Exch

\* A message of the broker begins an exchange, with an identifier of its own.
LEMMA PublishStep ==
  ASSUME TypeInv, One, Exch, BrokerPublish
  PROVE  One' /\ Exch'
<1>1. PICK tp \in granted, q \in 0 .. 2 :
        /\ wire' = wire \o Cells(Packet("PUBLISH", pubs + 1, tp, q))
        /\ awaits' = CASE q = 0 -> awaits
                       [] q = 1 -> awaits \cup {<<"PUBACK", pubs + 1>>}
                       [] q = 2 -> awaits \cup {<<"PUBREC", pubs + 1>>}
  BY DEF BrokerPublish, Answers
<1>2. /\ UNCHANGED <<up, pc, got, call, gaveUp, calls, next_packetid>> /\ pubs' = pubs + 1
  BY DEF BrokerPublish, reading, client, history
<1>3. pubs \in Nat /\ next_packetid \in Nat /\ granted \subseteq Topics /\ pubs + 1 \in Nat
      /\ pubs <= pubs + 1 /\ next_packetid <= next_packetid
  BY Constants DEF TypeInv, BrokerOK, ClientOK
<1>4. PICK r : r = Packet("PUBLISH", pubs + 1, tp, q)
  OBVIOUS
<1>5. r \in Packets(Inbound) /\ r.type = "PUBLISH" /\ r.id = pubs + 1 /\ r.code = q
  <2>1. "PUBLISH" \in Inbound /\ tp \in Tops
    BY <1>3, MqttClientAssumption DEF MqttClientAssumption, Tops
  <2>2. r \in Packets(Inbound)
    BY <1>3, <1>4, <2>1, PacketFacts
  <2>3. QED
    BY <1>4, <2>2 DEF Packet
<1>6. /\ GotLine(r) \in {"none", "theirs"} /\ awaits \subseteq awaits'
      /\ GotAsks(r) # "none" => <<GotAsks(r), pubs + 1>> \in awaits'
  <2>1. GotLine(r) \in {"none", "theirs"} /\ GotAsks(r) = Reply.PUBLISH[q + 1]
    BY <1>5 DEF GotLine, GotAsks
  <2>2. CASE q = 0
    BY <1>1, <2>1, <2>2 DEF Reply
  <2>3. CASE q = 1
    BY <1>1, <2>1, <2>3 DEF Reply
  <2>4. CASE q = 2
    BY <1>1, <2>1, <2>4 DEF Reply
  <2>5. QED
    BY <2>2, <2>3, <2>4, <2>1
<1>7. Published(Flight, Flight', r)
  BY <1>1, <1>2, <1>4, <1>5, PublishFlow
<1>8. PICK f : \E x0 \in Int :
        /\ Flows(Flight, Flight', f, x0, x0)
        /\ x0 > 0 /\ x0 \in DOMAIN Flight' /\ Flight'[x0] = r
  BY <1>7, Zenon DEF Published
<1>9. PICK x0 \in Int :
        /\ Flows(Flight, Flight', f, x0, x0)
        /\ x0 > 0 /\ x0 \in DOMAIN Flight' /\ Flight'[x0] = r
  BY <1>8, Zenon
<1>10. Line(x0, Flight'[x0]) = GotLine(r) /\ Asks(x0, Flight'[x0]) = GotAsks(r)
       /\ Flight'[x0].id = pubs + 1
  BY <1>5, <1>9 DEF Line, Asks
<1>11. \A l \in Acked : Carries(Flight, Flight', x0, x0, l)
  BY <1>6, <1>10 DEF Carries, Acked
<1>12. One'
  BY <1>2, <1>9, <1>11, OneKept
<1>13. \A x \in DOMAIN Flight : Flight[x].id \in Nat
  BY FlightFacts
<1>14. Exchange(Flight', "theirs", awaits')
  <2>1. Upto(Flight, "theirs", pubs) /\ Exchange(Flight, "theirs", awaits)
    BY DEF Exch
  <2>2. ASSUME NEW x \in DOMAIN Flight, Line(x, Flight[x]) = "theirs"
        PROVE  Flight[x].id # pubs + 1
    <3>1. Flight[x].id <= pubs
      BY <2>1, <2>2 DEF Upto
    <3>2. QED
      BY <1>3, <1>13, <3>1
  <2>3. Fresh(Flight, "theirs", pubs + 1)
    BY <2>2 DEF Fresh
  <2>4. Asks(x0, Flight'[x0]) # "none" => <<Asks(x0, Flight'[x0]), Flight'[x0].id>> \in awaits'
    BY <1>6, <1>10
  <2>5. QED
    BY ONLY <1>6, <1>9, <1>10, <2>1, <2>3, <2>4, ExchangeBegun
<1>15. Upto(Flight', "theirs", pubs')
  <2>1. Flight'[x0].id <= pubs + 1
    BY <1>3, <1>10
  <2>2. Upto(Flight', "theirs", pubs + 1)
    BY <1>3, <1>9, <1>13, <2>1, UptoKept DEF Exch
  <2>3. QED
    BY <1>2, <2>2
<1>16. Exchange(Flight, "PUBCOMP", awaits) => Exchange(Flight', "PUBCOMP", awaits')
  <2>1. Carries(Flight, Flight', x0, x0, "PUBCOMP")
    BY <1>11 DEF Acked
  <2>2. Settles(Flight, x0, "PUBCOMP", awaits, awaits')
    BY <1>6 DEF Settles
  <2>3. Line(x0, Flight'[x0]) # "PUBCOMP"
    BY <1>6, <1>10
  <2>4. QED
    BY <1>9, <1>13, <2>1, <2>2, <2>3, AsksTags, ExchangeKept
<1>17. Upto(Flight, "PUBCOMP", next_packetid) => Upto(Flight', "PUBCOMP", next_packetid')
  <2>1. Carries(Flight, Flight', x0, x0, "PUBCOMP")
    BY <1>11 DEF Acked
  <2>2. Upto(Flight, "PUBCOMP", next_packetid) => Upto(Flight', "PUBCOMP", next_packetid)
    BY <1>3, <1>9, <1>13, <2>1, UptoKept
  <2>3. QED
    BY <1>2, <2>2
<1>18. QED
  BY <1>2, <1>12, <1>14, <1>15, <1>16, <1>17 DEF Exch, IdsApart

\* A connection begins with nothing but the packet that asks for it.
LEMMA ConnectFlight ==
  ASSUME TypeInv, MQTTConnect
  PROVE  \A x \in DOMAIN Flight' : /\ x = -1 /\ Flight'[x] = Plain("CONNECT") /\ pc' = "loop"
                                   /\ Line(x, Flight'[x]) = "CONNACK" /\ Flight'[x].id = 0
<1>1. /\ wire' = <<>>
      /\ \/ up' = <<Plain("CONNECT")>> /\ pc' = "loop"
         \/ up' = <<>> /\ pc' = "idle"
  BY DEF MQTTConnect
<1>2. ~ InHand'
  BY <1>1 DEF InHand
<1>3. Plain("CONNECT").type = "CONNECT" /\ Plain("CONNECT").id = 0
  BY DEF Plain, Packet
<1> DEFINE p == Plain("CONNECT")
<1> HIDE DEF p
<1>4. ASSUME NEW x \in DOMAIN Flight'
      PROVE  x = -1 /\ Flight'[x] = p /\ pc' = "loop"
  <2>1. Flight' = UnderWay(wire', up', InHand', got')
    BY DEF Flight
  <2>2. /\ x \in Int /\ Place(wire', up', InHand', x)
        /\ x < 0 => Flight'[x] = up'[-x]
    BY <1>1, <1>4, <2>1 DEF UnderWay
  <2>3. -x \in 1 .. Len(up')
    BY <1>1, <1>2, <2>2 DEF Place
  <2>4. up' = <<p>> /\ pc' = "loop"
    BY <1>1, <2>3 DEF p
  <2>5. Len(up') = 1 /\ up'[1] = p
    BY <2>4
  <2>6. QED
    BY <2>2, <2>3, <2>4, <2>5
<1>5. SentLine(p) = "CONNACK" /\ p.id = 0
  BY <1>3 DEF SentLine, p
<1>6. QED
  BY <1>4, <1>5 DEF Line, p

LEMMA ConnectStep ==
  ASSUME TypeInv, MQTTConnect
  PROVE  One' /\ Exch'
<1>1. call'.id = 0 /\ Want[call'.op] = "CONNACK"
  BY DEF MQTTConnect, Begin, Call, Want
<1>2. \A x \in DOMAIN Flight' : /\ Line(x, Flight'[x]) = "CONNACK" /\ Flight'[x].id = 0
                                /\ x = -1 /\ pc' = "loop"
  BY ConnectFlight
<1>3. ASSUME NEW l
      PROVE  IF Waits(pc', call', l) THEN Ours(Flight', l, call'.id) ELSE NoneOf(Flight', l)
  BY <1>1, <1>2 DEF Waits, Ours, NoneOf
<1>4. One'
  BY <1>3 DEF One, Waits
<1>5. QED
  BY <1>2, <1>4 DEF Exch, Exchange, Upto

LEMMA LineStep == IInv /\ LineInv /\ [Next]_vars => LineInv'
<1> SUFFICES ASSUME IInv, LineInv, [Next]_vars PROVE LineInv'
  OBVIOUS
<1>1. TypeInv /\ Bound /\ (Sound => One /\ Exch)
  BY DEF IInv, LineInv
<1>2. CASE Next
  <2>1. Bound'
    BY <1>1, <1>2, BoundStep
  <2>2. ASSUME Sound' PROVE One' /\ Exch'
    <3>1. CASE MQTTConnect
      BY <1>1, <3>1, ConnectStep
    <3>2. CASE ~ MQTTConnect
      <4>1. Sound /\ One /\ Exch /\ ~ torn' /\ ~ Break /\ ~ Close
        BY <1>1, <1>2, <2>2, <3>2, SoundBack
      <4>2. Onward \/ Requests \/ BrokerPublish
        BY <1>2, <3>2, <4>1, NextCases DEF Onward
      <4>3. QED
        BY <1>1, <4>1, <4>2, OnwardStep, RequestStep, PublishStep
    <3>3. QED
      BY <3>1, <3>2
  <2>3. QED
    BY <2>1, <2>2 DEF LineInv
<1>3. CASE UNCHANGED vars
  <2>1. UNCHANGED <<link, up, wire, awaits, pubs, next_packetid, pc, call, got, whole, calls,
                    torn, carried, gaveUp, done>>
    BY <1>3 DEF vars, net, broker, client, reading, history
  <2>2. Sound' = Sound /\ InHand' = InHand /\ IdsApart' = IdsApart
    BY <2>1 DEF Sound, InHand, IdsApart
  <2>3. Flight' = Flight
    BY <2>1, <2>2 DEF Flight
  <2>4. One' = One
    BY <2>1, <2>3 DEF One, Waits
  <2>5. Exch' = Exch
    BY <2>1, <2>2, <2>3 DEF Exch
  <2>6. Bound'
    BY <1>1, <2>1, <2>2 DEF Bound
  <2>7. QED
    BY <1>1, <2>2, <2>4, <2>5, <2>6 DEF LineInv
<1>4. QED
  BY <1>2, <1>3

LEMMA LineInit == Init => LineInv
<1> SUFFICES ASSUME Init PROVE LineInv
  OBVIOUS
<1>1. link = "closed" /\ pc = "idle" /\ call = NoCall /\ calls = 0 /\ next_packetid = 0
  BY DEF Init
<1>2. call.op # "connect"
  BY <1>1 DEF NoCall, Call
<1>3. QED
  BY <1>1, <1>2 DEF LineInv, Bound, Sound

LEMMA LineInvSpec == Spec => [](IInv /\ LineInv)
<1>1. QED
  BY SyncInvSpec, LineInit, LineStep, PTL DEF Spec

\* The acknowledgements the client has sent are each the one the broker waits for
\* next, and none is sent twice: at every moment an exchange is in one place.
THEOREM AcksCorrect == Spec => []AcksAwaited
<1>1. IInv /\ LineInv => AcksAwaited
  <2> SUFFICES ASSUME IInv, LineInv, Sound, NEW k \in 1 .. Len(up),
                      \/ up[k].type \in {"PUBACK", "PUBREC", "PUBCOMP"}
                      \/ up[k].type = "PUBREL" /\ IdsApart
               PROVE  /\ <<up[k].type, up[k].id>> \in awaits
                      /\ \A j \in 1 .. k - 1 : <<up[j].type, up[j].id>> # <<up[k].type, up[k].id>>
    BY DEF AcksAwaited
  <2>1. TypeInv /\ Exch
    BY DEF IInv, LineInv
  <2>2. PICK l \in {"theirs", "PUBCOMP"} :
          /\ Exchange(Flight, l, awaits)
          /\ \A p : p.type = up[k].type => SentLine(p) = l /\ SentAsks(p) = p.type /\ p.type # "none"
    <3>1. CASE up[k].type \in {"PUBACK", "PUBREC", "PUBCOMP"}
      BY <2>1, <3>1 DEF Exch, SentLine, SentAsks, Acks
    <3>2. CASE up[k].type = "PUBREL" /\ IdsApart
      BY <2>1, <3>2 DEF Exch, SentLine, SentAsks, Acks
    <3>3. QED
      BY <3>1, <3>2
  <2>3. /\ -k \in DOMAIN Flight /\ Flight[-k] = up[k] /\ -k < 0
        /\ \A j \in 1 .. Len(up) : -j \in DOMAIN Flight /\ Flight[-j] = up[j] /\ -j < 0
    BY <2>1, FlightFacts
  <2>4. Line(-k, Flight[-k]) = l /\ Asks(-k, Flight[-k]) = up[k].type /\ up[k].type # "none"
    BY <2>2, <2>3 DEF Line, Asks
  <2>5. <<up[k].type, up[k].id>> \in awaits
    BY <2>2, <2>3, <2>4 DEF Exchange
  <2>6. ASSUME NEW j \in 1 .. k - 1, up[j].type = up[k].type, up[j].id = up[k].id
        PROVE  FALSE
    <3>1. j \in 1 .. Len(up) /\ -j # -k
      BY <2>1, LenProperties DEF TypeInv, NetOK
    <3>2. -j \in DOMAIN Flight /\ Flight[-j] = up[j] /\ Line(-j, Flight[-j]) = l
      BY <2>2, <2>3, <2>6, <3>1 DEF Line
    <3>3. QED
      BY <2>2, <2>3, <2>4, <2>6, <3>1, <3>2 DEF Exchange
  <2>7. QED
    BY <2>5, <2>6
<1>2. QED
  BY <1>1, LineInvSpec, PTL

LEMMA OursStep == IInv /\ LineInv /\ AckIsOurs /\ [Next]_vars => AckIsOurs'
<1> SUFFICES ASSUME IInv, LineInv, AckIsOurs, [Next]_vars, Sound', done' # NoPacket,
                    Want[call'.op] \notin gaveUp'
             PROVE  done'.type = Want[call'.op] /\ done'.id = call'.id
  BY DEF AckIsOurs
<1>1. TypeInv /\ Bound /\ (Sound => One)
  BY DEF IInv, LineInv
<1>2. CASE UNCHANGED <<link, torn, carried, done, call, gaveUp>>
  BY <1>2 DEF AckIsOurs, Sound
<1>3. CASE Arrive \/ BrokerTake \/ BrokerPublish \/ PingDue
  BY <1>2, <1>3 DEF Arrive, BrokerTake, BrokerPublish, PingDue, net, history
<1>4. CASE Break \/ Close
  BY <1>4 DEF Break, Close
<1>5. CASE MQTTConnect \/ MQTTYield
  BY <1>5 DEF MQTTConnect, MQTTYield, Begin
<1>6. CASE Requests
  BY <1>1, <1>6, RequestFacts
<1>7. ASSUME pc # "idle", done' = done PROVE FALSE
  BY <1>1, <1>7 DEF Bound
<1>8. CASE Expire \/ LoopEnd \/ LoopOn \/ DiscardLate \/ DiscardEnd \/ HandleOther
  BY <1>7, <1>8 DEF Expire, LoopEnd, LoopOn, DiscardLate, DiscardEnd, HandleOther, history
<1>9. CASE HandlePublish \/ HandlePubrec \/ Keepalive
  BY <1>7, <1>9 DEF HandlePublish, HandlePubrec, Keepalive, history
<1>10. CASE Reads
  BY <1>7, <1>10 DEF Reads, DiscardRest, DiscardBroken, ReadType, ReadLength, ReadBody, history
<1>11. CASE CallEnd
  <2>1. /\ UNCHANGED <<link, torn, carried, call, gaveUp>>
        /\ done' = got /\ got # NoPacket /\ pc = "answer" /\ call.op # "yield"
    BY <1>11 DEF CallEnd, net
  <2>2. Sound /\ One /\ got.type = Want[call.op]
    BY <1>1, <2>1 DEF Sound, Bound
  <2>3. got.type \in Acked
    BY <1>1, <1>11, <2>2 DEF TypeInv, CallOK, Want, Acked, CallEnd
  <2>4. InHand /\ GotLine(got) = got.type
    BY <2>1, <2>3 DEF InHand, GotLine, Acked
  <2>5. 0 \in DOMAIN Flight /\ Flight[0] = got /\ Line(0, Flight[0]) = got.type
    BY <1>1, <2>4, FlightFacts DEF Line
  <2>6. Waits(pc, call, got.type) /\ got.type \notin gaveUp
    BY <2>1, <2>2 DEF Waits
  <2>7. Ours(Flight, got.type, call.id)
    BY <2>2, <2>3, <2>6 DEF One
  <2>8. got.id = call.id
    BY <2>5, <2>7 DEF Ours
  <2>9. QED
    BY <2>1, <2>2, <2>8
<1>12. CASE UNCHANGED vars
  BY <1>2, <1>12 DEF vars, net, history
<1>13. QED
  BY <1>3, <1>4, <1>5, <1>6, <1>8, <1>9, <1>10, <1>11, <1>12, NextCases DEF Apart

\* The packet that ends a call answers the packet of that call: waitfor compares
\* only the type, and that is enough while no answer of the type was given up.
THEOREM AckIsOursCorrect == Spec => []AckIsOurs
<1>1. Init => AckIsOurs
  BY DEF Init, AckIsOurs
<1>2. QED
  BY <1>1, LineInvSpec, OursStep, PTL DEF Spec

-----------------------------------------------------------------------------
(* The handlers of what is under way.                                      *)

\* The topics that have a handler, or may have none; the one that is to get one.
Owned == {tp \in Topics : \/ \E k \in Slots : handlers[k] = tp
                          \/ tp \in missed \/ "UNSUBACK" \in gaveUp}
Asking == {tp \in Topics : pc # "idle" /\ call.op = "subscribe" /\ call.topic = tp}

\* The call has lost the answer it waits for, and will end with none.
Doomed == late /\ pc \in {"keepalive", "loop"} /\ got = NoPacket

\* A SUBACK comes before what is at x; on the way back at all.
Heard(F, x) == \E y \in DOMAIN F : y >= 0 /\ y < x /\ F[y].type = "SUBACK"
Coming(F)   == \E y \in DOMAIN F : y >= 0 /\ F[y].type = "SUBACK"

IsMessage(F, x)   == x >= 0 /\ F[x].type = "PUBLISH"
IsSubscribe(F, x) == x < 0 /\ F[x].type = "SUBSCRIBE"

Served(tp, heard) == tp \in Owned \/ (tp \in Asking /\ (Doomed \/ heard))

\* The topic tp is let go of at y: nothing after it brings it back.
Leaves(F, y, gr, tp) ==
  /\ y >= 0 => /\ tp \notin gr
               /\ \A x \in DOMAIN F : /\ IsMessage(F, x) /\ y < x => F[x].topic # tp
                                      /\ IsSubscribe(F, x) => F[x].topic # tp
  /\ y < 0 => /\ F[y].topic = tp
              /\ \A x \in DOMAIN F : IsSubscribe(F, x) /\ x < y => F[x].topic # tp

HandMessages   == \A x \in DOMAIN Flight : IsMessage(Flight, x) =>
                    Served(Flight[x].topic, Heard(Flight, x))
HandGranted    == \A tp \in granted : Served(tp, Coming(Flight))
HandSubscribes == \A x \in DOMAIN Flight : IsSubscribe(Flight, x) =>
                    Flight[x].topic \in Owned \cup Asking
HandLeaves     == "UNSUBACK" \notin gaveUp =>
                    \A y \in DOMAIN Flight : Line(y, Flight[y]) = "UNSUBACK" =>
                      Leaves(Flight, y, granted, call.topic)
Hand == HandMessages /\ HandGranted /\ HandSubscribes /\ HandLeaves

HandInv == Sound => Hand

LEMMA HeardKept ==
  ASSUME NEW F, NEW G, NEW f, NEW x0, NEW y0, Flows(F, G, f, x0, y0),
         NEW x \in DOMAIN G, x # x0, x >= 0, Heard(F, f[x])
  PROVE  Heard(G, x) \/ (y0 \in DOMAIN F /\ y0 >= 0 /\ F[y0].type = "SUBACK")
<1>1. PICK y \in DOMAIN F : y >= 0 /\ y < f[x] /\ F[y].type = "SUBACK"
  BY DEF Heard
<1>2. CASE y = y0
  BY <1>1, <1>2
<1>3. CASE y # y0
  <2>1. PICK z \in DOMAIN G : z # x0 /\ f[z] = y
    BY <1>3 DEF Flows
  <2>2. /\ x \in Int /\ z \in Int /\ f[x] \in Int /\ y \in Int
        /\ z < 0 <=> y < 0
        /\ G[z] = F[y]
        /\ Before(f[z], f[x]) <=> Before(z, x)
    BY <2>1 DEF Flows
  <2>3. Before(z, x)
    BY <1>1, <2>1, <2>2 DEF Before
  <2>4. z >= 0 /\ z < x
    BY <1>1, <2>2, <2>3 DEF Before
  <2>5. QED
    BY <1>1, <2>2, <2>4 DEF Heard
<1>4. QED
  BY <1>2, <1>3

LEMMA ComingKept ==
  ASSUME NEW F, NEW G, NEW f, NEW x0, NEW y0, Flows(F, G, f, x0, y0), Coming(F)
  PROVE  \/ \E z \in DOMAIN G : z # x0 /\ z >= 0 /\ G[z].type = "SUBACK"
         \/ y0 \in DOMAIN F /\ y0 >= 0 /\ F[y0].type = "SUBACK"
<1>1. PICK y \in DOMAIN F : y >= 0 /\ F[y].type = "SUBACK"
  BY DEF Coming
<1>2. CASE y = y0
  BY <1>1, <1>2
<1>3. CASE y # y0
  <2>1. PICK z \in DOMAIN G : z # x0 /\ f[z] = y
    BY <1>3 DEF Flows
  <2>2. z \in Int /\ y \in Int /\ (z < 0 <=> y < 0) /\ G[z] = F[y]
    BY <2>1 DEF Flows
  <2>3. z >= 0
    BY <1>1, <2>2
  <2>4. QED
    BY <1>1, <2>1, <2>2, <2>3
<1>4. QED
  BY <1>2, <1>3

\* The kind of what was there before.
LEMMA KindKept ==
  ASSUME NEW F, NEW G, NEW f, NEW x0, NEW y0, Flows(F, G, f, x0, y0),
         NEW x \in DOMAIN G, x # x0
  PROVE  /\ f[x] \in DOMAIN F /\ f[x] # y0 /\ G[x] = F[f[x]] /\ x \in Int /\ f[x] \in Int
         /\ IsMessage(G, x) <=> IsMessage(F, f[x])
         /\ IsSubscribe(G, x) <=> IsSubscribe(F, f[x])
         /\ x >= 0 <=> f[x] >= 0
<1>1. /\ f[x] \in DOMAIN F /\ f[x] # y0 /\ G[x] = F[f[x]] /\ x \in Int /\ f[x] \in Int
      /\ x < 0 <=> f[x] < 0
  BY DEF Flows
<1>2. x >= 0 <=> f[x] >= 0
  BY <1>1
<1>3. QED
  BY <1>1, <1>2 DEF IsMessage, IsSubscribe

LEMMA LeavesKept ==
  ASSUME NEW F, NEW G, NEW f, NEW x0, NEW y0, Flows(F, G, f, x0, y0),
         NEW z \in DOMAIN G, z # x0, NEW gr, NEW gr2, NEW tp, Leaves(F, f[z], gr, tp),
         x0 \in DOMAIN G /\ IsMessage(G, x0) => G[x0].topic \in gr,
         x0 \in DOMAIN G => ~ IsSubscribe(G, x0),
         f[z] >= 0 => tp \notin gr2
  PROVE  Leaves(G, z, gr2, tp)
<1>1. /\ f[z] \in DOMAIN F /\ G[z] = F[f[z]] /\ z \in Int /\ f[z] \in Int
      /\ z >= 0 <=> f[z] >= 0
  BY KindKept
<1>2. ASSUME NEW x \in DOMAIN G, IsSubscribe(G, x) 
      PROVE  /\ f[x] \in DOMAIN F /\ IsSubscribe(F, f[x]) /\ G[x] = F[f[x]]
             /\ x \in Int /\ f[x] \in Int /\ x < 0 /\ f[x] < 0
             /\ Before(f[z], f[x]) <=> Before(z, x)
  <2>1. x # x0
    BY <1>2
  <2>2. Before(f[z], f[x]) <=> Before(z, x)
    BY <2>1 DEF Flows
  <2>3. QED
    BY <1>2, <2>1, <2>2, KindKept DEF IsSubscribe
<1>3. CASE z >= 0
  <2>1. tp \notin gr2 /\ tp \notin gr
    BY <1>1, <1>3 DEF Leaves
  <2>2. ASSUME NEW x \in DOMAIN G, IsMessage(G, x), z < x PROVE G[x].topic # tp
    <3>1. CASE x = x0
      BY <2>1, <2>2, <3>1
    <3>2. CASE x # x0
      <4>1. f[x] \in DOMAIN F /\ IsMessage(F, f[x]) /\ G[x] = F[f[x]] /\ x \in Int /\ f[x] \in Int
            /\ x >= 0 /\ f[x] >= 0
        BY <2>2, <3>2, KindKept DEF IsMessage
      <4>2. Before(z, x) /\ (Before(f[z], f[x]) <=> Before(z, x))
        BY <1>1, <1>3, <2>2, <3>2, <4>1 DEF Before, Flows
      <4>3. f[z] < f[x]
        BY <1>1, <1>3, <4>1, <4>2 DEF Before
      <4>4. QED
        BY <1>1, <1>3, <4>1, <4>3 DEF Leaves
    <3>3. QED
      BY <3>1, <3>2
  <2>3. ASSUME NEW x \in DOMAIN G, IsSubscribe(G, x) PROVE G[x].topic # tp
    BY <1>1, <1>2, <1>3, <2>3 DEF Leaves
  <2>4. ~ (z < 0)
    BY <1>1, <1>3
  <2>5. QED
    BY <2>1, <2>2, <2>3, <2>4 DEF Leaves
<1>4. CASE z < 0
  <2>1. f[z] < 0 /\ ~ (z >= 0)
    BY <1>1, <1>4
  <2>2. G[z].topic = tp
    BY <1>1, <2>1 DEF Leaves
  <2>3. ASSUME NEW x \in DOMAIN G, IsSubscribe(G, x), x < z PROVE G[x].topic # tp
    <3>1. f[x] < f[z]
      BY <1>1, <1>2, <1>4, <2>1, <2>3 DEF Before
    <3>2. QED
      BY <1>2, <2>1, <2>3, <3>1 DEF Leaves
  <2>4. QED
    BY <2>1, <2>2, <2>3 DEF Leaves
<1>5. QED
  BY <1>1, <1>3, <1>4

\* What the broker grants as it takes a packet, and what it answers.
Grants(p, r, w, w2, gr, gr2) ==
  /\ w2 = w \/ w2 = w \o Cells(r)
  /\ w2 # w => r.type # "PUBLISH" /\ (GotLine(r) = "UNSUBACK" => p.type = "UNSUBSCRIBE")
  /\ \/ /\ p.type = "SUBSCRIBE" /\ w2 = w \o Cells(r) /\ r.type = "SUBACK"
        /\ gr2 \subseteq gr \cup {p.topic}
     \/ p.type = "UNSUBSCRIBE" /\ gr2 = gr \ {p.topic}
     \/ p.type \notin {"SUBSCRIBE", "UNSUBSCRIBE"} /\ gr2 = gr

LEMMA TakeGrants ==
  ASSUME TypeInv, BrokerTake
  PROVE  \E r \in Packets(Inbound) : Grants(Head(up), r, wire, wire', granted, granted')
<1> DEFINE p        == Head(up)
           Ack(ty)  == Packet(ty, p.id, NoTopic, 0)
           Added(r) == r \in Packets(Inbound) /\ wire' = wire \o Cells(r)
           Fits(r)  == Grants(p, r, wire, wire', granted, granted')
<1>1. CASE p.type = "SUBSCRIBE"
  <2>1. PICK c \in {0, 1} : /\ Added(Packet("SUBACK", p.id, p.topic, c))
                            /\ granted' \in {granted, granted \cup {p.topic}}
    BY <1>1, BrokerCases
  <2>2. PICK r : r = Packet("SUBACK", p.id, p.topic, c)
    OBVIOUS
  <2>3. r \in Packets(Inbound) /\ wire' = wire \o Cells(r) /\ r.type = "SUBACK"
    BY <2>1, <2>2 DEF Packet
  <2> HIDE DEF p
  <2>4. Fits(r)
    BY <1>1, <2>1, <2>3 DEF Grants, GotLine
  <2>5. QED
    BY <2>3, <2>4 DEF p
<1>2. CASE p.type = "UNSUBSCRIBE"
  <2>1. /\ Added(Packet("UNSUBACK", p.id, p.topic, 0))
        /\ granted' = granted \ {p.topic}
    BY <1>2, BrokerCases
  <2>2. PICK r : r = Packet("UNSUBACK", p.id, p.topic, 0)
    OBVIOUS
  <2>3. r \in Packets(Inbound) /\ wire' = wire \o Cells(r) /\ r.type = "UNSUBACK"
    BY <2>1, <2>2 DEF Packet
  <2> HIDE DEF p
  <2>4. Fits(r)
    BY <1>2, <2>1, <2>3 DEF Grants
  <2>5. QED
    BY <2>3, <2>4 DEF p
<1>3. CASE p.type \notin {"SUBSCRIBE", "UNSUBSCRIBE"}
  <2> DEFINE tys == {"CONNACK", "PUBACK", "PUBREC", "PUBREL", "PUBCOMP", "PINGRESP"}
  <2>1. /\ granted' = granted
        /\ \/ UNCHANGED wire
           \/ \E c \in {0, 1} : Added(Packet("CONNACK", 0, NoTopic, c))
           \/ Added(Ack("PUBACK")) \/ Added(Ack("PUBREC")) \/ Added(Ack("PUBREL"))
           \/ Added(Ack("PUBCOMP")) \/ Added(Plain("PINGRESP"))
    BY <1>3, BrokerCases
  <2>2. \A ty, n, tp, c : Packet(ty, n, tp, c).type = ty
    BY DEF Packet
  <2> HIDE DEF p
  <2>3. \E r \in Packets(Inbound) : wire' = wire \/ (wire' = wire \o Cells(r) /\ r.type \in tys)
    <3>1. CASE UNCHANGED wire
      <4>1. "PINGRESP" \in Inbound /\ 0 \in Nat /\ NoTopic \in Tops /\ 0 \in 0 .. 2
        BY Constants DEF Tops
      <4>2. Packet("PINGRESP", 0, NoTopic, 0) \in Packets(Inbound)
        BY <4>1, PacketFacts
      <4>3. QED
        BY <3>1, <4>2
    <3>2. ASSUME NEW c, Added(Packet("CONNACK", 0, NoTopic, c))
          PROVE  \E r \in Packets(Inbound) : wire' = wire \o Cells(r) /\ r.type \in tys
      BY <2>2, <3>2
    <3>3. ASSUME NEW ty \in tys, Added(Ack(ty))
          PROVE  \E r \in Packets(Inbound) : wire' = wire \o Cells(r) /\ r.type \in tys
      BY <2>2, <3>3
    <3>4. CASE Added(Plain("PINGRESP"))
      BY <2>2, <3>4 DEF Plain
    <3> HIDE DEF Added, Ack
    <3>5. QED
      BY <2>1, <3>1, <3>2, <3>3, <3>4
  <2>4. PICK r \in Packets(Inbound) :
          wire' = wire \/ (wire' = wire \o Cells(r) /\ r.type \in tys)
    BY <2>3
  <2>5. wire' # wire => GotLine(r) # "UNSUBACK" /\ r.type # "PUBLISH"
    BY <2>4 DEF GotLine
  <2>6. Fits(r)
    BY <1>3, <2>1, <2>4, <2>5 DEF Grants
  <2>7. QED
    BY <2>6 DEF p
<1>4. QED
  BY <1>1, <1>2, <1>3

LEMMA TakeHand ==
  ASSUME TypeInv, Hand, BrokerTake
  PROVE  Hand'
<1>1. /\ up # <<>> /\ up' = Tail(up)
      /\ UNCHANGED <<pc, got, call, late, handlers, missed, gaveUp>>
  BY DEF BrokerTake, reading, history, client
<1>2. PICK r \in Packets(Inbound) : Grants(Head(up), r, wire, wire', granted, granted')
  BY TakeGrants
<1>3. PICK p : p = Head(up)
  OBVIOUS
<1>4. Took(Flight, Flight', Head(up), r, wire, wire')
  BY <1>1, <1>2, TakeFlow DEF Grants
<1>5. PICK f : \E x0, y0 \in Int :
        /\ Flows(Flight, Flight', f, x0, y0)
        /\ x0 > 0 /\ y0 < 0
        /\ y0 \in DOMAIN Flight /\ Flight[y0] = p
        /\ x0 \in DOMAIN Flight' => wire' # wire /\ Flight'[x0] = r
        /\ wire' = wire \o Cells(r) => x0 \in DOMAIN Flight'
  BY <1>3, <1>4, Zenon DEF Took
<1>6. PICK x0 \in Int, y0 \in Int :
        /\ Flows(Flight, Flight', f, x0, y0)
        /\ x0 > 0 /\ y0 < 0
        /\ y0 \in DOMAIN Flight /\ Flight[y0] = p
        /\ x0 \in DOMAIN Flight' => wire' # wire /\ Flight'[x0] = r
        /\ wire' = wire \o Cells(r) => x0 \in DOMAIN Flight'
  BY <1>5, Zenon
<1>7. /\ x0 \in DOMAIN Flight' => /\ Flight'[x0] = r /\ r.type # "PUBLISH"
                                  /\ GotLine(r) = "UNSUBACK" => p.type = "UNSUBSCRIBE"
      /\ \/ /\ p.type = "SUBSCRIBE" /\ x0 \in DOMAIN Flight' /\ r.type = "SUBACK"
            /\ granted' \subseteq granted \cup {p.topic}
         \/ p.type = "UNSUBSCRIBE" /\ granted' = granted \ {p.topic}
         \/ p.type \notin {"SUBSCRIBE", "UNSUBSCRIBE"} /\ granted' = granted
  BY <1>2, <1>3, <1>6 DEF Grants
<1>8. Owned' = Owned /\ Asking' = Asking /\ (Doomed' <=> Doomed)
  BY <1>1 DEF Owned, Asking, Doomed
<1>9. /\ x0 \in DOMAIN Flight' => ~ IsMessage(Flight', x0) /\ ~ IsSubscribe(Flight', x0)
      /\ ~ (y0 \in DOMAIN Flight /\ y0 >= 0)
  BY <1>6, <1>7 DEF IsMessage, IsSubscribe
<1>10. HandMessages'
  <2>1. ASSUME NEW x \in DOMAIN Flight', IsMessage(Flight', x)
        PROVE  \/ Flight'[x].topic \in Owned'
               \/ Flight'[x].topic \in Asking' /\ (Doomed' \/ Heard(Flight', x))
    <3>1. /\ f[x] \in DOMAIN Flight /\ Flight'[x] = Flight[f[x]] /\ IsMessage(Flight, f[x])
          /\ x # x0 /\ x >= 0
      BY <1>6, <1>9, <2>1, KindKept DEF IsMessage
    <3>2. Served(Flight'[x].topic, Heard(Flight, f[x]))
      BY <3>1 DEF Hand, HandMessages
    <3>3. Heard(Flight, f[x]) => Heard(Flight', x)
      BY <1>6, <1>9, <3>1, HeardKept
    <3>4. QED
      BY <1>8, <3>2, <3>3 DEF Served
  <2>2. QED
    BY <2>1 DEF HandMessages, Served
<1>11. HandGranted'
  <2>1. Coming(Flight) => Coming(Flight')
    BY <1>6, <1>9, ComingKept DEF Coming
  <2>2. ASSUME NEW tp \in granted'
        PROVE  tp \in Owned' \/ (tp \in Asking' /\ (Doomed' \/ Coming(Flight')))
    <3>1. CASE tp \in granted
      BY <1>8, <2>1, <3>1 DEF Hand, HandGranted, Served
    <3>2. CASE tp \notin granted
      <4>1. p.type = "SUBSCRIBE" /\ x0 \in DOMAIN Flight' /\ r.type = "SUBACK" /\ tp = p.topic
        BY <1>7, <2>2, <3>2
      <4>2. tp \in Owned \cup Asking
        BY <1>6, <4>1 DEF Hand, HandSubscribes, IsSubscribe
      <4>3. Coming(Flight')
        BY <1>6, <1>7, <4>1 DEF Coming
      <4>4. QED
        BY <1>8, <4>2, <4>3
    <3>3. QED
      BY <3>1, <3>2
  <2>3. QED
    BY <2>2 DEF HandGranted, Served
<1>12. HandSubscribes'
  <2>1. ASSUME NEW x \in DOMAIN Flight', IsSubscribe(Flight', x)
        PROVE  Flight'[x].topic \in Owned' \cup Asking'
    <3>1. f[x] \in DOMAIN Flight /\ Flight'[x] = Flight[f[x]] /\ IsSubscribe(Flight, f[x])
      BY <1>6, <1>9, <2>1, KindKept
    <3>2. QED
      BY <1>8, <3>1 DEF Hand, HandSubscribes
  <2>2. QED
    BY <2>1 DEF HandSubscribes
<1>13. ASSUME "UNSUBACK" \notin gaveUp, NEW z \in DOMAIN Flight',
              Line(z, Flight'[z]) = "UNSUBACK"
       PROVE  Leaves(Flight', z, granted', call.topic)
  <2>1. CASE z # x0
    <3>1. f[z] \in DOMAIN Flight /\ Line(f[z], Flight[f[z]]) = "UNSUBACK"
      BY <1>6, <1>13, <2>1, FlowLine
    <3>2. Leaves(Flight, f[z], granted, call.topic)
      BY <1>13, <3>1 DEF Hand, HandLeaves
    <3>3. f[z] >= 0 => call.topic \notin granted'
      <4>1. f[z] >= 0 => /\ call.topic \notin granted
                         /\ IsSubscribe(Flight, y0) => p.topic # call.topic
        BY <1>6, <3>2 DEF Leaves
      <4>2. IsSubscribe(Flight, y0) <=> p.type = "SUBSCRIBE"
        BY <1>6 DEF IsSubscribe
      <4>3. QED
        BY <1>7, <4>1, <4>2
    <3>4. QED
      BY <1>6, <1>9, <2>1, <3>2, <3>3, LeavesKept
  <2>2. CASE z = x0
    <3>1. GotLine(r) = "UNSUBACK" /\ p.type = "UNSUBSCRIBE" /\ granted' = granted \ {p.topic}
      BY <1>6, <1>7, <1>13, <2>2 DEF Line
    <3>2. Line(y0, Flight[y0]) = "UNSUBACK"
      BY <1>6, <3>1 DEF Line, SentLine
    <3>3. Leaves(Flight, y0, granted, call.topic)
      BY <1>6, <1>13, <3>2 DEF Hand, HandLeaves
    <3>4. p.topic = call.topic /\ call.topic \notin granted'
      BY <1>6, <3>1, <3>3 DEF Leaves
    <3>5. ASSUME NEW x \in DOMAIN Flight', IsMessage(Flight', x), z < x PROVE FALSE
      <4>1. x # x0 /\ x \in Int /\ ~ (x < 0) /\ ~ (x0 < 0)
        BY <1>6, <1>9, <2>2, <3>5, KindKept DEF IsMessage
      <4>2. Before(x, x0)
        BY <1>6, <1>13, <2>2, <4>1 DEF Flows
      <4>3. QED
        BY <1>6, <2>2, <3>5, <4>1, <4>2 DEF Before
    <3>6. ASSUME NEW x \in DOMAIN Flight', IsSubscribe(Flight', x)
          PROVE  Flight'[x].topic # call.topic
      <4>1. /\ x # x0 /\ f[x] \in DOMAIN Flight /\ IsSubscribe(Flight, f[x]) /\ f[x] # y0
            /\ f[x] \in Int /\ Flight'[x] = Flight[f[x]] /\ f[x] < 0
        BY <1>6, <1>9, <3>6, KindKept DEF IsSubscribe
      <4>2. Before(y0, f[x])
        BY <1>6, <4>1 DEF Flows
      <4>3. f[x] < y0
        BY <1>6, <4>1, <4>2 DEF Before
      <4>4. QED
        BY <1>6, <3>3, <4>1, <4>3 DEF Leaves
    <3>7. ~ (z < 0)
      BY <1>6, <2>2
    <3>8. QED
      BY <3>4, <3>5, <3>6, <3>7 DEF Leaves
  <2>3. QED
    BY <2>1, <2>2
<1>14. HandLeaves'
  BY <1>1, <1>13 DEF HandLeaves
<1>15. QED
  BY <1>10, <1>11, <1>12, <1>14 DEF Hand

\* A message goes after the SUBACK that made room for it.
LEMMA PublishHand ==
  ASSUME TypeInv, Hand, BrokerPublish
  PROVE  Hand'
<1>1. PICK tp \in granted, q \in 0 .. 2 :
        wire' = wire \o Cells(Packet("PUBLISH", pubs + 1, tp, q))
  BY DEF BrokerPublish, Answers
<1>2. UNCHANGED <<up, pc, got, call, late, handlers, missed, gaveUp, granted>>
  BY DEF BrokerPublish, reading, client, history
<1>3. PICK r : r = Packet("PUBLISH", pubs + 1, tp, q)
  OBVIOUS
<1>4. r \in Packets(Inbound) /\ r.type = "PUBLISH" /\ r.topic = tp
  <2>1. "PUBLISH" \in Inbound /\ tp \in Tops /\ pubs + 1 \in Nat
    BY MqttClientAssumption DEF MqttClientAssumption, Tops, TypeInv, BrokerOK
  <2>2. r \in Packets(Inbound)
    BY <1>3, <2>1, PacketFacts
  <2>3. QED
    BY <1>3, <2>2 DEF Packet
<1>5. Published(Flight, Flight', r)
  BY <1>1, <1>2, <1>3, <1>4, PublishFlow
<1>6. PICK f : \E x0 \in Int :
        /\ Flows(Flight, Flight', f, x0, x0)
        /\ x0 > 0 /\ x0 \notin DOMAIN Flight
        /\ x0 \in DOMAIN Flight' /\ Flight'[x0] = r
  BY <1>5, Zenon DEF Published
<1>7. PICK x0 \in Int :
        /\ Flows(Flight, Flight', f, x0, x0)
        /\ x0 > 0 /\ x0 \notin DOMAIN Flight
        /\ x0 \in DOMAIN Flight' /\ Flight'[x0] = r
  BY <1>6, Zenon
<1>8. Owned' = Owned /\ Asking' = Asking /\ (Doomed' <=> Doomed)
  BY <1>2 DEF Owned, Asking, Doomed
<1>9. ~ IsSubscribe(Flight', x0) /\ Flight'[x0].topic \in granted
      /\ Line(x0, Flight'[x0]) # "UNSUBACK"
  BY <1>1, <1>4, <1>7 DEF IsSubscribe, Line, GotLine
<1>10. HandMessages'
  <2>1. ASSUME NEW x \in DOMAIN Flight', IsMessage(Flight', x)
        PROVE  \/ Flight'[x].topic \in Owned'
               \/ Flight'[x].topic \in Asking' /\ (Doomed' \/ Heard(Flight', x))
    <3>1. CASE x # x0
      <4>1. /\ f[x] \in DOMAIN Flight /\ Flight'[x] = Flight[f[x]] /\ IsMessage(Flight, f[x])
            /\ x >= 0
        BY <1>7, <2>1, <3>1, KindKept DEF IsMessage
      <4>2. Served(Flight'[x].topic, Heard(Flight, f[x]))
        BY <4>1 DEF Hand, HandMessages
      <4>3. Heard(Flight, f[x]) => Heard(Flight', x)
        BY <1>7, <3>1, <4>1, HeardKept
      <4>4. QED
        BY <1>8, <4>2, <4>3 DEF Served
    <3>2. CASE x = x0
      <4>1. Served(tp, Coming(Flight)) /\ Flight'[x].topic = tp
        BY <1>1, <1>4, <1>7, <3>2 DEF Hand, HandGranted
      <4>2. Coming(Flight) => \E z \in DOMAIN Flight' : z # x0 /\ z >= 0 /\ Flight'[z].type = "SUBACK"
        BY <1>7, ComingKept
      <4>3. ASSUME NEW z \in DOMAIN Flight', z # x0, z >= 0, Flight'[z].type = "SUBACK"
            PROVE  Heard(Flight', x)
        <5>1. z \in Int /\ (z < 0 <=> x0 < 0)
          BY <1>7, <4>3, KindKept
        <5>2. Before(z, x0)
          BY <1>7, <4>3, <5>1 DEF Flows
        <5>3. z < x0
          BY <1>7, <4>3, <5>1, <5>2 DEF Before
        <5>4. QED
          BY <3>2, <4>3, <5>3 DEF Heard
      <4>4. Coming(Flight) => Heard(Flight', x)
        BY <4>2, <4>3
      <4>5. QED
        BY <1>8, <4>1, <4>4 DEF Served
    <3>3. QED
      BY <3>1, <3>2
  <2>2. QED
    BY <2>1 DEF HandMessages, Served
<1>11. HandGranted'
  <2>1. Coming(Flight) => Coming(Flight')
    BY <1>7, ComingKept DEF Coming
  <2>2. ASSUME NEW t \in granted'
        PROVE  t \in Owned' \/ (t \in Asking' /\ (Doomed' \/ Coming(Flight')))
    BY <1>2, <1>8, <2>1 DEF Hand, HandGranted, Served
  <2>3. QED
    BY <2>2 DEF HandGranted, Served
<1>12. HandSubscribes'
  <2>1. ASSUME NEW x \in DOMAIN Flight', IsSubscribe(Flight', x)
        PROVE  Flight'[x].topic \in Owned' \cup Asking'
    <3>1. f[x] \in DOMAIN Flight /\ Flight'[x] = Flight[f[x]] /\ IsSubscribe(Flight, f[x])
      BY <1>7, <1>9, <2>1, KindKept
    <3>2. QED
      BY <1>8, <3>1 DEF Hand, HandSubscribes
  <2>2. QED
    BY <2>1 DEF HandSubscribes
<1>13. ASSUME "UNSUBACK" \notin gaveUp, NEW z \in DOMAIN Flight',
              Line(z, Flight'[z]) = "UNSUBACK"
       PROVE  Leaves(Flight', z, granted', call.topic)
  <2>1. z # x0
    BY <1>9, <1>13
  <2>2. f[z] \in DOMAIN Flight /\ Line(f[z], Flight[f[z]]) = "UNSUBACK"
    BY <1>7, <1>13, <2>1, FlowLine
  <2>3. Leaves(Flight, f[z], granted, call.topic)
    BY <1>13, <2>2 DEF Hand, HandLeaves
  <2>4. f[z] >= 0 => call.topic \notin granted'
    BY <1>2, <2>3 DEF Leaves
  <2>5. QED
    BY <1>7, <1>9, <2>1, <2>3, <2>4, LeavesKept
<1>14. HandLeaves'
  BY <1>2, <1>13 DEF HandLeaves
<1>15. QED
  BY <1>10, <1>11, <1>12, <1>14 DEF Hand

\* A request: no call ran, so every topic that matters has its handler.
LEMMA RequestHand ==
  ASSUME TypeInv, One, Hand, Requests
  PROVE  Hand'
<1>1. /\ UNCHANGED <<wire, granted, handlers, missed, gaveUp>> /\ pc = "idle" /\ pc' \in {"idle", "loop"}
  BY RequestFacts DEF broker
<1>2. PICK p \in Packets(Sent) :
           /\ \/ UNCHANGED up /\ pc' = "idle"
              \/ /\ up' = Append(up, p)
                 /\ pc' = IF Want[call'.op] = "nothing" THEN "idle" ELSE "loop"
           /\ SentLine(p) = IF Want[call'.op] = "nothing" THEN "none" ELSE Want[call'.op]
           /\ p.type = "SUBSCRIBE" => call'.op = "subscribe" /\ p.topic = call'.topic
           /\ p.type = "UNSUBSCRIBE" => call'.op = "unsubscribe" /\ p.topic = call'.topic
  BY RequestLine
<1>3. ~ InHand' /\ (up' = up \/ up' = Append(up, p))
  BY <1>1, <1>2 DEF InHand
<1>4. PICK f : \E x0, y0 \in Int :
        /\ Flows(Flight, Flight', f, x0, y0)
        /\ x0 < 0
        /\ x0 \in DOMAIN Flight' => up' # up /\ Flight'[x0] = p
  BY <1>1, <1>3, WriteFlow
<1>5. PICK x0 \in Int, y0 \in Int :
        /\ Flows(Flight, Flight', f, x0, y0)
        /\ x0 < 0
        /\ x0 \in DOMAIN Flight' => up' # up /\ Flight'[x0] = p
  BY <1>4, Zenon
<1>6. Owned' = Owned /\ Asking = {}
  BY <1>1 DEF Owned, Asking
<1>7. HandMessages'
  <2>1. ASSUME NEW x \in DOMAIN Flight', IsMessage(Flight', x)
        PROVE  Flight'[x].topic \in Owned'
    <3>1. f[x] \in DOMAIN Flight /\ Flight'[x] = Flight[f[x]] /\ IsMessage(Flight, f[x])
      BY <1>5, <2>1, KindKept DEF IsMessage
    <3>2. QED
      BY <1>6, <3>1 DEF Hand, HandMessages, Served
  <2>2. QED
    BY <2>1 DEF HandMessages, Served
<1>8. HandGranted'
  BY <1>1, <1>6 DEF Hand, HandGranted, Served
<1>9. HandSubscribes'
  <2>1. ASSUME NEW x \in DOMAIN Flight', IsSubscribe(Flight', x)
        PROVE  Flight'[x].topic \in Owned' \cup Asking'
    <3>1. CASE x # x0
      <4>1. f[x] \in DOMAIN Flight /\ Flight'[x] = Flight[f[x]] /\ IsSubscribe(Flight, f[x])
        BY <1>5, <2>1, <3>1, KindKept
      <4>2. QED
        BY <1>6, <4>1 DEF Hand, HandSubscribes
    <3>2. CASE x = x0
      <4>1. Flight'[x] = p /\ p.type = "SUBSCRIBE" /\ up' # up
        BY <1>5, <2>1, <3>2 DEF IsSubscribe
      <4>2. call'.op = "subscribe" /\ p.topic = call'.topic
        BY <1>2, <4>1
      <4>3. pc' # "idle"
        BY <1>2, <4>1, <4>2 DEF Want
      <4>4. call'.topic \in Topics
        BY <4>2, RequestFacts
      <4>5. QED
        BY <4>1, <4>2, <4>3, <4>4 DEF Asking
    <3>3. QED
      BY <3>1, <3>2
  <2>2. QED
    BY <2>1 DEF HandSubscribes
<1>10. ASSUME "UNSUBACK" \notin gaveUp', NEW z \in DOMAIN Flight',
              Line(z, Flight'[z]) = "UNSUBACK"
       PROVE  Leaves(Flight', z, granted', call'.topic)
  <2>1. NoneOf(Flight, "UNSUBACK")
    BY <1>1, <1>10 DEF One, Waits, Acked
  <2>2. z = x0
    BY <1>5, <1>10, <2>1, FlowLine DEF NoneOf
  <2>3. Flight'[z] = p /\ SentLine(p) = "UNSUBACK"
    BY <1>5, <1>10, <2>2 DEF Line
  <2>4. p.type = "UNSUBSCRIBE"
    BY <2>3 DEF SentLine, Packets, Sent
  <2>5. Flight'[z].topic = call'.topic
    BY <1>2, <2>3, <2>4
  <2>6. ASSUME NEW x \in DOMAIN Flight', IsSubscribe(Flight', x), x < z PROVE FALSE
    <3>1. x # x0 /\ x \in Int /\ x < 0
      BY <1>5, <2>2, <2>6, KindKept DEF IsSubscribe
    <3>2. Before(x, x0)
      BY <1>5, <1>10, <2>2, <3>1 DEF Flows
    <3>3. QED
      BY <1>5, <2>2, <2>6, <3>1, <3>2 DEF Before
  <2>7. ~ (z >= 0)
    BY <1>5, <2>2
  <2>8. QED
    BY <2>5, <2>6, <2>7 DEF Leaves
<1>11. HandLeaves'
  BY <1>10 DEF HandLeaves
<1>12. QED
  BY <1>7, <1>8, <1>9, <1>11 DEF Hand

\* A set of numbers that is not empty has a least one.
LEMMA LeastNatural ==
  ASSUME NEW T \in SUBSET Nat, T # {}
  PROVE  \E k \in T : \A i \in T : k <= i
<1> DEFINE R == StrictSubsetOrdering(Nat)
           U == {1 .. k : k \in T}
<1>1. IsWellFoundedOn(R, FiniteSubsetsOf(Nat))
  BY FS_StrictSubsetOrderingWellFounded
<1>2. U \subseteq FiniteSubsetsOf(Nat) /\ U # {}
  <2>1. ASSUME NEW k \in T PROVE 1 .. k \in SUBSET Nat /\ IsFiniteSet(1 .. k)
    <3>1. 1 \in Int /\ k \in Int
      OBVIOUS
    <3>2. IsFiniteSet(1 .. k)
      BY <3>1, FS_Interval
    <3>3. QED
      BY <3>2
  <2>2. QED
    BY <2>1 DEF FiniteSubsetsOf
<1>3. ASSUME NEW i \in T, NEW k \in T, i < k PROVE <<1 .. i, 1 .. k>> \in R
  <2>1. 1 .. i \subseteq 1 .. k /\ k \in 1 .. k /\ k \notin 1 .. i
    BY <1>3
  <2>2. 1 .. i \in SUBSET Nat /\ 1 .. k \in SUBSET Nat /\ 1 .. i # 1 .. k
    BY <2>1
  <2>3. QED
    BY <2>1, <2>2 DEF StrictSubsetOrdering
<1> HIDE DEF R
<1>4. PICK A \in U : \A B \in U : ~ (<<B, A>> \in R)
  <2> HIDE DEF U
  <2>1. QED
    BY <1>1, <1>2, WFMin
<1>5. PICK k \in T : A = 1 .. k
  BY <1>4
<1>6. \A i \in T : ~ (i < k)
  BY <1>3, <1>4, <1>5
<1>7. QED
  BY <1>5, <1>6

-----------------------------------------------------------------------------
(* Handlers: what goes on within a call, and what its end does.            *)

\* Nothing comes that is about a topic, and no more goes than what the client held.
Moved(F, G, h2) ==
  \E f : \E x0, y0 \in Int :
    /\ Flows(F, G, f, x0, y0)
    /\ x0 \in DOMAIN G => /\ ~ IsMessage(G, x0) /\ ~ IsSubscribe(G, x0)
                          /\ Line(x0, G[x0]) # "UNSUBACK"
    /\ y0 \in DOMAIN F => y0 = 0 /\ ~ h2

LEMMA WentMoved ==
  ASSUME NEW F, NEW G, NEW h2, Went(F, G, h2)
  PROVE  Moved(F, G, h2)
BY Zenon DEF Went, Moved

\* A write of the client that is about no topic.
LEMMA WroteMoved ==
  ASSUME TypeInv, UNCHANGED wire, NEW p \in Packets(Sent), up' = up \/ up' = Append(up, p),
         InHand' => InHand /\ got' = got,
         p.type \in Acks \cup {"PINGREQ"}
  PROVE  Moved(Flight, Flight', InHand')
<1>1. PICK f : \E x0, y0 \in Int :
        /\ Flows(Flight, Flight', f, x0, y0)
        /\ x0 < 0
        /\ x0 \in DOMAIN Flight' => Flight'[x0] = p
        /\ y0 \in DOMAIN Flight => y0 = 0 /\ ~ InHand'
  BY WriteFlow
<1>2. PICK x0 \in Int, y0 \in Int :
        /\ Flows(Flight, Flight', f, x0, y0)
        /\ x0 < 0
        /\ x0 \in DOMAIN Flight' => Flight'[x0] = p
        /\ y0 \in DOMAIN Flight => y0 = 0 /\ ~ InHand'
  BY <1>1, Zenon
<1>3. SentLine(p) # "UNSUBACK" /\ p.type # "SUBSCRIBE"
  BY DEF SentLine, Acks
<1>4. x0 \in DOMAIN Flight' => /\ ~ IsMessage(Flight', x0) /\ ~ IsSubscribe(Flight', x0)
                               /\ Line(x0, Flight'[x0]) # "UNSUBACK"
  BY <1>2, <1>3 DEF IsMessage, IsSubscribe, Line
<1>5. QED
  BY <1>2, <1>4, Zenon DEF Moved

LEMMA MovedFlow ==
  ASSUME IInv, Sound, ~ torn', Onward, ~ BrokerTake
  PROVE  Moved(Flight, Flight', InHand')
<1>1. TypeInv /\ Placed /\ link = "up"
  BY DEF IInv, SyncInv, Sound
<1>2. CASE Arrive \/ Apart
  BY <1>1, <1>2, StillKept, WentMoved
<1>3. CASE Reads
  BY <1>1, <1>3, ReadFlow, WentMoved
<1>4. CASE Keepalive
  <2>1. /\ UNCHANGED wire /\ pc = "keepalive" 
        /\ (pc' = "answer" /\ got' = got) \/ pc' = "loop"
    BY <1>1, <1>4, KeepaliveFacts DEF reading
  <2>2. InHand' => InHand /\ got' = got
    BY <2>1 DEF InHand
  <2>3. CASE UNCHANGED up
    BY <1>1, <2>1, <2>2, <2>3, StillFlow, WentMoved
  <2>4. CASE ~ UNCHANGED up
    <3>1. /\ Plain("PINGREQ") \in Packets(Sent) /\ Plain("PINGREQ").type = "PINGREQ"
          /\ up' = Append(up, Plain("PINGREQ"))
      BY <1>1, <1>4, <2>4, KeepaliveFacts DEF Written
    <3>2. QED
      BY <1>1, <2>1, <2>2, <3>1, WroteMoved
  <2>5. QED
    BY <2>3, <2>4
<1>5. CASE HandlePublish \/ HandlePubrec
  <2>1. /\ UNCHANGED wire /\ pc = "handle" /\ got.type \in {"PUBLISH", "PUBREC", "PUBREL"}
        /\ \/ pc' = "keepalive" /\ got' = got
           \/ pc' \in {"idle", "loop"}
    BY <1>1, <1>5, AckFacts DEF reading
  <2>2. ~ InHand'
    BY <2>1 DEF InHand
  <2>3. CASE UNCHANGED up
    BY <1>1, <2>1, <2>2, <2>3, StillFlow, WentMoved
  <2>4. CASE ~ UNCHANGED up
    <3>1. PICK p \in Packets(Sent) : up' = Append(up, p) /\ p.type \in Acks
      BY <1>1, <1>5, <2>4, AckLine
    <3>2. QED
      BY <1>1, <2>1, <2>2, <3>1, WroteMoved
  <2>5. QED
    BY <2>3, <2>4
<1>6. QED
  BY <1>2, <1>3, <1>4, <1>5 DEF Onward

\* A step of a call that goes on: the SUBACK stays in hand, or the call is lost.
LEMMA CalmHand ==
  ASSUME TypeInv, One, Hand, Moved(Flight, Flight', InHand'),
         UNCHANGED <<granted, gaveUp>>, Owned' = Owned, Asking \subseteq Asking',
         Asking # {} /\ Doomed => Doomed',
         Asking # {} /\ InHand /\ got.type = "SUBACK" => InHand' \/ Doomed',
         call' = call \/ pc = "idle"
  PROVE  Hand'
<1>1. PICK f : \E x0, y0 \in Int :
        /\ Flows(Flight, Flight', f, x0, y0)
        /\ x0 \in DOMAIN Flight' => /\ ~ IsMessage(Flight', x0) /\ ~ IsSubscribe(Flight', x0)
                                    /\ Line(x0, Flight'[x0]) # "UNSUBACK"
        /\ y0 \in DOMAIN Flight => y0 = 0 /\ ~ InHand'
  BY Zenon DEF Moved
<1>2. PICK x0 \in Int, y0 \in Int :
        /\ Flows(Flight, Flight', f, x0, y0)
        /\ x0 \in DOMAIN Flight' => /\ ~ IsMessage(Flight', x0) /\ ~ IsSubscribe(Flight', x0)
                                    /\ Line(x0, Flight'[x0]) # "UNSUBACK"
        /\ y0 \in DOMAIN Flight => y0 = 0 /\ ~ InHand'
  BY <1>1, Zenon
<1>3. Asking # {} /\ y0 \in DOMAIN Flight /\ Flight[y0].type = "SUBACK" => Doomed'
  BY <1>2, FlightFacts
<1>4. HandMessages'
  <2>1. ASSUME NEW x \in DOMAIN Flight', IsMessage(Flight', x)
        PROVE  \/ Flight'[x].topic \in Owned'
               \/ Flight'[x].topic \in Asking' /\ (Doomed' \/ Heard(Flight', x))
    <3>1. /\ f[x] \in DOMAIN Flight /\ Flight'[x] = Flight[f[x]] /\ IsMessage(Flight, f[x])
          /\ x # x0 /\ x >= 0
      BY <1>2, <2>1, KindKept DEF IsMessage
    <3>2. Served(Flight'[x].topic, Heard(Flight, f[x]))
      BY <3>1 DEF Hand, HandMessages
    <3>3. Heard(Flight, f[x]) =>
            Heard(Flight', x) \/ (y0 \in DOMAIN Flight /\ Flight[y0].type = "SUBACK")
      BY <1>2, <3>1, HeardKept
    <3>4. QED
      BY <1>3, <3>2, <3>3 DEF Served
  <2>2. QED
    BY <2>1 DEF HandMessages, Served
<1>5. HandGranted'
  <2>1. Coming(Flight) =>
          Coming(Flight') \/ (y0 \in DOMAIN Flight /\ Flight[y0].type = "SUBACK")
    BY <1>2, ComingKept DEF Coming
  <2>2. ASSUME NEW tp \in granted'
        PROVE  tp \in Owned' \/ (tp \in Asking' /\ (Doomed' \/ Coming(Flight')))
    BY <1>3, <2>1 DEF Hand, HandGranted, Served
  <2>3. QED
    BY <2>2 DEF HandGranted, Served
<1>6. HandSubscribes'
  <2>1. ASSUME NEW x \in DOMAIN Flight', IsSubscribe(Flight', x)
        PROVE  Flight'[x].topic \in Owned' \cup Asking'
    <3>1. f[x] \in DOMAIN Flight /\ Flight'[x] = Flight[f[x]] /\ IsSubscribe(Flight, f[x])
      BY <1>2, <2>1, KindKept
    <3>2. QED
      BY <3>1 DEF Hand, HandSubscribes
  <2>2. QED
    BY <2>1 DEF HandSubscribes
<1>7. ASSUME "UNSUBACK" \notin gaveUp', NEW z \in DOMAIN Flight',
             Line(z, Flight'[z]) = "UNSUBACK"
      PROVE  Leaves(Flight', z, granted', call'.topic)
  <2>1. z # x0
    BY <1>2, <1>7
  <2>2. f[z] \in DOMAIN Flight /\ Line(f[z], Flight[f[z]]) = "UNSUBACK"
    BY <1>2, <1>7, <2>1, FlowLine
  <2>3. call' = call
    <3>1. ~ NoneOf(Flight, "UNSUBACK")
      BY <2>2 DEF NoneOf
    <3>2. pc # "idle"
      BY <1>7, <3>1 DEF One, Waits, Acked
    <3>3. QED
      BY <3>2
  <2>4. Leaves(Flight, f[z], granted, call.topic)
    BY <1>7, <2>2 DEF Hand, HandLeaves
  <2>5. f[z] >= 0 => call.topic \notin granted'
    BY <2>4 DEF Leaves
  <2>6. Leaves(Flight', z, granted', call.topic)
    BY <1>2, <2>1, <2>4, <2>5, LeavesKept
  <2>7. QED
    BY <2>3, <2>6
<1>8. HandLeaves'
  BY <1>7 DEF HandLeaves
<1>9. QED
  BY <1>4, <1>5, <1>6, <1>8 DEF Hand

\* The end of a call: the topics that matter have their handlers, or are forgotten.
LEMMA EndHand ==
  ASSUME TypeInv, Hand, One', Moved(Flight, Flight', InHand'), granted' = granted, pc' = "idle",
         \A tp \in Owned \cup Asking :
           \/ tp \in Owned'
           \/ /\ tp \notin granted
              /\ \A x \in DOMAIN Flight :
                   IsMessage(Flight, x) \/ IsSubscribe(Flight, x) => Flight[x].topic # tp
  PROVE  Hand'
<1>1. PICK f : \E x0, y0 \in Int :
        /\ Flows(Flight, Flight', f, x0, y0)
        /\ x0 \in DOMAIN Flight' => ~ IsMessage(Flight', x0) /\ ~ IsSubscribe(Flight', x0)
  BY Zenon DEF Moved
<1>2. PICK x0 \in Int, y0 \in Int :
        /\ Flows(Flight, Flight', f, x0, y0)
        /\ x0 \in DOMAIN Flight' => ~ IsMessage(Flight', x0) /\ ~ IsSubscribe(Flight', x0)
  BY <1>1, Zenon
<1>3. ASSUME NEW x \in DOMAIN Flight', IsMessage(Flight', x) \/ IsSubscribe(Flight', x)
      PROVE  Flight'[x].topic \in Owned'
  <2>1. /\ f[x] \in DOMAIN Flight /\ Flight'[x] = Flight[f[x]]
        /\ IsMessage(Flight, f[x]) \/ IsSubscribe(Flight, f[x])
    BY <1>2, <1>3, KindKept
  <2>2. Flight[f[x]].topic \in Owned \cup Asking
    BY <2>1 DEF Hand, HandMessages, HandSubscribes, Served
  <2>3. QED
    BY <2>1, <2>2
<1>4. HandMessages'
  BY <1>3 DEF HandMessages, Served
<1>5. HandGranted'
  <2>1. ASSUME NEW tp \in granted' PROVE tp \in Owned'
    BY <2>1 DEF Hand, HandGranted, Served
  <2>2. QED
    BY <2>1 DEF HandGranted, Served
<1>6. HandSubscribes'
  BY <1>3 DEF HandSubscribes
<1>7. HandLeaves'
  <2>1. "UNSUBACK" \notin gaveUp' => NoneOf(Flight', "UNSUBACK")
    BY DEF One, Waits, Acked
  <2>2. QED
    BY <2>1 DEF HandLeaves, NoneOf
<1>8. QED
  BY <1>4, <1>5, <1>6, <1>7 DEF Hand

\* The steps within a call, and the beginning of a yield.
LEMMA CalmStep ==
  ASSUME IInv, Sound, One, Hand, ~ torn', Onward, ~ BrokerTake, ~ LoopEnd, ~ CallEnd
  PROVE  Hand'
<1> DEFINE Same == UNCHANGED <<handlers, missed, gaveUp, granted>>
           Lost == (Asking # {} /\ Doomed => Doomed')
           Held1 == (Asking # {} /\ InHand /\ got.type = "SUBACK" => InHand' \/ Doomed')
<1>1. TypeInv /\ Moved(Flight, Flight', InHand') /\ link = "up"
  BY MovedFlow DEF IInv, Sound
<1>2. ASSUME Same PROVE Owned' = Owned
  BY <1>2 DEF Owned
<1>3. ASSUME call' = call, pc' = "idle" => pc = "idle" \/ call.op # "subscribe"
      PROVE  Asking \subseteq Asking'
  BY <1>3 DEF Asking
<1>4. CASE Arrive \/ PingDue \/ Expire
  <2>1. Same /\ UNCHANGED <<pc, call, got>> /\ (late => late')
    BY <1>4 DEF Arrive, PingDue, Expire, client, broker, history, reading
  <2>2. Lost /\ (InHand => InHand')
    BY <2>1 DEF Doomed, InHand
  <2>3. QED
    BY <1>1, <1>2, <1>3, <2>1, <2>2, CalmHand
<1>5. CASE MQTTYield
  <2>1. Same /\ pc = "idle"
    BY <1>5 DEF MQTTYield, Begin, client, broker
  <2>2. Asking = {}
    BY <2>1 DEF Asking
  <2>3. QED
    BY <1>1, <1>2, <2>1, <2>2, CalmHand
<1>6. CASE LoopOn \/ DiscardEnd \/ DiscardLate \/ HandleOther
  <2>1. /\ Same /\ UNCHANGED call /\ pc' # "idle"
        /\ pc \in {"discard", "handle"} \/ (pc = "loop" /\ ~ late)
        /\ pc = "handle" => got' = got /\ pc' = "keepalive"
    BY <1>6 DEF LoopOn, DiscardEnd, DiscardLate, HandleOther, Unread, client, broker, history, reading
  <2>2. ~ Doomed /\ Held1
    BY <2>1 DEF Doomed, InHand
  <2>3. QED
    BY <1>1, <1>2, <1>3, <2>1, <2>2, CalmHand
<1>7. CASE Reads
  <2>1. /\ Same /\ UNCHANGED call /\ pc' # "idle"
        /\ pc \in {"discard", "type", "length", "body"}
    BY <1>7 DEF Reads, DiscardRest, DiscardBroken, ReadType, ReadLength, ReadBody, Unread,
                client, broker, history
  <2>2. ~ Doomed
    BY <2>1 DEF Doomed
  <2>3. CASE pc \in {"discard", "type"}
    <3>1. ~ InHand
      BY <2>3 DEF InHand
    <3>2. QED
      BY <1>1, <1>2, <1>3, <2>1, <2>2, <3>1, CalmHand
  <2>4. CASE pc = "length"
    <3>1. got' = got /\ pc' \in {"handle", "body"}
      BY <1>7, <2>4 DEF Reads, DiscardRest, DiscardBroken, ReadType, ReadLength, ReadBody
    <3>2. Held1
      BY <3>1 DEF InHand
    <3>3. QED
      BY <1>1, <1>2, <1>3, <2>1, <2>2, <3>2, CalmHand
  <2>5. CASE pc = "body"
    <3>1. \/ got' = got /\ pc' = "handle"
          \/ late' /\ got' = NoPacket /\ pc' = "keepalive"
      BY <1>1, <1>7, <2>5 DEF Reads, DiscardRest, DiscardBroken, ReadType, ReadLength, ReadBody,
                              Unread, Short, reading
    <3>2. Held1
      BY <3>1 DEF InHand, Doomed
    <3>3. QED
      BY <1>1, <1>2, <1>3, <2>1, <2>2, <3>2, CalmHand
  <2>6. QED
    BY <2>1, <2>3, <2>4, <2>5
<1>8. CASE HandlePublish \/ HandlePubrec
  <2>1. /\ Same /\ UNCHANGED call /\ pc = "handle" /\ got.type \in {"PUBLISH", "PUBREC", "PUBREL"}
    BY <1>1, <1>8, AckFacts DEF client, broker, history
  <2>2. pc' = "idle" => call.op = "yield"
    BY <1>8 DEF HandlePublish, HandlePubrec, Answer, GoOn, EndCycle
  <2>3. ~ Doomed /\ Held1
    BY <2>1 DEF Doomed
  <2>4. QED
    BY <1>1, <1>2, <1>3, <2>1, <2>2, <2>3, CalmHand
<1>9. CASE Keepalive
  <2>1. /\ Same /\ UNCHANGED <<call, late>> /\ pc = "keepalive" /\ pc' # "idle"
        /\ \/ pc' = "answer" /\ got' = got /\ got.type = Want[call.op]
           \/ pc' = "loop" /\ got' = NoPacket
    BY <1>1, <1>9, KeepaliveFacts DEF client, broker, history, reading
  <2>2. got.type = Want[call.op] => pc' = "answer"
    BY <1>9 DEF Keepalive, GoOn, EndCycle
  <2>3. Asking # {} => call.op = "subscribe"
    BY DEF Asking
  <2>4. Asking # {} => Want[call.op] = "SUBACK"
    BY <2>3 DEF Want
  <2>5. NoPacket.type = "none"
    BY DEF NoPacket, Plain, Packet
  <2>6. Lost
    BY <2>1, <2>4, <2>5 DEF Doomed
  <2>7. Held1
    BY <2>1, <2>2, <2>4 DEF InHand
  <2>8. QED
    BY <1>1, <1>2, <1>3, <2>1, <2>6, <2>7, CalmHand
<1>10. QED
  BY <1>4, <1>5, <1>6, <1>7, <1>8, <1>9 DEF Onward, Apart

\* What Put does to a slot: the old topic makes way for the new one, no other.
LEMMA PutKeeps ==
  ASSUME ClientOK, NEW old \in Tops, NEW new \in Tops, Put(old, new)
  PROVE  /\ \A k \in Slots : handlers[k] # old => handlers'[k] = handlers[k]
         /\ handlers' # handlers => \E k \in Slots : handlers'[k] = new
<1>1. CASE \E k \in Slots : handlers[k] = old
  <2> DEFINE T == {k \in Slots : handlers[k] = old}
             c == CHOOSE k \in Slots : First(old, k)
  <2>1. T \in SUBSET Nat /\ T # {}
    BY <1>1 DEF Slots
  <2> HIDE DEF T
  <2>2. PICK m \in T : \A i \in T : m <= i
    BY <2>1, LeastNatural
  <2>3. m \in Slots /\ handlers[m] = old /\ m \in Nat
    BY <2>2 DEF T, Slots
  <2>4. ASSUME NEW i \in 1 .. m - 1 PROVE handlers[i] # old
    <3>1. i \in Slots /\ i < m /\ i \in Nat
      BY <2>3, MqttClientAssumption DEF Slots, MqttClientAssumption
    <3>2. i \notin T
      BY <2>2, <2>3, <3>1
    <3>3. QED
      BY <3>1, <3>2 DEF T
  <2>5. First(old, m)
    BY <2>3, <2>4 DEF First
  <2>6. c \in Slots /\ handlers[c] = old
    <3>1. First(old, c) /\ c \in Slots
      BY <2>3, <2>5, Zenon
    <3>2. QED
      BY <3>1 DEF First
  <2>7. handlers' = [handlers EXCEPT ![c] = new]
    BY <1>1 DEF Put
  <2> HIDE DEF c
  <2>8. DOMAIN handlers = Slots
    BY DEF ClientOK
  <2>9. handlers'[c] = new /\ \A k \in Slots : k # c => handlers'[k] = handlers[k]
    BY <2>6, <2>7, <2>8
  <2>10. QED
    BY <2>6, <2>9
<1>2. CASE ~ \E k \in Slots : handlers[k] = old
  BY <1>2 DEF Put
<1>3. QED
  BY <1>1, <1>2

\* The end of a call: the topic of a subscribe has its handler, or is missed;
\* that of an unsubscribe, nothing under way is about.
LEMMA EndStep ==
  ASSUME IInv, Bound, Sound, Hand, One', ~ torn', LoopEnd \/ CallEnd
  PROVE  Hand'
<1>1. TypeInv /\ Moved(Flight, Flight', InHand') /\ ClientOK
  <2>1. Onward /\ ~ BrokerTake
    BY DEF Onward, Apart, LoopEnd, CallEnd, BrokerTake, GiveUp, EndCycle
  <2>2. QED
    BY <2>1, MovedFlow DEF IInv, TypeInv
<1>2. CASE LoopEnd
  <2>1. /\ UNCHANGED <<handlers, granted>> /\ pc' = "idle"
        /\ gaveUp \subseteq gaveUp'
        /\ missed' = IF call.op = "subscribe" THEN missed \cup {call.topic} ELSE missed
    BY <1>2 DEF LoopEnd, GiveUp, client, broker
  <2>2. Owned \cup Asking \subseteq Owned'
    BY <2>1 DEF Owned, Asking
  <2>3. QED
    BY <1>1, <2>1, <2>2, EndHand
<1>3. CASE CallEnd
  <2>1. /\ UNCHANGED <<gaveUp, granted>> /\ pc = "answer" /\ pc' = "idle"
    BY <1>3 DEF CallEnd, EndCycle, broker
  <2>2. call.topic \in Tops /\ NoTopic \in Tops /\ (\A tp \in Topics : tp # NoTopic)
        /\ (call.op = "subscribe" => call.topic \in Topics)
    BY <1>1, MqttClientAssumption DEF TypeInv, CallOK, Calls, Tops, MqttClientAssumption
  <2>3. CASE call.op \in {"connect", "publish1", "publish2"}
    <3>1. UNCHANGED <<handlers, missed>> /\ Asking = {}
      BY <1>3, <2>3 DEF CallEnd, Asking
    <3>2. Owned \cup Asking \subseteq Owned'
      BY <2>1, <3>1 DEF Owned
    <3>3. QED
      BY <1>1, <2>1, <3>2, EndHand
  <2>4. CASE call.op = "subscribe"
    <3>1. /\ UNCHANGED handlers \/ Put(NoTopic, call.topic)
          /\ missed' = IF handlers' = handlers THEN missed \cup {call.topic}
                                               ELSE missed \ {call.topic}
      BY <1>3, <2>4 DEF CallEnd
    <3>2. /\ \A k \in Slots : handlers[k] # NoTopic => handlers'[k] = handlers[k]
          /\ handlers' # handlers => \E k \in Slots : handlers'[k] = call.topic
      BY <1>1, <2>2, <3>1, PutKeeps
    <3>3. call.topic \in Owned'
      BY <2>2, <2>4, <3>1, <3>2 DEF Owned
    <3>4. ASSUME NEW tp \in Owned, tp # call.topic PROVE tp \in Owned'
      <4>1. tp \in missed => tp \in missed'
        BY <3>1, <3>4
      <4>2. (\E k \in Slots : handlers[k] = tp) => \E k \in Slots : handlers'[k] = tp
        BY <2>2, <3>2 DEF Owned
      <4>3. QED
        BY <2>1, <4>1, <4>2 DEF Owned
    <3>5. Owned \cup Asking \subseteq Owned'
      BY <3>3, <3>4 DEF Asking
    <3>6. QED
      BY <1>1, <2>1, <3>5, EndHand
  <2>5. CASE call.op = "unsubscribe"
    <3>1. Put(call.topic, NoTopic) /\ UNCHANGED missed /\ Asking = {}
      BY <1>3, <2>5 DEF CallEnd, Asking
    <3>2. \A k \in Slots : handlers[k] # call.topic => handlers'[k] = handlers[k]
      BY <1>1, <2>2, <3>1, PutKeeps
    <3>3. ASSUME NEW tp \in Owned, tp # call.topic PROVE tp \in Owned'
      <4>1. (\E k \in Slots : handlers[k] = tp) => \E k \in Slots : handlers'[k] = tp
        BY <3>2, <3>3
      <4>2. QED
        BY <2>1, <3>1, <4>1 DEF Owned
    <3>4. CASE "UNSUBACK" \in gaveUp
      <4>1. Owned \cup Asking \subseteq Owned'
        BY <2>1, <3>1, <3>4 DEF Owned
      <4>2. QED
        BY <1>1, <2>1, <4>1, EndHand
    <3>5. CASE "UNSUBACK" \notin gaveUp
      <4>1. got.type = "UNSUBACK"
        BY <2>1, <2>5 DEF Bound, Want
      <4>2. InHand
        BY <2>1, <4>1 DEF InHand, NoPacket, Plain, Packet
      <4>3. 0 \in DOMAIN Flight /\ Flight[0] = got
        BY <1>1, <4>2, FlightFacts
      <4>4. Line(0, Flight[0]) = "UNSUBACK"
        BY <4>1, <4>3 DEF Line, GotLine
      <4>5. Leaves(Flight, 0, granted, call.topic)
        BY <3>5, <4>3, <4>4 DEF Hand, HandLeaves
      <4>6. call.topic \notin granted
        BY <4>5 DEF Leaves
      <4>7. ASSUME NEW x \in DOMAIN Flight, IsMessage(Flight, x) \/ IsSubscribe(Flight, x)
            PROVE  Flight[x].topic # call.topic
        <5>1. CASE IsSubscribe(Flight, x)
          BY <4>5, <5>1 DEF Leaves
        <5>2. CASE IsMessage(Flight, x)
          <6>1. x # 0 /\ x \in Int /\ x >= 0
            BY <1>1, <4>1, <4>3, <5>2, FlightFacts DEF IsMessage
          <6>2. 0 < x
            BY <6>1
          <6>3. QED
            BY <4>5, <5>2, <6>2 DEF Leaves
        <5>3. QED
          BY <4>7, <5>1, <5>2
      <4>8. QED
        BY <1>1, <2>1, <3>1, <3>3, <4>6, <4>7, EndHand
    <3>6. QED
      BY <3>4, <3>5
  <2>6. QED
    BY <1>3, <2>3, <2>4, <2>5 DEF CallEnd
<1>4. QED
  BY <1>2, <1>3

LEMMA ConnectHand ==
  ASSUME TypeInv, MQTTConnect
  PROVE  Hand'
<1>1. granted' = {}
  BY DEF MQTTConnect, Anew
<1>2. ASSUME NEW x \in DOMAIN Flight'
      PROVE  ~ IsMessage(Flight', x) /\ ~ IsSubscribe(Flight', x) /\ Line(x, Flight'[x]) # "UNSUBACK"
  BY ConnectFlight DEF IsMessage, IsSubscribe, Plain, Packet
<1>3. QED
  BY <1>1, <1>2 DEF Hand, HandMessages, HandGranted, HandSubscribes, HandLeaves

LEMMA HandStep == IInv /\ LineInv /\ LineInv' /\ HandInv /\ [Next]_vars => HandInv'
<1> SUFFICES ASSUME IInv, LineInv, LineInv', HandInv, [Next]_vars, Sound' PROVE Hand'
  BY DEF HandInv
<1>1. TypeInv /\ Bound /\ (Sound => One /\ Hand) /\ One'
  BY DEF IInv, LineInv, HandInv
<1>2. CASE Next /\ ~ MQTTConnect
  <2>1. Sound /\ One /\ Hand /\ ~ torn' /\ ~ Break /\ ~ Close
    BY <1>1, <1>2, SoundBack
  <2>2. CASE BrokerTake
    BY <1>1, <2>1, <2>2, TakeHand
  <2>3. CASE BrokerPublish
    BY <1>1, <2>1, <2>3, PublishHand
  <2>4. CASE Requests
    BY <1>1, <2>1, <2>4, RequestHand
  <2>5. CASE LoopEnd \/ CallEnd
    BY <1>1, <2>1, <2>5, EndStep
  <2>6. CASE Onward /\ ~ BrokerTake /\ ~ LoopEnd /\ ~ CallEnd
    BY <1>1, <2>1, <2>6, CalmStep
  <2>7. QED
    BY <1>2, <2>1, <2>2, <2>3, <2>4, <2>5, <2>6, NextCases DEF Onward
<1>3. CASE MQTTConnect
  BY <1>1, <1>3, ConnectHand
<1>4. CASE UNCHANGED vars
  <2>1. UNCHANGED <<link, up, wire, granted, handlers, pc, call, late, got, torn, carried, gaveUp,
                    missed>>
    BY <1>4 DEF vars, net, broker, client, reading, history
  <2>2. Sound /\ UNCHANGED InHand
    BY <2>1 DEF Sound, InHand
  <2>3. Flight' = Flight /\ Owned' = Owned /\ Asking' = Asking /\ (Doomed' <=> Doomed)
    BY <2>1, <2>2 DEF Flight, Owned, Asking, Doomed
  <2>4. HandMessages' /\ HandGranted'
    BY <1>1, <2>1, <2>2, <2>3 DEF Hand, HandMessages, HandGranted, Served
  <2>5. HandSubscribes' /\ HandLeaves'
    BY <1>1, <2>1, <2>2, <2>3 DEF Hand, HandSubscribes, HandLeaves
  <2>6. QED
    BY <2>4, <2>5 DEF Hand
<1>5. QED
  BY <1>2, <1>3, <1>4

LEMMA HandInit == Init => HandInv
<1>1. Init => link = "closed"
  BY DEF Init
<1>2. QED
  BY <1>1 DEF HandInv, Sound

\* A message that the client reads finds the handler its topic was subscribed
\* with: a SUBACK goes before the messages it makes room for, and the call puts
\* the handler in place before it returns; an unsubscribe takes it out once the
\* broker has sent its last message of the topic.
THEOREM HandledCorrect == Spec => []MessageHandled
<1>1. IInv /\ LineInv /\ HandInv => MessageHandled
  <2> SUFFICES ASSUME IInv, HandInv, Sound, pc = "handle", got.type = "PUBLISH"
               PROVE  \/ \E k \in Slots : handlers[k] = got.topic
                      \/ got.topic \in missed \/ "UNSUBACK" \in gaveUp
    BY DEF MessageHandled
  <2>1. TypeInv /\ HandMessages
    BY DEF IInv, HandInv, Hand
  <2>2. InHand
    BY DEF InHand, NoPacket, Plain, Packet
  <2>3. 0 \in DOMAIN Flight /\ Flight[0] = got
    BY <2>1, <2>2, FlightFacts
  <2>4. Served(got.topic, Heard(Flight, 0))
    BY <2>1, <2>3 DEF HandMessages, IsMessage
  <2>5. ~ Doomed
    BY DEF Doomed
  <2>6. ~ Heard(Flight, 0)
    BY <2>1, FlightFacts DEF Heard
  <2>7. QED
    BY <2>4, <2>5, <2>6 DEF Served, Owned
<1>2. QED
  BY <1>1, LineInvSpec, HandInit, HandStep, PTL DEF Spec

=============================================================================
