-------------------------- MODULE NetCtrlProofs ----------------------------
(***************************************************************************)
(* Proofs about NetCtrl, for any length of the looper's queue and any      *)
(* addresses: its type invariant, that the interface follows the wlan      *)
(* (FollowsWlan), and that the events tell the truth of it (NotedRight).   *)
(***************************************************************************)
EXTENDS NetCtrl, SequenceTheorems, TLAPS

In(s) == {s[i] : i \in 1..Len(s)}

Ops == (DhcpStates \ {"NULL"})
         \cup {"set_up", "set_down", "link_up", "link_down", "take_addr",
               "no_addr", "conf_addr", "UP", "DOWN", "answer"}

Notes  == {"UP", "DOWN"}
Before == {"OFF", "link_up"} \cup Notes

First  == {"OFF", "take_addr"} \cup Notes
Last   == {"answer", "BOUND"}

\* Some steps of a program are its first or its last, and few come before the
\* one that takes the interface down.
Neat(s) ==
  /\ \A i \in 1..Len(s) : /\ s[i] \in Last => i = Len(s)
                          /\ s[i] \in First => i = 1
  /\ \A i, j \in 1..Len(s) : s[i] = "set_down" /\ j < i => s[j] \in Before

\* States in which there is, or was, a lease.
Held == {"REBINDING", "RENEWING", "BOUND", "REBOOTING"}

\* The calls that tear the interface down, and what is left of them.
TearDown  == <<"set_down", "set_addr_none", "dhcp_stop">>
TearDown2 == <<"set_addr_none", "dhcp_stop">>
TearDown1 == <<"dhcp_stop">>

\* The calls that give the interface its configured address.
BringUp  == <<"set_addr_conf", "set_up">>
BringUp1 == <<"set_up">>

LinkUp   == <<"set_link_up">>
LinkDown == <<"set_link_down">>
StartUp  == <<"dhcp_start">>

Waits(c) == pc = "wait" /\ calls = c
Serving  == "answer" \in In(prog)
Serves(c) == Waits(c) /\ Serving
Left(op) == op \in In(prog)

ProgInv == prog \in Seq(Ops) /\ Neat(prog)

CallsInv ==
  /\ calls \in {<<>>, LinkUp, LinkDown, StartUp, TearDown, TearDown2,
                TearDown1, BringUp, BringUp1}
  /\ calls = LinkUp => then = "config"
  /\ calls = LinkDown => then = "stop"
  /\ calls \notin {<<>>, LinkUp, LinkDown} => then = "recv"
  /\ pc # "wait" => calls = <<>>
  /\ Serving => calls # <<>>
  /\ Left("link_up") => Serves(LinkUp)
  /\ Left("link_down") => Serves(LinkDown)
  /\ Left("conf_addr") => Serves(BringUp)
  /\ use_dhcp => calls \notin {BringUp, BringUp1} /\ pc # "send"
  /\ ~ use_dhcp => /\ calls \in {<<>>, LinkUp, LinkDown, BringUp, BringUp1}
                   /\ pc # "start"

\* What the link is to be when the looper has what it waits for.
Target == IF Waits(LinkUp) THEN TRUE ELSE IF Waits(LinkDown) THEN FALSE ELSE link

\* What a wlan event says of the link, or else t.
Says(m, t) == IF m = "CONNECTED" THEN TRUE ELSE IF m = "DISCONNECTED" THEN FALSE ELSE t
Word(t)    == IF t THEN "CONNECTED" ELSE "DISCONNECTED"
Words      == {"CONNECTED", "DISCONNECTED"}

\* x is the last message of the queue q that is in S, or d without one.
LastOf(q, S, x, d) ==
  /\ \A i \in 1..Len(q) :
       q[i] \in S /\ (\A j \in 1..Len(q) : j > i => q[j] \notin S) => x = q[i]
  /\ (\A i \in 1..Len(q) : q[i] \notin S) => x = d

SaidLast(q, a, t) == LastOf(q, Words, Word(a), Word(t))

LinkInv ==
  /\ SaidLast(queue, assoc, Target)
  /\ Serves(LinkUp) /\ ~ Left("link_up") => link
  /\ Serves(LinkDown) /\ ~ Left("link_down") => ~ link
  /\ pc = "stop" \/ (Waits(<<>>) /\ then = "stop") => ~ link
  /\ Waits(TearDown) \/ Waits(TearDown2) \/ Waits(TearDown1) => ~ link

\* DHCP runs, or the TCP/IP thread is about to start it.
Alive == dhcp \notin Idle \/ Left("SELECTING")

DhcpOK ==
  /\ up => Alive
  /\ Left("set_up") => ~ Serving /\ dhcp \notin Idle /\ ~ Left("OFF")
  /\ Left("OFF") => Left("SELECTING") \/ Serves(TearDown1)
  /\ Serves(TearDown) /\ ~ Left("set_down") => ~ up
  /\ Waits(TearDown2) \/ Waits(TearDown1) => ~ up /\ ~ Left("set_up")
  /\ Serves(StartUp) => Alive
  /\ Target => \/ Alive
               \/ pc \in {"config", "start"}
               \/ pc = "wait" /\ then = "config"
               \/ Waits(StartUp)
DhcpInv == use_dhcp /\ ~ raced => DhcpOK

ConfOK ==
  /\ dhcp = "NULL"
  /\ In(prog) \subseteq {"link_up", "link_down", "conf_addr", "set_up", "UP", "DOWN", "answer"}
  /\ Left("set_up") => Serves(BringUp1)
  /\ up => addr # NoAddr
  /\ Waits(BringUp1) => addr # NoAddr
  /\ Serves(BringUp) /\ ~ Left("conf_addr") => addr # NoAddr
  /\ Serves(BringUp1) /\ ~ Left("set_up") => up
  /\ Target => \/ up
               \/ pc = "config"
               \/ pc = "wait" /\ then = "config"
               \/ Waits(BringUp) \/ Waits(BringUp1)
ConfInv == ~ use_dhcp => ConfOK

IInv == ProgInv /\ CallsInv /\ LinkInv /\ DhcpInv /\ ConfInv

\* Steps that are not taken with an interface that is up.
Downs == {"OFF", "SELECTING", "REQUESTING", "CHECKING", "BACKING_OFF", "REBOOTING", "no_addr"}

\* With DHCP an interface that is up has the leased address, or is about to be
\* taken down.
LeaseOK ==
  /\ up => \/ addr = offered /\ (dhcp \in {"BOUND", "RENEWING", "REBINDING"} \/ Left("BOUND"))
           \/ Left("set_down")
  /\ up => \A o \in Downs : Left(o) => Left("set_down")
  /\ Left("set_up") => /\ Left("BOUND")
                       /\ \A o \in Downs \cup {"set_down"} : ~ Left(o)
                       /\ ~ Left("take_addr") => addr = offered
  /\ Left("take_addr") => Left("set_up")
  /\ Waits(StartUp) => ~ Left("set_up") /\ (up => Left("set_down"))

LeaseInv == use_dhcp /\ ~ raced => LeaseOK

\* With a configured address an interface that is up stays up.
StaysInv == ~ use_dhcp => (Waits(BringUp) => ~ up) /\ (pc = "send" => Valid)

\* What the last message is to say of the interface, and when there is none left.
Truth == IF Valid THEN "UP" ELSE "DOWN"
Quiet == ~ Left("UP") /\ ~ Left("DOWN")

NoteInv ==
  ~ raced => /\ \A n \in Notes : Left(n) => n = Truth
             /\ Quiet => LastOf(queue, Notes, Truth, note)

ToldInv ==
  ~ raced /\ Valid /\ Quiet /\ (\A i \in 1..Len(queue) : queue[i] \notin Notes)
    => IF pc = "tell" THEN heard = addr ELSE told = addr

EventInv == LeaseInv /\ StaysInv /\ NoteInv /\ ToldInv

-----------------------------------------------------------------------------
(* Programs.                                                               *)

\* Taking the first step of a program.
LEMMA TailFacts ==
  ASSUME NEW s \in Seq(Ops), s # <<>>, Neat(s)
  PROVE  /\ Tail(s) \in Seq(Ops) /\ Neat(Tail(s)) /\ Head(s) \in Ops
         /\ In(s) = {Head(s)} \cup In(Tail(s))
         /\ \A o \in First : o \notin In(Tail(s))
         /\ "set_down" \in In(Tail(s)) => Head(s) \in Before
         /\ Head(s) \in Last => Tail(s) = <<>>
<1> DEFINE t == Tail(s)  h == Head(s)
<1>1. /\ Len(s) \in Nat \ {0} /\ h = s[1]
      /\ t \in Seq(Ops) /\ Len(t) = Len(s) - 1
      /\ \A i \in 1..Len(s) : s[i] \in Ops
      /\ \A i \in 1..Len(t) : t[i] = s[i + 1]
  OBVIOUS
<1>e. Len(t) = 0 => t = <<>>
  BY <1>1, EmptySeq
<1> HIDE DEF t, h
<1>2. \A i \in 1..Len(t) : i + 1 \in 1..Len(s) /\ i + 1 # 1 /\ t[i] = s[i + 1]
  BY <1>1
<1>3. \A i \in 1..Len(s) : i = 1 \/ (i - 1 \in 1..Len(t) /\ s[i] = t[i - 1])
  BY <1>1
<1>4. Neat(t)
  <2>1. \A i \in 1..Len(t) : t[i] \notin First
    BY <1>2 DEF Neat
  <2>2. \A i \in 1..Len(t) : t[i] \in Last => i = Len(t)
    <3>1. \A i \in 1..Len(t) : t[i] \in Last => i + 1 = Len(s)
      BY <1>2 DEF Neat
    <3> QED  BY <1>1, <3>1
  <2>3. ASSUME NEW i \in 1..Len(t), NEW j \in 1..Len(t), t[i] = "set_down", j < i
        PROVE  t[j] \in Before
    <3>1. i + 1 \in 1..Len(s) /\ j + 1 \in 1..Len(s) /\ j + 1 < i + 1  BY <1>2, <2>3
    <3>2. s[i + 1] = t[i] /\ s[j + 1] = t[j]  BY <1>2
    <3> QED  BY <2>3, <3>1, <3>2 DEF Neat
  <2> QED  BY <2>1, <2>2, <2>3 DEF Neat
<1>5. In(s) = {h} \cup In(t)
  <2>1. 1 \in 1..Len(s)  BY <1>1
  <2>2. ASSUME NEW o \in In(s)  PROVE o \in {h} \cup In(t)
    <3>1. PICK i \in 1..Len(s) : o = s[i]  BY DEF In
    <3> QED  BY <1>1, <1>3, <3>1 DEF In
  <2>3. {h} \cup In(t) \subseteq In(s)  BY <1>1, <1>2, <2>1 DEF In
  <2> QED  BY <2>2, <2>3
<1>6. \A o \in First : o \notin In(t)
  BY <1>2 DEF In, Neat
<1>9. "set_down" \in In(t) => h \in Before
  <2>1. ASSUME NEW i \in 1..Len(t), t[i] = "set_down"  PROVE h \in Before
    <3>1. i + 1 \in 1..Len(s) /\ 1 \in 1..Len(s) /\ 1 < i + 1 /\ s[i + 1] = "set_down"
      BY <1>1, <1>2, <2>1
    <3> QED  BY <1>1, <3>1 DEF Neat
  <2> QED  BY <2>1 DEF In
<1>7. h \in Last => t = <<>>
  <2>1. 1 \in 1..Len(s)  BY <1>1
  <2>2. h \in Last => 1 = Len(s)  BY <1>1, <2>1 DEF Neat
  <2> QED  BY <1>1, <1>e, <2>2
<1>8. h \in Ops  BY <1>1
<1> QED  BY <1>1, <1>4, <1>5, <1>6, <1>7, <1>8, <1>9 DEF t, h

\* Putting a message to be sent before what is left.
LEMMA PutFacts ==
  ASSUME NEW s \in Seq(Ops), Neat(s), NEW n \in Notes,
         \A o \in First : o \notin In(s)
  PROVE  /\ <<n>> \o s \in Seq(Ops) /\ Neat(<<n>> \o s)
         /\ In(<<n>> \o s) = {n} \cup In(s)
<1> DEFINE t == <<n>> \o s
<1>1. n \in Ops  BY DEF Ops, Notes
<1>2. /\ t \in Seq(Ops) /\ Len(t) = Len(s) + 1 /\ Len(s) \in Nat /\ t[1] = n
      /\ \A i \in 1..Len(s) : t[i + 1] = s[i]
      /\ \A i \in 2..Len(t) : i - 1 \in 1..Len(s) /\ t[i] = s[i - 1]
  BY <1>1
<1>3. Neat(t)
  <2>1. Len(t) \in Nat /\ \A i \in 1..Len(t) : i = 1 \/ (i - 1 \in 1..Len(s) /\ t[i] = s[i - 1])
    BY <1>2
  <2> HIDE DEF t
  <2>2. \A i \in 1..Len(s) : s[i] \notin First
    BY DEF In
  <2>3. ASSUME NEW i \in 1..Len(t), t[i] \in First  PROVE i = 1
    BY <2>1, <2>2, <2>3
  <2>4. ASSUME NEW i \in 1..Len(t), t[i] \in Last  PROVE i = Len(t)
    <3>1. n \notin Last  BY DEF Notes, Last
    <3>2. i - 1 \in 1..Len(s) /\ s[i - 1] \in Last  BY <1>2, <2>1, <2>4, <3>1
    <3>3. i - 1 = Len(s)  BY <3>2 DEF Neat
    <3> QED  BY <1>2, <3>3
  <2>5. ASSUME NEW i \in 1..Len(t), NEW j \in 1..Len(t), t[i] = "set_down", j < i
        PROVE  t[j] \in Before
    <3>1. CASE j = 1  BY <1>2, <3>1 DEF Before
    <3>2. CASE j # 1
      <4>1. /\ i - 1 \in 1..Len(s) /\ t[i] = s[i - 1] /\ j - 1 \in 1..Len(s) /\ t[j] = s[j - 1]
            /\ j - 1 < i - 1
        BY <1>2, <2>1, <2>5, <3>2
      <4> QED  BY <2>5, <4>1 DEF Neat
    <3> QED  BY <3>1, <3>2
  <2> QED  BY <2>3, <2>4, <2>5 DEF Neat
<1>4. In(t) = {n} \cup In(s)
  <2>1. \A i \in 1..Len(t) : i = 1 \/ (i - 1 \in 1..Len(s) /\ t[i] = s[i - 1])
    BY <1>2
  <2>2. \A i \in 1..Len(s) : i + 1 \in 1..Len(t) /\ t[i + 1] = s[i]
    BY <1>2
  <2>3. 1 \in 1..Len(t)  BY <1>2
  <2> HIDE DEF t
  <2>4. ASSUME NEW o \in In(t)  PROVE o \in {n} \cup In(s)
    <3>1. PICK i \in 1..Len(t) : o = t[i]  BY DEF In
    <3> QED  BY <1>2, <2>1, <3>1 DEF In
  <2>5. {n} \cup In(s) \subseteq In(t)  BY <1>2, <2>2, <2>3 DEF In
  <2> QED  BY <2>4, <2>5
<1> QED  BY <1>2, <1>3, <1>4

\* Ending a program with the answer.
LEMMA AnswerFacts ==
  ASSUME NEW s \in Seq(Ops), Neat(s), \A o \in Last : o \notin In(s)
  PROVE  /\ Append(s, "answer") \in Seq(Ops) /\ Neat(Append(s, "answer"))
         /\ In(Append(s, "answer")) = {"answer"} \cup In(s)
<1> DEFINE t == Append(s, "answer")
<1>1. "answer" \in Ops  BY DEF Ops
<1>2. /\ t \in Seq(Ops) /\ Len(t) = Len(s) + 1 /\ Len(s) \in Nat
      /\ t[Len(t)] = "answer"
      /\ \A i \in 1..Len(s) : t[i] = s[i]
  BY <1>1
<1>3. Neat(t)
  <2>1. \A i \in 1..Len(t) : i = Len(t) \/ (i \in 1..Len(s) /\ t[i] = s[i])
    BY <1>2
  <2> HIDE DEF t
  <2>2. \A i \in 1..Len(s) : s[i] \notin Last  BY DEF In
  <2>3. ASSUME NEW i \in 1..Len(t), t[i] \in Last  PROVE i = Len(t)
    BY <2>1, <2>2, <2>3
  <2>4. ASSUME NEW i \in 1..Len(t), t[i] \in First  PROVE i = 1
    BY <1>2, <2>1, <2>4 DEF Neat, First, Notes
  <2>5. ASSUME NEW i \in 1..Len(t), NEW j \in 1..Len(t), t[i] = "set_down", j < i
        PROVE  t[j] \in Before
    <3>1. i \in 1..Len(s) /\ t[i] = s[i]  BY <1>2, <2>1, <2>5
    <3>2. j \in 1..Len(s) /\ t[j] = s[j]  BY <1>2, <2>5, <3>1
    <3> QED  BY <2>5, <3>1, <3>2 DEF Neat
  <2> QED  BY <2>3, <2>4, <2>5 DEF Neat
<1>4. In(t) = {"answer"} \cup In(s)
  <2>1. \A i \in 1..Len(t) : i = Len(t) \/ i \in 1..Len(s)
    BY <1>2
  <2>2. \A i \in 1..Len(s) : i \in 1..Len(t)
    BY <1>2
  <2>3. Len(t) \in 1..Len(t)  BY <1>2
  <2> HIDE DEF t
  <2> QED  BY <1>2, <2>1, <2>2, <2>3 DEF In
<1> QED  BY <1>2, <1>3, <1>4

\* The programs of DHCP.
LEMMA OneFacts ==
  ASSUME NEW o \in Ops
  PROVE  <<o>> \in Seq(Ops) /\ Neat(<<o>>) /\ In(<<o>>) = {o}
BY DEF Neat, In

LEMMA BindFacts ==
  /\ Bind \in Seq(Ops) /\ Neat(Bind)
  /\ In(Bind) = {"take_addr", "set_up", "BOUND"}
<1>1. Bind \in Seq(Ops)  BY DEF Bind, Ops, DhcpStates
<1>2. Neat(Bind)  BY DEF Bind, Neat, First, Last, Notes
<1>3. In(Bind) = {"take_addr", "set_up", "BOUND"}  BY DEF Bind, In
<1> QED  BY <1>1, <1>2, <1>3

LEMMA HandleNakFacts ==
  /\ HandleNak \in Seq(Ops) /\ Neat(HandleNak)
  /\ In(HandleNak) = {"set_down", "no_addr", "BACKING_OFF", "SELECTING"}
<1> DEFINE p == HandleNak
<1>1. /\ p \in Seq(Ops) /\ Len(p) = 4
      /\ p[1] = "set_down" /\ p[2] = "no_addr"
      /\ p[3] = "BACKING_OFF" /\ p[4] = "SELECTING"
  BY DEF HandleNak, Discover, Ops, DhcpStates
<1> HIDE DEF p
<1>2. Neat(p)  BY <1>1 DEF Neat, First, Last, Notes, Before
<1>3. In(p) = {"set_down", "no_addr", "BACKING_OFF", "SELECTING"}
  <2>1. In(p) = {p[1], p[2], p[3], p[4]}  BY <1>1 DEF In
  <2> QED  BY <1>1, <2>1
<1> QED  BY <1>1, <1>2, <1>3 DEF p

LEMMA ReleaseDiscoverFacts ==
  /\ ReleaseDiscover \in Seq(Ops) /\ Neat(ReleaseDiscover)
  /\ In(ReleaseDiscover) = {"OFF", "set_down", "no_addr", "SELECTING"}
<1> DEFINE p == ReleaseDiscover
<1>1. /\ p \in Seq(Ops) /\ Len(p) = 4
      /\ p[1] = "OFF" /\ p[2] = "set_down"
      /\ p[3] = "no_addr" /\ p[4] = "SELECTING"
  BY DEF ReleaseDiscover, Discover, Ops, DhcpStates
<1> HIDE DEF p
<1>2. Neat(p)  BY <1>1 DEF Neat, First, Last, Notes, Before
<1>3. In(p) = {"OFF", "set_down", "no_addr", "SELECTING"}
  <2>1. In(p) = {p[1], p[2], p[3], p[4]}  BY <1>1 DEF In
  <2> QED  BY <1>1, <2>1
<1> QED  BY <1>1, <1>2, <1>3 DEF p

\* The calls of the looper: what they are, first and rest.
LEMMA CallFacts ==
  /\ LinkUp # <<>> /\ LinkDown # <<>> /\ StartUp # <<>> /\ TearDown # <<>>
  /\ TearDown2 # <<>> /\ TearDown1 # <<>> /\ BringUp # <<>> /\ BringUp1 # <<>>
  /\ Head(LinkUp) = "set_link_up" /\ Tail(LinkUp) = <<>>
  /\ Head(LinkDown) = "set_link_down" /\ Tail(LinkDown) = <<>>
  /\ Head(StartUp) = "dhcp_start" /\ Tail(StartUp) = <<>>
  /\ Head(TearDown) = "set_down" /\ Tail(TearDown) = TearDown2
  /\ Head(TearDown2) = "set_addr_none" /\ Tail(TearDown2) = TearDown1
  /\ Head(TearDown1) = "dhcp_stop" /\ Tail(TearDown1) = <<>>
  /\ Head(BringUp) = "set_addr_conf" /\ Tail(BringUp) = BringUp1
  /\ Head(BringUp1) = "set_up" /\ Tail(BringUp1) = <<>>
BY DEF LinkUp, LinkDown, StartUp, TearDown, TearDown2, TearDown1, BringUp, BringUp1

-----------------------------------------------------------------------------
(* The actions, by what they do to a program.                              *)

LEMMA LinkUpFacts ==
  LET p == <<"link_up">> \o NetworkChanged IN
    /\ p \in Seq(Ops) /\ Neat(p) /\ \A o \in Last : o \notin In(p)
    /\ "link_up" \in In(p) /\ In(p) \subseteq {"link_up", "set_down", "REBOOTING", "SELECTING"}
    /\ dhcp \in Idle => In(p) = {"link_up"}
    /\ dhcp \in Held => "set_down" \in In(p)
<1> DEFINE p == <<"link_up">> \o NetworkChanged
<1>1. CASE dhcp \in Idle
  <2>1. NetworkChanged = <<>>  BY <1>1 DEF NetworkChanged, Idle
  <2>2. p \in Seq(Ops) /\ Len(p) = 1 /\ p[1] = "link_up"  BY <2>1 DEF Ops
  <2> HIDE DEF p
  <2>3. Neat(p)  BY <2>2 DEF Neat, First, Last, Notes, Before
  <2>4. In(p) = {p[1]}  BY <2>2 DEF In
  <2> QED  BY <1>1, <2>2, <2>3, <2>4 DEF p, Last, Idle, Held
<1>2. CASE dhcp \notin Idle /\ dhcp \in {"REBINDING", "RENEWING", "BOUND", "REBOOTING"}
  <2>1. NetworkChanged = <<"set_down", "REBOOTING">>  BY <1>2 DEF NetworkChanged
  <2>2. /\ p \in Seq(Ops) /\ Len(p) = 3
        /\ p[1] = "link_up" /\ p[2] = "set_down" /\ p[3] = "REBOOTING"
    BY <2>1 DEF Ops, DhcpStates
  <2> HIDE DEF p
  <2>3. Neat(p)  BY <2>2 DEF Neat, First, Last, Notes, Before
  <2>4. In(p) = {p[1], p[2], p[3]}  BY <2>2 DEF In
  <2> QED  BY <1>2, <2>2, <2>3, <2>4 DEF p, Last, Held
<1>3. CASE dhcp \notin Idle /\ dhcp \notin {"REBINDING", "RENEWING", "BOUND", "REBOOTING"}
  <2>1. NetworkChanged = <<"SELECTING">>  BY <1>3 DEF NetworkChanged, Discover
  <2>2. /\ p \in Seq(Ops) /\ Len(p) = 2 /\ p[1] = "link_up" /\ p[2] = "SELECTING"
    BY <2>1 DEF Ops, DhcpStates
  <2> HIDE DEF p
  <2>3. Neat(p)  BY <2>2 DEF Neat, First, Last, Notes, Before
  <2>4. In(p) = {p[1], p[2]}  BY <2>2 DEF In
  <2> QED  BY <1>3, <2>2, <2>3, <2>4 DEF p, Last, Held
<1> QED  BY <1>1, <1>2, <1>3

LEMMA ServeFacts ==
  ASSUME CallsInv, Serve
  PROVE  /\ prog = <<>> /\ pc = "wait" /\ calls # <<>>
         /\ UNCHANGED <<use_dhcp, queue, netif, lease, looper, told, past>>
         /\ prog' \in Seq(Ops) /\ Neat(prog') /\ "answer" \in In(prog')
         /\ calls = LinkUp =>
              /\ "link_up" \in In(prog')
              /\ In(prog') \subseteq {"answer", "link_up", "set_down", "REBOOTING", "SELECTING"}
              /\ dhcp \in Idle => In(prog') = {"answer", "link_up"}
              /\ dhcp \in Held => "set_down" \in In(prog')
         /\ calls = LinkDown => In(prog') = {"answer", "link_down"}
         /\ calls = StartUp => In(prog') = {"answer", "SELECTING"}
         /\ calls = TearDown => In(prog') = {"answer", "set_down"}
         /\ calls = TearDown2 => In(prog') = {"answer", "no_addr"}
         /\ calls = TearDown1 => In(prog') = {"answer", "OFF"}
         /\ calls = BringUp => In(prog') = {"answer", "conf_addr"}
         /\ calls = BringUp1 => In(prog') = {"answer", "set_up"}
<1> DEFINE f == Function(Head(calls))
<1>1. /\ prog = <<>> /\ pc = "wait" /\ calls # <<>> /\ prog' = Append(f, "answer")
      /\ UNCHANGED <<use_dhcp, queue, netif, lease, looper, told, past>>
  BY DEF Serve, Start, lease, past
<1>2. calls \in {LinkUp, LinkDown, StartUp, TearDown, TearDown2, TearDown1, BringUp, BringUp1}
  BY <1>1 DEF CallsInv
<1>3. CASE calls = LinkUp
  <2>1. f = <<"link_up">> \o NetworkChanged  BY <1>3, CallFacts DEF Function
  <2> HIDE DEF f
  <2>2. /\ f \in Seq(Ops) /\ Neat(f) /\ "link_up" \in In(f)
        /\ \A o \in Last : o \notin In(f)
        /\ In(f) \subseteq {"link_up", "set_down", "REBOOTING", "SELECTING"}
        /\ dhcp \in Idle => In(f) = {"link_up"}
        /\ dhcp \in Held => "set_down" \in In(f)
    BY <2>1, LinkUpFacts
  <2>3. prog' \in Seq(Ops) /\ Neat(prog') /\ In(prog') = {"answer"} \cup In(f)
    BY <1>1, <2>2, AnswerFacts
  <2> QED  BY <1>1, <1>3, <2>2, <2>3, CallFacts
<1>4. ASSUME NEW o \in Ops, o \notin Last, f = <<o>>
      PROVE  prog' \in Seq(Ops) /\ Neat(prog') /\ In(prog') = {"answer", o}
  <2> HIDE DEF f
  <2>1. f \in Seq(Ops) /\ Neat(f) /\ In(f) = {o}  BY <1>4, OneFacts
  <2>2. prog' \in Seq(Ops) /\ Neat(prog') /\ In(prog') = {"answer"} \cup In(f)
    BY <1>1, <1>4, <2>1, AnswerFacts
  <2> QED  BY <2>1, <2>2
<1>5. /\ "link_down" \in Ops /\ "SELECTING" \in Ops /\ "set_down" \in Ops /\ "no_addr" \in Ops
      /\ "OFF" \in Ops /\ "conf_addr" \in Ops /\ "set_up" \in Ops
      /\ "link_down" \notin Last /\ "SELECTING" \notin Last /\ "set_down" \notin Last
      /\ "no_addr" \notin Last /\ "OFF" \notin Last /\ "conf_addr" \notin Last
      /\ "set_up" \notin Last
  BY DEF Ops, DhcpStates, Last
<1>6. CASE calls = LinkDown
  <2>1. f = <<"link_down">>  BY <1>6, CallFacts DEF Function
  <2> QED  BY <1>1, <1>4, <1>5, <1>6, <2>1, CallFacts
<1>7. CASE calls = StartUp
  <2>1. f = <<"SELECTING">>  BY <1>7, CallFacts DEF Function, Discover
  <2> QED  BY <1>1, <1>4, <1>5, <1>7, <2>1, CallFacts
<1>8. CASE calls = TearDown
  <2>1. f = <<"set_down">>  BY <1>8, CallFacts DEF Function
  <2> QED  BY <1>1, <1>4, <1>5, <1>8, <2>1, CallFacts
<1>9. CASE calls = TearDown2
  <2>1. f = <<"no_addr">>  BY <1>9, CallFacts DEF Function
  <2> QED  BY <1>1, <1>4, <1>5, <1>9, <2>1, CallFacts
<1>10. CASE calls = TearDown1
  <2>1. f = <<"OFF">>  BY <1>10, CallFacts DEF Function
  <2> QED  BY <1>1, <1>4, <1>5, <1>10, <2>1, CallFacts
<1>11. CASE calls = BringUp
  <2>1. f = <<"conf_addr">>  BY <1>11, CallFacts DEF Function
  <2> QED  BY <1>1, <1>4, <1>5, <1>11, <2>1, CallFacts
<1>12. CASE calls = BringUp1
  <2>1. f = <<"set_up">>  BY <1>12, CallFacts DEF Function
  <2> QED  BY <1>1, <1>4, <1>5, <1>12, <2>1, CallFacts
<1> QED  BY <1>2, <1>3, <1>6, <1>7, <1>8, <1>9, <1>10, <1>11, <1>12

LEMMA PacketFacts ==
  ASSUME Packet
  PROVE  /\ prog = <<>> /\ dhcp \notin Idle
         /\ UNCHANGED <<use_dhcp, queue, netif, dhcp, looper, told, assoc, note>>
         /\ prog' \in Seq(Ops) /\ Neat(prog')
         /\ \A o \in {"answer", "link_up", "link_down", "conf_addr", "UP", "DOWN"} :
              o \notin In(prog')
         /\ "OFF" \in In(prog') => "SELECTING" \in In(prog')
         /\ "set_up" \in In(prog') => "OFF" \notin In(prog') /\ raced' = (raced \/ Unawares)
         /\ raced => raced'
<1>1. /\ prog = <<>> /\ dhcp \notin Idle
      /\ UNCHANGED <<use_dhcp, queue, netif, dhcp, looper, told, assoc, note>>
  BY DEF Packet, Offer, Ack, BindNow, Nak, ArpReply, Timeout, LeaseTimeout, Start, Idle
<1>2. \/ prog' = Bind /\ raced' = (raced \/ Unawares)
      \/ prog' \in {HandleNak, ReleaseDiscover} /\ raced' = raced
      \/ /\ prog' \in {<<"REQUESTING">>, <<"CHECKING">>, <<"BACKING_OFF">>,
                       <<"SELECTING">>, <<"RENEWING">>, <<"REBINDING">>}
         /\ raced' = raced
  BY DEF Packet, Offer, Ack, BindNow, Nak, ArpReply, Timeout, LeaseTimeout, Start, Discover
<1>3. CASE prog' = Bind /\ raced' = (raced \/ Unawares)
  BY <1>1, <1>3, BindFacts
<1>4. CASE prog' \in {HandleNak, ReleaseDiscover} /\ raced' = raced
  BY <1>1, <1>4, HandleNakFacts, ReleaseDiscoverFacts
<1>5. CASE /\ prog' \in {<<"REQUESTING">>, <<"CHECKING">>, <<"BACKING_OFF">>,
                         <<"SELECTING">>, <<"RENEWING">>, <<"REBINDING">>}
           /\ raced' = raced
  <2>1. PICK o \in {"REQUESTING", "CHECKING", "BACKING_OFF", "SELECTING", "RENEWING",
                    "REBINDING"} : prog' = <<o>>
    BY <1>5
  <2>2. o \in Ops  BY <2>1 DEF Ops, DhcpStates
  <2>3. prog' \in Seq(Ops) /\ Neat(prog') /\ In(prog') = {o}  BY <2>1, <2>2, OneFacts
  <2> QED  BY <1>1, <1>5, <2>1, <2>3
<1> QED  BY <1>2, <1>3, <1>4, <1>5

LEMMA StepFacts ==
  ASSUME ProgInv, Step
  PROVE  /\ prog # <<>> /\ In(prog) = {Head(prog)} \cup In(Tail(prog))
         /\ prog' \in Seq(Ops) /\ Neat(prog')
         /\ \A o : o \notin {"UP", "DOWN"} => (o \in In(prog') <=> o \in In(Tail(prog)))
         /\ "OFF" \notin In(prog') /\ "take_addr" \notin In(prog')
         /\ \A o \in {"UP", "DOWN"} : o \notin In(Tail(prog))
         /\ "set_down" \in In(prog') => Head(prog) \in Before
         /\ Head(prog) \in Last => Tail(prog) = <<>>
         /\ Head(prog) = "answer" => In(prog') = {}
         /\ UNCHANGED <<use_dhcp, pc, then, heard, past>>
<1>1. prog # <<>> /\ prog \in Seq(Ops) /\ Neat(prog)  BY DEF Step, ProgInv
<1>2. /\ Tail(prog) \in Seq(Ops) /\ Neat(Tail(prog))
      /\ In(prog) = {Head(prog)} \cup In(Tail(prog))
      /\ \A o \in {"OFF", "take_addr", "UP", "DOWN"} : o \notin In(Tail(prog))
      /\ "set_down" \in In(Tail(prog)) => Head(prog) \in Before
      /\ Head(prog) \in Last => Tail(prog) = <<>>
  BY <1>1, TailFacts DEF First, Notes
<1>3. UNCHANGED <<use_dhcp, pc, then, heard, past>>  BY DEF Step
<1>4. \/ prog' = Tail(prog)
      \/ /\ Head(prog) # "answer"
         /\ prog' = <<"UP">> \o Tail(prog) \/ prog' = <<"DOWN">> \o Tail(prog)
  BY DEF Step, SetFlag, StatusCallback, SetLink, SetAddr, SetState, SendNote, Answer
<1>5. CASE prog' = Tail(prog)
  <2>1. In(<<>>) = {}  BY DEF In
  <2> QED  BY <1>1, <1>2, <1>3, <1>5, <2>1 DEF Last
<1>6. ASSUME NEW n \in {"UP", "DOWN"}, prog' = <<n>> \o Tail(prog), Head(prog) # "answer"
      PROVE  /\ prog' \in Seq(Ops) /\ Neat(prog')
             /\ \A o : o \notin {"UP", "DOWN"} => (o \in In(prog') <=> o \in In(Tail(prog)))
             /\ "OFF" \notin In(prog') /\ "take_addr" \notin In(prog')
  <2>1. prog' \in Seq(Ops) /\ Neat(prog') /\ In(prog') = {n} \cup In(Tail(prog))
    BY <1>2, <1>6, PutFacts DEF First, Notes
  <2> QED  BY <1>2, <2>1
<1>7. CASE /\ Head(prog) # "answer"
           /\ prog' = <<"UP">> \o Tail(prog) \/ prog' = <<"DOWN">> \o Tail(prog)
  BY <1>1, <1>2, <1>3, <1>6, <1>7
<1> QED  BY <1>4, <1>5, <1>7

LEMMA StepEffect ==
  ASSUME Step
  PROVE  LET op == Head(prog) IN
         /\ up' = IF op = "set_up" THEN TRUE ELSE IF op = "set_down" THEN FALSE ELSE up
         /\ link' = IF op = "link_up" THEN TRUE ELSE IF op = "link_down" THEN FALSE ELSE link
         /\ dhcp' = IF op \in DhcpStates THEN op ELSE dhcp
         /\ op \notin {"take_addr", "no_addr", "conf_addr"} => addr' = addr
         /\ op = "conf_addr" => addr' \in Addrs
         /\ op = "take_addr" => addr' = offered
         /\ op \notin {"SELECTING", "OFF"} => offered' = offered
         /\ calls' = IF op = "answer" THEN Tail(calls) ELSE calls
         /\ queue' = IF op \in {"UP", "DOWN"} THEN Append(queue, op) ELSE queue
BY DEF Step, SetFlag, SetLink, SetAddr, SetState, SendNote, MsgSend, Answer, netif, lease,
       DhcpStates


-----------------------------------------------------------------------------
(* Types.                                                                  *)

LEMMA SendType ==
  ASSUME TypeOK, NEW m \in Messages, MsgSend(m)
  PROVE  queue' \in Seq(Messages) /\ Len(queue') <= QLen
BY NetCtrlAssumption DEF TypeOK, MsgSend, NetCtrlAssumption

(* Every variable keeps its type, and the queue its bound.                 *)
THEOREM TypeCorrect == Spec => []TypeOK
<1> USE DEF netif, lease, looper, past
<1>1. Init => TypeOK
  <2> SUFFICES ASSUME Init  PROVE TypeOK
    OBVIOUS
  <2>1. queue \in Seq(Messages) /\ Len(queue) <= QLen
    BY NetCtrlAssumption DEF NetCtrlAssumption, Init
  <2>2. /\ dhcp \in DhcpStates /\ note \in {"UP", "DOWN"} /\ then \in {"recv", "config", "stop"}
        /\ pc \in {"recv", "wait", "config", "start", "stop", "send", "tell"}
    BY DEF Init, DhcpStates
  <2> QED  BY <2>1, <2>2 DEF Init, TypeOK
<1>2. TypeOK /\ [Next]_vars => TypeOK'
  <2> SUFFICES ASSUME TypeOK, [Next]_vars  PROVE TypeOK'
    OBVIOUS
  <2>1. ASSUME NEW e \in WlanEvents, WlanEvent(e)  PROVE TypeOK'
    <3>1. e \in Messages  BY DEF Messages
    <3>2. queue' \in Seq(Messages) /\ Len(queue') <= QLen
      BY <2>1, <3>1, SendType DEF WlanEvent
    <3>3. assoc' \in BOOLEAN  BY <2>1 DEF WlanEvent, TypeOK
    <3>4. UNCHANGED <<use_dhcp, netif, lease, looper, told, note, raced>>
      BY <2>1 DEF WlanEvent
    <3> QED  BY <3>2, <3>3, <3>4 DEF TypeOK
  <2>2. CASE Serve
    BY <2>2 DEF Serve, Start, TypeOK
  <2>3. CASE Packet
    <3>1. offered' \in Addrs \cup {NoAddr}
      BY <2>3 DEF Packet, Offer, Ack, BindNow, Nak, ArpReply, Timeout, LeaseTimeout, TypeOK
    <3>2. raced' \in BOOLEAN
      BY <2>3 DEF Packet, Offer, Ack, BindNow, Nak, ArpReply, Timeout, LeaseTimeout, TypeOK
    <3> QED  BY <2>3, <3>1, <3>2, PacketFacts DEF TypeOK
  <2>4. CASE Step
    <3>1. queue' \in Seq(Messages) /\ Len(queue') <= QLen
      <4>1. CASE Head(prog) \in {"UP", "DOWN"} /\ MsgSend(Head(prog))
        <5>1. Head(prog) \in Messages  BY <4>1 DEF Messages
        <5> QED  BY <4>1, <5>1, SendType
      <4>2. CASE UNCHANGED queue  BY <4>2 DEF TypeOK
      <4> QED
        BY <2>4, <4>1, <4>2 DEF Step, SetFlag, SetLink, SetAddr, SetState, SendNote, Answer
    <3>2. up' \in BOOLEAN /\ link' \in BOOLEAN /\ dhcp' \in DhcpStates
      BY <2>4, StepEffect DEF TypeOK
    <3>3. addr' \in Addrs \cup {NoAddr} /\ offered' \in Addrs \cup {NoAddr}
      BY <2>4 DEF Step, SetFlag, SetLink, SetAddr, SetState, SendNote, Answer, TypeOK
    <3>4. told' \in Addrs \cup {NoAddr}
      BY <2>4 DEF Step, SetFlag, StatusCallback, SetLink, SetAddr, SetState, SendNote,
                  Answer, TypeOK
    <3>5. UNCHANGED <<use_dhcp, pc, then, heard, past>>  BY <2>4 DEF Step
    <3> QED  BY <3>1, <3>2, <3>3, <3>4, <3>5 DEF TypeOK
  <2>5. CASE Recv
    <3>1. queue' \in Seq(Messages) /\ Len(queue') <= QLen
      BY <2>5, NetCtrlAssumption DEF Recv, TypeOK, NetCtrlAssumption
    <3>2. note' \in {"UP", "DOWN"} /\ heard' \in Addrs \cup {NoAddr}
      BY <2>5 DEF Recv, TypeOK
    <3>3. /\ pc' \in {"recv", "wait", "config", "start", "stop", "send", "tell"}
          /\ then' \in {"recv", "config", "stop"}
      BY <2>5 DEF Recv, Go, Call, TypeOK
    <3>4. UNCHANGED <<use_dhcp, netif, lease, told, assoc, raced>>  BY <2>5 DEF Recv
    <3> QED  BY <3>1, <3>2, <3>3, <3>4 DEF TypeOK
  <2>6. CASE Answered /\ UNCHANGED <<use_dhcp, netif, lease, prog, past>>
    BY <2>6 DEF Answered, Go, TypeOK
  <2>7. CASE Tell /\ UNCHANGED <<use_dhcp, netif, lease, prog, past>>
    BY <2>7 DEF Tell, Go, TypeOK
  <2>8. CASE Config /\ UNCHANGED <<use_dhcp, netif, lease, prog, past>>
    BY <2>8 DEF Config, Go, Call, TypeOK
  <2>9. CASE SendSelf /\ UNCHANGED <<use_dhcp, netif, lease, prog, past>>
    <3>1. queue' \in Seq(Messages) /\ Len(queue') <= QLen
      BY <2>9, SendType DEF SendSelf, Messages
    <3> QED  BY <2>9, <3>1 DEF SendSelf, Go, TypeOK
  <2>10. CASE ConfigStart /\ UNCHANGED <<use_dhcp, netif, lease, prog, past>>
    BY <2>10 DEF ConfigStart, Go, Call, TypeOK
  <2>11. CASE ConfigStop /\ UNCHANGED <<use_dhcp, netif, lease, prog, past>>
    BY <2>11 DEF ConfigStop, Go, Call, TypeOK
  <2>12. CASE UNCHANGED vars
    BY <2>12 DEF vars, TypeOK
  <2> QED
    BY <2>1, <2>2, <2>3, <2>4, <2>5, <2>6, <2>7, <2>8, <2>9, <2>10, <2>11, <2>12
    DEF Next, Looper, Handle
<1> QED  BY <1>1, <1>2, PTL DEF Spec


-----------------------------------------------------------------------------
(* Programs and calls.                                                     *)

LEMMA CallsInit == Init => ProgInv /\ CallsInv
<1> SUFFICES ASSUME Init  PROVE ProgInv /\ CallsInv
  OBVIOUS
<1>1. In(prog) = {} /\ ProgInv  BY DEF Init, In, Neat, ProgInv
<1>2. CallsInv  BY <1>1, CallFacts DEF Init, CallsInv, Left, Serving
<1> QED  BY <1>1, <1>2

\* What the looper calls for, it calls for with the program left as it is.
LEMMA CallsKept ==
  ASSUME ProgInv, CallsInv, UNCHANGED <<use_dhcp, prog>>, pc # "wait",
         \/ pc' # "wait" /\ UNCHANGED <<calls, then>> /\ pc' \notin {"send", "start"}
         \/ pc' = "send" /\ UNCHANGED <<calls, then>> /\ ~ use_dhcp
         \/ pc' = "start" /\ UNCHANGED <<calls, then>> /\ use_dhcp
         \/ pc' = "wait" /\ calls' = LinkUp /\ then' = "config"
         \/ pc' = "wait" /\ calls' = LinkDown /\ then' = "stop"
         \/ pc' = "wait" /\ calls' \in {StartUp, TearDown} /\ then' = "recv" /\ use_dhcp
         \/ pc' = "wait" /\ calls' = BringUp /\ then' = "recv" /\ ~ use_dhcp
  PROVE  ProgInv' /\ CallsInv'
<1>1. ProgInv'  BY DEF ProgInv
<1>2. calls = <<>>  BY DEF CallsInv
<1>3. ~ Serving /\ ~ Left("link_up") /\ ~ Left("link_down") /\ ~ Left("conf_addr")
  BY <1>2, CallFacts DEF CallsInv, Serves, Waits
<1>4. ~ Serving' /\ ~ Left("link_up")' /\ ~ Left("link_down")' /\ ~ Left("conf_addr")'
  BY <1>3 DEF Serving, Left
<1>5. CallsInv'
  BY <1>2, <1>4, CallFacts DEF CallsInv
<1> QED  BY <1>1, <1>5

LEMMA CallsStep ==
  ASSUME TypeOK, ProgInv, CallsInv, ConfInv, [Next]_vars
  PROVE  ProgInv' /\ CallsInv'
<1>1. ASSUME NEW e \in WlanEvents, WlanEvent(e)  PROVE ProgInv' /\ CallsInv'
  BY <1>1 DEF WlanEvent, ProgInv, CallsInv, looper, Left, Serves, Serving, Waits
<1>2. CASE Serve
  <2>1. ProgInv'  BY <1>2, ServeFacts DEF ProgInv
  <2>2. UNCHANGED <<use_dhcp, pc, calls, then>>  BY <1>2, ServeFacts DEF looper
  <2>3. /\ "link_up" \in In(prog') => calls = LinkUp
        /\ "link_down" \in In(prog') => calls = LinkDown
        /\ "conf_addr" \in In(prog') => calls = BringUp
        /\ "answer" \in In(prog') /\ pc = "wait" /\ calls # <<>>
    BY <1>2, ServeFacts DEF CallsInv
  <2>4. CallsInv'  BY <2>2, <2>3 DEF CallsInv, Left, Serves, Serving, Waits
  <2> QED  BY <2>1, <2>4
<1>3. CASE Packet
  <2>1. ProgInv'  BY <1>3, PacketFacts DEF ProgInv
  <2>2. UNCHANGED <<use_dhcp, pc, calls, then>>  BY <1>3, PacketFacts DEF looper
  <2>3. ~ Serving' /\ ~ Left("link_up")' /\ ~ Left("link_down")' /\ ~ Left("conf_addr")'
    BY <1>3, PacketFacts DEF Left, Serving
  <2>4. CallsInv'  BY <2>2, <2>3 DEF CallsInv
  <2> QED  BY <2>1, <2>4
<1>4. CASE Step
  <2>1. ProgInv'  BY <1>4, StepFacts DEF ProgInv
  <2>2. UNCHANGED <<use_dhcp, pc, then>>  BY <1>4, StepFacts
  <2>3. CASE Head(prog) = "answer"
    <3>1. Serving  BY <1>4, <2>3, StepFacts DEF Serving
    <3>2. calls' = Tail(calls)  BY <1>4, <2>3, StepEffect
    <3>3. ~ Serving' /\ ~ Left("link_up")' /\ ~ Left("link_down")' /\ ~ Left("conf_addr")'
      BY <1>4, <2>3, StepFacts DEF Left, Serving
    <3>4. calls # <<>> /\ pc = "wait"  BY <3>1 DEF CallsInv
    <3>5. /\ calls' \in {<<>>, TearDown2, TearDown1, BringUp1}
          /\ calls' \in {TearDown2, TearDown1, BringUp1} => then = "recv"
          /\ use_dhcp => calls' # BringUp1
          /\ ~ use_dhcp => calls' \in {<<>>, BringUp1}
      BY <3>2, <3>4, CallFacts DEF CallsInv
    <3>6. CallsInv'  BY <2>2, <3>3, <3>4, <3>5, CallFacts DEF CallsInv
    <3> QED  BY <2>1, <3>6
  <2>4. CASE Head(prog) # "answer"
    <3>1. calls' = calls  BY <1>4, <2>4, StepEffect
    <3>2. Serving' <=> Serving  BY <1>4, <2>4, StepFacts DEF Serving
    <3>3. /\ Left("link_up")' => Left("link_up")
          /\ Left("link_down")' => Left("link_down")
          /\ Left("conf_addr")' => Left("conf_addr")
      BY <1>4, StepFacts DEF Left
    <3>4. CallsInv'  BY <2>2, <3>1, <3>2, <3>3 DEF CallsInv, Serves, Waits
    <3> QED  BY <2>1, <3>4
  <2> QED  BY <2>3, <2>4
<1>5. CASE Recv
  BY <1>5, CallsKept DEF Recv, Go, Call, LinkUp, LinkDown
<1>6. CASE Answered /\ UNCHANGED <<use_dhcp, netif, lease, prog, past>>
  <2>1. /\ pc = "wait" /\ calls = <<>> /\ pc' = then /\ then \in {"recv", "config", "stop"}
        /\ UNCHANGED <<use_dhcp, prog, calls, then>>
    BY <1>6 DEF Answered, Go, TypeOK
  <2>2. ~ Serving /\ ~ Left("link_up") /\ ~ Left("link_down") /\ ~ Left("conf_addr")
    BY <2>1, CallFacts DEF CallsInv, Serves, Waits
  <2>3. ~ Serving' /\ ~ Left("link_up")' /\ ~ Left("link_down")' /\ ~ Left("conf_addr")'
    BY <2>1, <2>2 DEF Serving, Left
  <2>4. CallsInv'  BY <2>1, <2>3, CallFacts DEF CallsInv
  <2>5. ProgInv'  BY <2>1 DEF ProgInv
  <2> QED  BY <2>4, <2>5
<1>7. CASE Tell /\ UNCHANGED <<use_dhcp, netif, lease, prog, past>>
  BY <1>7, CallsKept DEF Tell, Go
<1>8. CASE Config /\ UNCHANGED <<use_dhcp, netif, lease, prog, past>>
  BY <1>8, CallsKept DEF Config, Go, Call, BringUp, TypeOK
<1>9. CASE SendSelf /\ UNCHANGED <<use_dhcp, netif, lease, prog, past>>
  BY <1>9, CallsKept DEF SendSelf, Go
<1>10. CASE ConfigStart /\ UNCHANGED <<use_dhcp, netif, lease, prog, past>>
  <2>1. use_dhcp  BY <1>10 DEF ConfigStart, CallsInv
  <2> QED  BY <1>10, <2>1, CallsKept DEF ConfigStart, Go, Call, StartUp
<1>11. CASE ConfigStop /\ UNCHANGED <<use_dhcp, netif, lease, prog, past>>
  <2>1. dhcp \notin Idle => use_dhcp  BY DEF ConfInv, ConfOK, Idle
  <2> QED  BY <1>11, <2>1, CallsKept DEF ConfigStop, Go, Call, TearDown
<1>12. CASE UNCHANGED vars
  BY <1>12 DEF vars, looper, ProgInv, CallsInv, Left, Serves, Serving, Waits
<1> QED
  BY <1>1, <1>2, <1>3, <1>4, <1>5, <1>6, <1>7, <1>8, <1>9, <1>10, <1>11, <1>12
  DEF Next, Looper, Handle


-----------------------------------------------------------------------------
(* The link and the wlan's events.                                         *)

LEMMA LastAppend ==
  ASSUME NEW q \in Seq(Messages), NEW S, NEW x, NEW d, NEW m \in Messages, LastOf(q, S, x, d)
  PROVE  LastOf(Append(q, m), S, IF m \in S THEN m ELSE x, d)
<1> DEFINE r == Append(q, m)
<1>1. /\ Len(r) = Len(q) + 1 /\ Len(q) \in Nat /\ r[Len(r)] = m
      /\ \A i \in 1..Len(q) : r[i] = q[i]
  OBVIOUS
<1>2. /\ Len(r) \in 1..Len(r) /\ \A i \in 1..Len(q) : i \in 1..Len(r) /\ i < Len(r)
      /\ \A i \in 1..Len(r) : i = Len(r) \/ i \in 1..Len(q)
  BY <1>1
<1> HIDE DEF r
<1>3. CASE m \in S
  <2>1. \A i \in 1..Len(r) : (\A j \in 1..Len(r) : j > i => r[j] \notin S) => r[i] = m
    BY <1>1, <1>2, <1>3
  <2>2. ~ \A i \in 1..Len(r) : r[i] \notin S  BY <1>1, <1>2, <1>3
  <2>3. LastOf(r, S, m, d)  BY <2>1, <2>2 DEF LastOf
  <2> QED  BY <1>3, <2>3 DEF r
<1>4. CASE m \notin S
  <2>1. ASSUME NEW i \in 1..Len(r), r[i] \in S,
               \A j \in 1..Len(r) : j > i => r[j] \notin S
        PROVE  x = r[i]
    <3>1. i \in 1..Len(q) /\ r[i] = q[i]  BY <1>1, <1>2, <1>4, <2>1
    <3>2. \A j \in 1..Len(q) : j > i => q[j] \notin S  BY <1>1, <1>2, <2>1
    <3> QED  BY <2>1, <3>1, <3>2 DEF LastOf
  <2>2. ASSUME \A i \in 1..Len(r) : r[i] \notin S  PROVE x = d
    <3>1. \A i \in 1..Len(q) : q[i] \notin S  BY <1>1, <1>2, <2>2
    <3> QED  BY <3>1 DEF LastOf
  <2>3. LastOf(r, S, x, d)  BY <2>1, <2>2 DEF LastOf
  <2> QED  BY <1>4, <2>3 DEF r
<1> QED  BY <1>3, <1>4

LEMMA LastTail ==
  ASSUME NEW q \in Seq(Messages), q # <<>>, NEW S, NEW x, NEW d, LastOf(q, S, x, d)
  PROVE  LastOf(Tail(q), S, x, IF Head(q) \in S THEN Head(q) ELSE d)
<1> DEFINE r == Tail(q)  m == Head(q)  e == IF m \in S THEN m ELSE d
<1>1. /\ Len(q) \in Nat \ {0} /\ m = q[1] /\ Len(r) = Len(q) - 1
      /\ \A i \in 1..Len(r) : r[i] = q[i + 1]
  OBVIOUS
<1> HIDE DEF r, m
<1>2. /\ 1 \in 1..Len(q)
      /\ \A i \in 1..Len(r) : i + 1 \in 1..Len(q) /\ r[i] = q[i + 1]
      /\ \A i \in 1..Len(q) : i = 1 \/ (i - 1 \in 1..Len(r) /\ q[i] = r[i - 1])
  BY <1>1
<1>3. ASSUME NEW i \in 1..Len(r), r[i] \in S,
             \A j \in 1..Len(r) : j > i => r[j] \notin S
      PROVE  x = r[i]
  <2>1. i + 1 \in 1..Len(q) /\ q[i + 1] = r[i]  BY <1>2
  <2>2. ASSUME NEW j \in 1..Len(q), j > i + 1  PROVE q[j] \notin S
    <3>1. j - 1 \in 1..Len(r) /\ q[j] = r[j - 1] /\ j - 1 > i  BY <1>1, <1>2, <2>2
    <3> QED  BY <1>3, <3>1
  <2> QED  BY <1>3, <2>1, <2>2 DEF LastOf
<1>4. ASSUME \A i \in 1..Len(r) : r[i] \notin S  PROVE x = e
  <2>1. \A j \in 1..Len(q) : j = 1 \/ q[j] \notin S  BY <1>2, <1>4
  <2>2. CASE m \in S
    <3>1. \A j \in 1..Len(q) : j > 1 => q[j] \notin S  BY <2>1
    <3> QED  BY <1>1, <1>2, <2>2, <3>1 DEF LastOf
  <2>3. CASE m \notin S
    <3>1. \A j \in 1..Len(q) : q[j] \notin S  BY <1>1, <2>1, <2>3
    <3> QED  BY <2>3, <3>1 DEF LastOf
  <2> QED  BY <2>2, <2>3
<1>5. LastOf(r, S, x, e)  BY <1>3, <1>4 DEF LastOf
<1> QED  BY <1>5 DEF r, m

LEMMA SaidAppend ==
  ASSUME NEW q \in Seq(Messages), NEW a, NEW t, NEW m \in Messages, SaidLast(q, a, t)
  PROVE  SaidLast(Append(q, m), Says(m, a), t)
<1>1. Word(Says(m, a)) = IF m \in Words THEN m ELSE Word(a)  BY DEF Word, Says, Words
<1> QED  BY <1>1, LastAppend DEF SaidLast

LEMMA SaidTail ==
  ASSUME NEW q \in Seq(Messages), q # <<>>, NEW a, NEW t, SaidLast(q, a, t)
  PROVE  SaidLast(Tail(q), a, Says(Head(q), t))
<1>1. Word(Says(Head(q), t)) = IF Head(q) \in Words THEN Head(q) ELSE Word(t)
  BY DEF Word, Says, Words
<1> QED  BY <1>1, LastTail DEF SaidLast

LEMMA TargetType == TypeOK => Target \in BOOLEAN
BY DEF TypeOK, Target

LEMMA LinkInit == Init => LinkInv
<1> SUFFICES ASSUME Init  PROVE LinkInv
  OBVIOUS
<1>1. /\ pc = "recv" /\ link = FALSE /\ assoc = FALSE /\ Len(queue) = 0
  BY DEF Init
<1>2. Target = FALSE  BY <1>1 DEF Target, Waits
<1>3. SaidLast(queue, assoc, Target)
  <2>1. \A i \in 1..Len(queue) : FALSE  BY <1>1
  <2> QED  BY <1>1, <1>2, <2>1 DEF SaidLast, LastOf
<1> QED  BY <1>1, <1>3 DEF LinkInv, Waits, Serves

\* What a step leaves of a program.
LEMMA StepLeft ==
  ASSUME ProgInv, Step
  PROVE  LET op == Head(prog) IN
         /\ Left(op) /\ ~ Left("OFF")'
         /\ op = "answer" => /\ \A o : ~ Left(o)'
                             /\ \A o : o # "answer" => ~ Left(o)
                             /\ ~ Serving' /\ ~ Left("link_up") /\ ~ Left("link_down")
         /\ op # "answer" => (Serving <=> Serving')
         /\ \A o : o \notin {"UP", "DOWN"} /\ Left(o) => Left(o)' \/ op = o
         /\ \A o : o \notin {"UP", "DOWN"} /\ Left(o)' => Left(o)
<1>1. Head(prog) = "answer" => Tail(prog) = <<>>
  BY StepFacts DEF Last
<1>2. In(<<>>) = {}  BY DEF In
<1> QED  BY <1>1, <1>2, StepFacts DEF Left, Serving

\* The TCP/IP thread does what the link is to be.
LEMMA StepTarget ==
  ASSUME TypeOK, ProgInv, CallsInv, LinkInv, Step
  PROVE  Target' = Target
<1> DEFINE op == Head(prog)
<1>1. /\ UNCHANGED <<pc, then>>
      /\ calls' = IF op = "answer" THEN Tail(calls) ELSE calls
      /\ link' = IF op = "link_up" THEN TRUE ELSE IF op = "link_down" THEN FALSE ELSE link
  BY StepFacts, StepEffect
<1>2. Left(op) /\ op = "answer" => ~ Left("link_up") /\ ~ Left("link_down")
  BY StepLeft
<1> HIDE DEF op
<1>3. CASE op = "answer"
  <2>1. Left(op) /\ Serving /\ ~ Left("link_up") /\ ~ Left("link_down")
    BY <1>2, <1>3, StepLeft DEF op, Serving, Left
  <2>2. pc = "wait" /\ calls # <<>>  BY <2>1 DEF CallsInv
  <2>3. calls = LinkUp => link  BY <2>1, <2>2 DEF LinkInv, Serves, Waits
  <2>4. calls = LinkDown => ~ link  BY <2>1, <2>2 DEF LinkInv, Serves, Waits
  <2>5. calls' \notin {LinkUp, LinkDown}
    BY <1>1, <1>3, <2>2, CallFacts DEF CallsInv
  <2>6. link' = link  BY <1>1, <1>3
  <2> QED  BY <1>1, <2>2, <2>3, <2>4, <2>5, <2>6, CallFacts DEF Target, Waits, TypeOK
<1>4. CASE op \in {"link_up", "link_down"}
  <2>1. Serves(IF op = "link_up" THEN LinkUp ELSE LinkDown)
    BY <1>4, StepLeft DEF op, CallsInv
  <2>2. calls' = calls  BY <1>1, <1>4
  <2> QED  BY <1>1, <1>4, <2>1, <2>2, CallFacts DEF Target, Waits, Serves
<1>5. CASE op \notin {"answer", "link_up", "link_down"}
  <2>1. UNCHANGED <<link, calls>>  BY <1>1, <1>5
  <2> QED  BY <1>1, <2>1 DEF Target, Waits
<1> QED  BY <1>3, <1>4, <1>5

LEMMA LinkStep ==
  ASSUME TypeOK, ProgInv, CallsInv, LinkInv, [Next]_vars
  PROVE  LinkInv'
<1>t. Target \in BOOLEAN /\ assoc \in BOOLEAN /\ queue \in Seq(Messages)
  BY TargetType DEF TypeOK
<1>1. ASSUME NEW e \in WlanEvents, WlanEvent(e)  PROVE LinkInv'
  <2>1. e \in Messages  BY DEF Messages
  <2>2. /\ queue' = Append(queue, e) /\ assoc' = Says(e, assoc)
        /\ UNCHANGED <<link, prog, pc, calls, then>>
    BY <1>1 DEF WlanEvent, MsgSend, netif, looper, Says
  <2>3. Target' = Target  BY <2>2 DEF Target, Waits
  <2>4. SaidLast(queue, assoc, Target)'
    BY <1>t, <2>1, <2>2, <2>3, SaidAppend DEF LinkInv
  <2> QED  BY <2>2, <2>4 DEF LinkInv, Serves, Serving, Left, Waits
<1>2. CASE Serve
  <2>1. UNCHANGED <<queue, assoc, link, pc, calls, then>>
    BY <1>2, ServeFacts DEF netif, looper, past
  <2>2. Target' = Target  BY <2>1 DEF Target, Waits
  <2>3. SaidLast(queue, assoc, Target)'  BY <2>1, <2>2 DEF LinkInv
  <2>4. /\ calls = LinkUp => "link_up" \in In(prog')
        /\ calls = LinkDown => "link_down" \in In(prog')
    BY <1>2, ServeFacts
  <2> QED  BY <2>1, <2>3, <2>4 DEF LinkInv, Serves, Left, Waits
<1>3. CASE Packet
  <2>1. UNCHANGED <<queue, assoc, link, pc, calls, then>>
    BY <1>3, PacketFacts DEF netif, looper
  <2>2. Target' = Target  BY <2>1 DEF Target, Waits
  <2>3. SaidLast(queue, assoc, Target)'  BY <2>1, <2>2 DEF LinkInv
  <2>4. ~ Serving'  BY <1>3, PacketFacts DEF Serving
  <2> QED  BY <2>1, <2>3, <2>4 DEF LinkInv, Serves, Waits
<1>4. CASE Step
  <2> DEFINE op == Head(prog)
  <2>1. /\ UNCHANGED <<pc, then, assoc>> /\ Target' = Target
        /\ calls' = IF op = "answer" THEN Tail(calls) ELSE calls
        /\ queue' = IF op \in {"UP", "DOWN"} THEN Append(queue, op) ELSE queue
        /\ link' = IF op = "link_up" THEN TRUE ELSE IF op = "link_down" THEN FALSE ELSE link
    BY <1>4, StepFacts, StepEffect, StepTarget DEF past
  <2>2. /\ Left(op)
        /\ op = "answer" => ~ Serving' /\ ~ Left("link_down")
        /\ op # "answer" => (Serving <=> Serving')
        /\ \A o \in {"link_up", "link_down"} : Left(o) => Left(o)' \/ op = o
    BY <1>4, StepLeft
  <2> HIDE DEF op
  <2>3. SaidLast(queue, assoc, Target)'
    <3>1. CASE op \in {"UP", "DOWN"}
      <4>1. op \in Messages /\ Says(op, assoc) = assoc  BY <3>1 DEF Messages, Says
      <4>2. queue' = Append(queue, op)  BY <2>1, <3>1
      <4> QED  BY <1>t, <2>1, <4>1, <4>2, SaidAppend DEF LinkInv
    <3>2. CASE op \notin {"UP", "DOWN"}
      BY <2>1, <3>2 DEF LinkInv
    <3> QED  BY <3>1, <3>2
  <2>4. CASE op = "answer"
    <3>1. Serving  BY <2>2, <2>4 DEF Serving, Left
    <3>2. pc = "wait" /\ calls # <<>>  BY <3>1 DEF CallsInv
    <3>3. calls = LinkDown => ~ link  BY <2>2, <2>4, <3>1, <3>2 DEF LinkInv, Serves, Waits
    <3>4. /\ calls' # TearDown
          /\ calls' \in {TearDown2, TearDown1} => calls \in {TearDown, TearDown2}
          /\ calls' = <<>> /\ then = "stop" => calls = LinkDown
      BY <2>1, <2>4, <3>2, CallFacts DEF CallsInv
    <3>5. link' = link /\ pc' # "stop"  BY <2>1, <2>4, <3>2
    <3> QED  BY <2>1, <2>2, <2>3, <2>4, <3>2, <3>3, <3>4, <3>5 DEF LinkInv, Serves, Waits
  <2>5. CASE op \in {"link_up", "link_down"}
    <3>1. Serves(IF op = "link_up" THEN LinkUp ELSE LinkDown)
      BY <2>2, <2>5 DEF CallsInv
    <3>2. calls' = calls /\ link' = (op = "link_up")  BY <2>1, <2>5
    <3> QED  BY <2>1, <2>3, <2>5, <3>1, <3>2, CallFacts DEF LinkInv, Serves, Waits
  <2>6. CASE op \notin {"answer", "link_up", "link_down"}
    <3>1. UNCHANGED <<link, calls>>  BY <2>1, <2>6
    <3> QED  BY <2>1, <2>2, <2>3, <2>6, <3>1 DEF LinkInv, Serves, Waits
  <2> QED  BY <2>4, <2>5, <2>6
<1>5. CASE Recv
  <2> DEFINE m == Head(queue)
  <2>1. /\ pc = "recv" /\ queue # <<>> /\ queue' = Tail(queue)
        /\ UNCHANGED <<link, prog, assoc>>
    BY <1>5 DEF Recv, netif
  <2>2. calls = <<>>  BY <2>1 DEF CallsInv
  <2>3. SaidLast(Tail(queue), assoc, Says(m, Target))
    BY <1>t, <2>1, SaidTail DEF LinkInv
  <2>4. Target = link  BY <2>1 DEF Target, Waits
  <2>5. /\ m = "CONNECTED" /\ link => pc' = "recv" /\ calls' = calls
        /\ m = "CONNECTED" /\ ~ link => pc' = "wait" /\ calls' = LinkUp
        /\ m = "DISCONNECTED" /\ link => pc' = "wait" /\ calls' = LinkDown
        /\ m = "DISCONNECTED" /\ ~ link => pc' = "stop" /\ calls' = calls
        /\ m \notin {"CONNECTED", "DISCONNECTED"} => pc' \in {"recv", "tell"} /\ calls' = calls
    BY <1>5 DEF Recv, Go, Call, LinkUp, LinkDown
  <2> HIDE DEF m
  <2>6. Target' = Says(m, Target)
    BY <2>1, <2>4, <2>5, CallFacts DEF Target, Waits, Says, TypeOK
  <2>7. SaidLast(queue, assoc, Target)'  BY <2>1, <2>3, <2>6
  <2>8. ~ Serving'
    <3>1. ~ Serving  BY <2>2 DEF CallsInv
    <3> QED  BY <2>1, <3>1 DEF Serving
  <2>9. pc' = "wait" => calls' \in {LinkUp, LinkDown}
    BY <2>5
  <2>10. pc' = "stop" => ~ link'
    BY <2>1, <2>5
  <2> QED  BY <2>7, <2>8, <2>9, <2>10, CallFacts DEF LinkInv, Serves, Waits
<1>6. ASSUME UNCHANGED <<use_dhcp, netif, lease, prog, past, queue>>, pc # "wait",
             pc' = "wait" => /\ calls' \in {StartUp, TearDown, BringUp}
                             /\ calls' = TearDown => pc = "stop",
             pc' # "stop"
      PROVE  LinkInv'
  <2>1. UNCHANGED <<link, assoc, queue, prog>>  BY <1>6 DEF netif, past
  <2>2. Target' = Target  BY <1>6, <2>1, CallFacts DEF Target, Waits
  <2>3. SaidLast(queue, assoc, Target)'  BY <2>1, <2>2 DEF LinkInv
  <2>4. ~ Serving'
    <3>1. ~ Serving  BY <1>6 DEF CallsInv
    <3> QED  BY <2>1, <3>1 DEF Serving
  <2> QED  BY <1>6, <2>1, <2>3, <2>4, CallFacts DEF LinkInv, Serves, Waits
<1>7. CASE Answered /\ UNCHANGED <<use_dhcp, netif, lease, prog, past>>
  <2>1. /\ pc = "wait" /\ calls = <<>> /\ pc' = then /\ pc' # "wait"
        /\ UNCHANGED <<link, assoc, queue, prog, calls, then>>
    BY <1>7 DEF Answered, Go, TypeOK, netif, past
  <2>2. Target' = Target  BY <2>1, CallFacts DEF Target, Waits
  <2>3. SaidLast(queue, assoc, Target)'  BY <2>1, <2>2 DEF LinkInv
  <2> QED  BY <2>1, <2>3 DEF LinkInv, Serves, Waits
<1>8. CASE Tell /\ UNCHANGED <<use_dhcp, netif, lease, prog, past>>
  BY <1>6, <1>8 DEF Tell, Go
<1>9. CASE Config /\ UNCHANGED <<use_dhcp, netif, lease, prog, past>>
  BY <1>6, <1>9, CallFacts DEF Config, Go, Call, BringUp
<1>10. CASE SendSelf /\ UNCHANGED <<use_dhcp, netif, lease, prog, past>>
  <2>1. /\ pc = "send" /\ pc' = "recv" /\ queue' = Append(queue, "UP")
        /\ UNCHANGED <<link, assoc, prog>>
    BY <1>10 DEF SendSelf, MsgSend, Go, netif, past
  <2>2. Target' = Target  BY <2>1 DEF Target, Waits
  <2>3. "UP" \in Messages /\ Says("UP", assoc) = assoc  BY DEF Messages, Says
  <2>4. SaidLast(queue, assoc, Target)'  BY <1>t, <2>1, <2>2, <2>3, SaidAppend DEF LinkInv
  <2> QED  BY <2>1, <2>4 DEF LinkInv, Serves, Waits
<1>11. CASE ConfigStart /\ UNCHANGED <<use_dhcp, netif, lease, prog, past>>
  BY <1>6, <1>11, CallFacts DEF ConfigStart, Go, Call, StartUp
<1>12. CASE ConfigStop /\ UNCHANGED <<use_dhcp, netif, lease, prog, past>>
  BY <1>6, <1>12, CallFacts DEF ConfigStop, Go, Call, TearDown
<1>13. CASE UNCHANGED vars
  BY <1>13 DEF vars, looper, netif, past, LinkInv, Left, Serves, Serving, Waits, Target
<1> QED
  BY <1>1, <1>2, <1>3, <1>4, <1>5, <1>7, <1>8, <1>9, <1>10, <1>11, <1>12, <1>13
  DEF Next, Looper, Handle


-----------------------------------------------------------------------------
(* A station with DHCP.                                                    *)

LEMMA UnawaresFacts == Waits(TearDown2) \/ Waits(TearDown1) => Unawares
<1>1. /\ TearDown2[1] # "set_down" /\ TearDown2[Len(TearDown2)] = "dhcp_stop"
      /\ TearDown1[1] # "set_down" /\ TearDown1[Len(TearDown1)] = "dhcp_stop"
  BY DEF TearDown2, TearDown1
<1> QED  BY <1>1, CallFacts DEF Waits, Unawares

\* The kind of address stays, and so does what is said of a lease.
LEMMA RacedKept ==
  ASSUME [Next]_vars
  PROVE  use_dhcp' = use_dhcp /\ (raced => raced')
<1>1. ASSUME NEW e \in WlanEvents, WlanEvent(e)
      PROVE  use_dhcp' = use_dhcp /\ (raced => raced')
  BY <1>1 DEF WlanEvent
<1>2. CASE Serve  BY <1>2 DEF Serve, Start
<1>3. CASE Packet  BY <1>3, PacketFacts
<1>4. CASE Step  BY <1>4 DEF Step, past
<1>5. CASE Recv  BY <1>5 DEF Recv
<1>6. CASE Handle  BY <1>6 DEF Handle, past
<1>7. CASE UNCHANGED vars  BY <1>7 DEF vars, past
<1> QED  BY <1>1, <1>2, <1>3, <1>4, <1>5, <1>6, <1>7 DEF Next, Looper

LEMMA DhcpInit == Init => DhcpInv
<1> SUFFICES ASSUME Init  PROVE DhcpOK
  BY DEF DhcpInv
<1>1. pc = "recv" /\ link = FALSE /\ up = FALSE /\ prog = <<>>  BY DEF Init
<1>2. In(prog) = {}  BY <1>1 DEF In
<1>3. Target = FALSE  BY <1>1 DEF Target, Waits
<1> QED  BY <1>1, <1>2, <1>3 DEF DhcpOK, Left, Serves, Waits

LEMMA DhcpStep ==
  ASSUME TypeOK, ProgInv, CallsInv, LinkInv, DhcpInv, [Next]_vars, use_dhcp', ~ raced'
  PROVE  DhcpOK'
<1>0. use_dhcp' = use_dhcp /\ (raced => raced')
  BY RacedKept
<1>d. use_dhcp /\ ~ raced /\ DhcpOK  BY <1>0 DEF DhcpInv
<1>1. ASSUME NEW e \in WlanEvents, WlanEvent(e)  PROVE DhcpOK'
  BY <1>d, <1>1
  DEF WlanEvent, netif, lease, looper, DhcpOK, Alive, Left, Serves, Serving, Waits, Target
<1>2. CASE Serve
  <2>1. /\ UNCHANGED <<up, link, dhcp, pc, calls, then>> /\ prog = <<>>
        /\ calls # <<>> /\ pc = "wait"
    BY <1>2, ServeFacts DEF netif, lease, looper
  <2>2. Target' = Target  BY <2>1 DEF Target, Waits
  <2>3. \A o : ~ Left(o)  BY <2>1 DEF Left, In
  <2>4. /\ Left("set_up")' => calls = BringUp1
        /\ Left("OFF")' => calls = TearDown1
        /\ calls = TearDown => Left("set_down")'
        /\ calls = StartUp => Left("SELECTING")'
        /\ Serving'
    BY <1>2, <2>1, ServeFacts DEF CallsInv, Left, Serving
  <2>5. calls # BringUp1  BY <1>d DEF CallsInv
  <2> QED
    BY <1>d, <2>1, <2>2, <2>3, <2>4, <2>5, CallFacts DEF DhcpOK, Alive, Serves, Waits
<1>3. CASE Packet
  <2>1. UNCHANGED <<up, link, dhcp, pc, calls, then>> /\ dhcp \notin Idle
    BY <1>3, PacketFacts DEF netif, looper
  <2>2. /\ ~ Serving' /\ Left("OFF")' => Left("SELECTING")'
        /\ Left("set_up")' => ~ Left("OFF")' /\ ~ Unawares
    BY <1>3, PacketFacts DEF Left, Serving
  <2>3. Left("set_up")' => ~ Waits(TearDown2) /\ ~ Waits(TearDown1)
    BY <2>2, UnawaresFacts
  <2>4. ~ Serving'  BY <1>3, PacketFacts DEF Serving
  <2>5. Alive'  BY <2>1 DEF Alive
  <2> QED  BY <1>d, <2>1, <2>2, <2>3, <2>4, <2>5 DEF DhcpOK, Serves, Waits
<1>4. CASE Step
  <2> DEFINE op == Head(prog)
  <2>1. /\ UNCHANGED <<pc, then>> /\ Target' = Target
        /\ calls' = IF op = "answer" THEN Tail(calls) ELSE calls
        /\ up' = IF op = "set_up" THEN TRUE ELSE IF op = "set_down" THEN FALSE ELSE up
        /\ dhcp' = IF op \in DhcpStates THEN op ELSE dhcp
    BY <1>4, StepFacts, StepEffect, StepTarget
  <2>2. /\ Left(op) /\ ~ Left("OFF")'
        /\ op = "answer" => ~ Serving' /\ \A o : ~ Left(o)' /\ (o # "answer" => ~ Left(o))
        /\ op # "answer" => (Serving <=> Serving')
        /\ \A o : o \notin {"UP", "DOWN"} /\ Left(o) => Left(o)' \/ op = o
        /\ \A o : o \notin {"UP", "DOWN"} /\ Left(o)' => Left(o)
    BY <1>4, StepLeft
  <2>3. op # "NULL"
    BY <1>4, TailFacts, StepFacts DEF ProgInv, Ops, DhcpStates
  <2> HIDE DEF op
  <2>4. CASE op = "answer"
    <3>1. Serving  BY <2>2, <2>4 DEF Serving, Left
    <3>2. pc = "wait" /\ calls # <<>>  BY <3>1 DEF CallsInv
    <3>3. /\ calls' # TearDown /\ calls' # StartUp
          /\ calls' = TearDown2 => calls = TearDown
          /\ calls' = TearDown1 => calls = TearDown2
      BY <2>1, <2>4, <3>2, CallFacts DEF CallsInv
    <3>4. UNCHANGED <<up, dhcp>>  BY <2>1, <2>4 DEF DhcpStates
    <3>5. Alive => Alive'  BY <2>2, <2>4, <3>4 DEF Alive
    <3>6. Waits(TearDown2)' \/ Waits(TearDown1)' => ~ up
      BY <1>d, <2>1, <2>2, <2>4, <3>1, <3>3 DEF DhcpOK, Serves, Waits
    <3>7. Target => Alive \/ (pc = "wait" /\ then = "config")
      BY <1>d, <3>1, <3>2 DEF DhcpOK, Serves
    <3> QED
      BY <1>d, <2>1, <2>2, <2>4, <3>4, <3>5, <3>6, <3>7 DEF DhcpOK, Serves
  <2>5. CASE op = "OFF"
    <3>1. UNCHANGED <<up, calls>>  BY <2>1, <2>5
    <3>2. ~ Left("set_up")  BY <1>d, <2>2, <2>5 DEF DhcpOK
    <3>3. Left("SELECTING") => Alive'  BY <2>2, <2>5 DEF Alive
    <3>4. Left("SELECTING") \/ Serves(TearDown1)  BY <1>d, <2>2, <2>5 DEF DhcpOK
    <3>5. Serves(TearDown1) => ~ up /\ ~ Target /\ ~ Serves(StartUp)
      BY <1>d, CallFacts DEF DhcpOK, LinkInv, Serves, Waits, Target
    <3>6. /\ Serving <=> Serving'
          /\ Left("set_up")' => Left("set_up")
          /\ Left("set_down") => Left("set_down")'
      BY <2>2, <2>5
    <3> QED
      BY <1>d, <2>1, <2>2, <3>1, <3>2, <3>3, <3>4, <3>5, <3>6 DEF DhcpOK, Serves, Waits
  <2>6. CASE op \in DhcpStates \ {"OFF"}
    <3>1. UNCHANGED <<up, calls>>  BY <2>1, <2>6 DEF DhcpStates
    <3>2. dhcp' \notin Idle  BY <2>1, <2>3, <2>6 DEF Idle
    <3>3. Alive'  BY <3>2 DEF Alive
    <3>4. /\ Serving <=> Serving'
          /\ Left("set_up")' => Left("set_up")
          /\ Left("set_down") => Left("set_down")'
      BY <2>2, <2>6 DEF DhcpStates
    <3> QED
      BY <1>d, <2>1, <2>2, <3>1, <3>2, <3>3, <3>4 DEF DhcpOK, Serves, Waits
  <2>7. CASE op \notin DhcpStates \cup {"answer"}
    <3>1. UNCHANGED <<dhcp, calls>>  BY <2>1, <2>7
    <3>2. /\ Serving <=> Serving'
          /\ Left("set_up")' => Left("set_up")
          /\ Left("set_down") => Left("set_down")' \/ op = "set_down"
          /\ Left("SELECTING") => Left("SELECTING")'
      BY <2>2, <2>7 DEF DhcpStates
    <3>3. Alive => Alive'  BY <3>1, <3>2 DEF Alive
    <3>4. up' => Alive'
      <4>1. CASE op = "set_up"
        BY <1>d, <2>2, <3>1, <4>1 DEF DhcpOK, Alive
      <4>2. CASE op # "set_up"
        BY <1>d, <2>1, <3>3, <4>2 DEF DhcpOK
      <4> QED  BY <4>1, <4>2
    <3>5. op = "set_up" => ~ Serving /\ ~ Waits(TearDown2) /\ ~ Waits(TearDown1)
      BY <1>d, <2>2 DEF DhcpOK
    <3> QED
      BY <1>d, <2>1, <2>2, <3>1, <3>2, <3>3, <3>4, <3>5 DEF DhcpOK, Serves, Waits
  <2> QED  BY <2>4, <2>5, <2>6, <2>7
<1>5. ASSUME UNCHANGED <<up, link, dhcp, prog>>, pc # "wait"
      PROVE  /\ ~ Serving /\ ~ Serving' /\ Target = link
             /\ Alive' <=> Alive
             /\ \A o : Left(o)' <=> Left(o)
  <2>1. ~ Serving  BY <1>5 DEF CallsInv
  <2> QED  BY <1>5, <2>1 DEF Serving, Target, Waits, Alive, Left
<1>6. CASE Recv
  <2> DEFINE m == Head(queue)
  <2>1. pc = "recv" /\ UNCHANGED <<up, link, dhcp, prog>>
    BY <1>6 DEF Recv, netif, lease
  <2>2. /\ m = "CONNECTED" /\ link => pc' = "recv"
        /\ m = "CONNECTED" /\ ~ link => pc' = "wait" /\ calls' = LinkUp /\ then' = "config"
        /\ m = "DISCONNECTED" /\ link => pc' = "wait" /\ calls' = LinkDown
        /\ m = "DISCONNECTED" /\ ~ link => pc' = "stop"
        /\ m \notin {"CONNECTED", "DISCONNECTED"} => pc' \in {"recv", "tell"}
    BY <1>6 DEF Recv, Go, Call, LinkUp, LinkDown
  <2> HIDE DEF m
  <2>3. Target' => Alive' \/ (pc' = "wait" /\ then' = "config")
    <3>1. CASE m = "CONNECTED" /\ ~ link
      BY <2>2, <3>1
    <3>2. CASE link /\ m # "DISCONNECTED"
      BY <1>d, <1>5, <2>1, <3>2, CallFacts DEF DhcpOK, Waits
    <3>3. CASE m = "DISCONNECTED"
      BY <2>1, <2>2, <3>3, CallFacts DEF Target, Waits
    <3>4. CASE ~ link /\ m # "CONNECTED"
      BY <2>1, <2>2, <3>3, <3>4 DEF Target, Waits
    <3> QED  BY <3>1, <3>2, <3>3, <3>4
  <2>4. pc' = "wait" => calls' \in {LinkUp, LinkDown}
    BY <2>2
  <2> QED
    BY <1>d, <1>5, <2>1, <2>3, <2>4, CallFacts DEF DhcpOK, Serves, Waits
<1>7. ASSUME UNCHANGED <<up, link, dhcp, prog>>, pc # "wait",
             \/ pc' = "recv" /\ (Target => Alive)
             \/ pc' = "start"
             \/ pc' = "wait" /\ calls' = StartUp
             \/ pc' = "wait" /\ calls' = TearDown /\ (Target => Alive)
      PROVE  DhcpOK'
  <2>1. Target' = Target  BY <1>7, CallFacts DEF Target, Waits
  <2> QED  BY <1>d, <1>5, <1>7, <2>1, CallFacts DEF DhcpOK, Serves, Waits
<1>8. ASSUME pc \notin {"wait", "config", "start"}
      PROVE  Target => Alive
  BY <1>d, <1>8 DEF DhcpOK, Waits
<1>9. CASE Answered /\ UNCHANGED <<use_dhcp, netif, lease, prog, past>>
  <2>1. /\ pc = "wait" /\ calls = <<>> /\ pc' = then /\ pc' # "wait" /\ pc' # "start"
        /\ UNCHANGED <<up, link, dhcp, prog, calls, then>>
    BY <1>9 DEF Answered, Go, TypeOK, netif, lease
  <2>2. Target' = Target  BY <2>1, CallFacts DEF Target, Waits
  <2>3. ~ Serving  BY <2>1 DEF CallsInv
  <2>4. Target => Alive \/ then = "config"  BY <1>d, <2>1, CallFacts DEF DhcpOK, Waits
  <2>5. /\ ~ Serving' /\ (Alive' <=> Alive)
        /\ \A o : Left(o)' <=> Left(o)
    BY <2>1, <2>3 DEF Serving, Alive, Left
  <2> QED  BY <1>d, <2>1, <2>2, <2>3, <2>4, <2>5 DEF DhcpOK, Serves, Waits
<1>10. CASE Tell /\ UNCHANGED <<use_dhcp, netif, lease, prog, past>>
  BY <1>7, <1>8, <1>10 DEF Tell, Go, netif, lease
<1>11. CASE Config /\ UNCHANGED <<use_dhcp, netif, lease, prog, past>>
  <2>1. Valid => Alive  BY <1>d DEF DhcpOK, Valid
  <2> QED  BY <1>d, <1>7, <1>11, <2>1 DEF Config, Go, netif, lease
<1>12. CASE SendSelf /\ UNCHANGED <<use_dhcp, netif, lease, prog, past>>
  BY <1>d, <1>12 DEF SendSelf, CallsInv
<1>13. CASE ConfigStart /\ UNCHANGED <<use_dhcp, netif, lease, prog, past>>
  <2>1. dhcp \notin Idle => Alive  BY DEF Alive
  <2> QED  BY <1>7, <1>13, <2>1 DEF ConfigStart, Go, Call, StartUp, netif, lease
<1>14. CASE ConfigStop /\ UNCHANGED <<use_dhcp, netif, lease, prog, past>>
  BY <1>7, <1>8, <1>14 DEF ConfigStop, Go, Call, TearDown, netif, lease
<1>15. CASE UNCHANGED vars
  BY <1>d, <1>15
  DEF vars, netif, lease, looper, DhcpOK, Alive, Left, Serves, Serving, Waits, Target
<1> QED
  BY <1>1, <1>2, <1>3, <1>4, <1>6, <1>9, <1>10, <1>11, <1>12, <1>13, <1>14, <1>15
  DEF Next, Looper, Handle


-----------------------------------------------------------------------------
(* A station with a configured address.                                    *)

LEMMA ConfInit == Init => ConfInv
<1> SUFFICES ASSUME Init  PROVE ConfOK
  BY DEF ConfInv
<1>1. /\ pc = "recv" /\ link = FALSE /\ up = FALSE /\ dhcp = "NULL" /\ prog = <<>>
  BY DEF Init
<1>2. In(prog) = {}  BY <1>1 DEF In
<1>3. Target = FALSE  BY <1>1 DEF Target, Waits
<1> QED  BY <1>1, <1>2, <1>3 DEF ConfOK, Left, Serves, Waits

LEMMA ConfStep ==
  ASSUME TypeOK, ProgInv, CallsInv, LinkInv, ConfInv, [Next]_vars, ~ use_dhcp'
  PROVE  ConfOK'
<1>0. use_dhcp' = use_dhcp  BY RacedKept
<1>d. ~ use_dhcp /\ ConfOK /\ dhcp = "NULL"  BY <1>0 DEF ConfInv, ConfOK
<1>1. ASSUME NEW e \in WlanEvents, WlanEvent(e)  PROVE ConfOK'
  BY <1>d, <1>1
  DEF WlanEvent, netif, lease, looper, ConfOK, Left, Serves, Serving, Waits, Target
<1>2. CASE Serve
  <2>1. /\ UNCHANGED <<up, link, addr, dhcp, pc, calls, then>> /\ calls # <<>> /\ pc = "wait"
    BY <1>2, ServeFacts DEF netif, lease, looper
  <2>2. Target' = Target  BY <2>1 DEF Target, Waits
  <2>3. calls \in {LinkUp, LinkDown, BringUp, BringUp1}  BY <1>d, <2>1 DEF CallsInv
  <2>4. /\ In(prog') \subseteq {"link_up", "link_down", "conf_addr", "set_up", "answer"}
        /\ "set_up" \in In(prog') => calls = BringUp1
        /\ calls = BringUp => "conf_addr" \in In(prog')
        /\ calls = BringUp1 => "set_up" \in In(prog')
        /\ "answer" \in In(prog')
    BY <1>d, <1>2, <2>3, ServeFacts DEF Idle
  <2> QED
    BY <1>d, <2>1, <2>2, <2>4 DEF ConfOK, Left, Serving, Serves, Waits
<1>3. CASE Packet
  BY <1>d, <1>3, PacketFacts DEF Idle
<1>4. CASE Step
  <2> DEFINE op == Head(prog)
  <2>1. /\ UNCHANGED <<pc, then>> /\ Target' = Target
        /\ calls' = IF op = "answer" THEN Tail(calls) ELSE calls
        /\ up' = IF op = "set_up" THEN TRUE ELSE IF op = "set_down" THEN FALSE ELSE up
        /\ dhcp' = IF op \in DhcpStates THEN op ELSE dhcp
        /\ op \notin {"take_addr", "no_addr", "conf_addr"} => addr' = addr
        /\ op = "conf_addr" => addr' \in Addrs
    BY <1>4, StepFacts, StepEffect, StepTarget
  <2>2. /\ Left(op)
        /\ op = "answer" => ~ Serving' /\ \A o : ~ Left(o)'
        /\ op # "answer" => (Serving <=> Serving')
        /\ \A o : o \notin {"UP", "DOWN"} /\ Left(o) => Left(o)' \/ op = o
        /\ \A o : o \notin {"UP", "DOWN"} /\ Left(o)' => Left(o)
    BY <1>4, StepLeft
  <2> HIDE DEF op
  <2>3. op \in {"link_up", "link_down", "conf_addr", "set_up", "UP", "DOWN", "answer"}
    BY <1>d, <2>2 DEF ConfOK, Left
  <2>4. /\ dhcp' = dhcp
        /\ up' = IF op = "set_up" THEN TRUE ELSE up
        /\ addr' = addr \/ (op = "conf_addr" /\ addr' # NoAddr)
    BY <2>1, <2>3, NetCtrlAssumption DEF DhcpStates, NetCtrlAssumption
  <2>5. In(prog') \subseteq {"link_up", "link_down", "conf_addr", "set_up", "UP", "DOWN", "answer"}
    BY <1>d, <2>2 DEF ConfOK, Left
  <2>6. addr # NoAddr => addr' # NoAddr
    BY <2>4
  <2>7. up' => addr' # NoAddr
    BY <1>d, <2>2, <2>4, <2>6 DEF ConfOK, Serves
  <2>8. CASE op = "answer"
    <3>1. Serving  BY <2>2, <2>8 DEF Serving, Left
    <3>2. pc = "wait" /\ calls # <<>>  BY <3>1 DEF CallsInv
    <3>3. ~ Left("conf_addr") /\ ~ Left("set_up")
      BY <2>2, <2>8
    <3>4. /\ calls' = BringUp1 => calls = BringUp
          /\ calls = BringUp => calls' = BringUp1
      BY <1>d, <2>1, <2>8, <3>2, CallFacts DEF CallsInv
    <3>5. Waits(BringUp1)' => addr' # NoAddr
      BY <1>d, <2>1, <2>6, <3>1, <3>3, <3>4 DEF ConfOK, Serves, Waits
    <3>6. Target' => up' \/ (pc' = "wait" /\ then' = "config") \/ Waits(BringUp1)'
      BY <1>d, <2>1, <2>4, <2>8, <3>1, <3>2, <3>3, <3>4 DEF ConfOK, Serves, Waits
    <3> QED
      BY <1>d, <2>1, <2>2, <2>4, <2>5, <2>7, <2>8, <3>5, <3>6 DEF ConfOK, Serves
  <2>9. CASE op # "answer"
    <3>1. calls' = calls /\ (Serving <=> Serving')  BY <2>1, <2>2, <2>9
    <3>2. Left("set_up")' => Left("set_up")  BY <2>2
    <3>3. Left("conf_addr") => Left("conf_addr")' \/ addr' # NoAddr
      BY <2>1, <2>2, NetCtrlAssumption DEF NetCtrlAssumption
    <3>4. Left("set_up") => Left("set_up")' \/ up'
      BY <2>2, <2>4
    <3>5. up => up'  BY <2>4
    <3> QED
      BY <1>d, <2>1, <2>4, <2>5, <2>6, <2>7, <3>1, <3>2, <3>3, <3>4, <3>5
      DEF ConfOK, Serves, Waits
  <2> QED  BY <2>8, <2>9
<1>5. CASE Recv
  <2> DEFINE m == Head(queue)
  <2>1. pc = "recv" /\ UNCHANGED <<up, addr, link, dhcp, prog>>
    BY <1>5 DEF Recv, netif, lease
  <2>2. /\ m = "CONNECTED" /\ link => pc' = "recv"
        /\ m = "CONNECTED" /\ ~ link => pc' = "wait" /\ calls' = LinkUp /\ then' = "config"
        /\ m = "DISCONNECTED" /\ link => pc' = "wait" /\ calls' = LinkDown
        /\ m = "DISCONNECTED" /\ ~ link => pc' = "stop"
        /\ m \notin {"CONNECTED", "DISCONNECTED"} => pc' \in {"recv", "tell"}
    BY <1>5 DEF Recv, Go, Call, LinkUp, LinkDown
  <2> HIDE DEF m
  <2>3. Target' => up \/ (pc' = "wait" /\ then' = "config")
    <3>1. CASE m = "CONNECTED" /\ ~ link
      BY <2>2, <3>1
    <3>2. CASE link
      BY <1>d, <2>1, <3>2 DEF ConfOK, Waits, Target
    <3>3. CASE ~ link /\ m # "CONNECTED"
      BY <2>1, <2>2, <3>3 DEF Target, Waits
    <3> QED  BY <3>1, <3>2, <3>3
  <2>4. pc' = "wait" => calls' \in {LinkUp, LinkDown}
    BY <2>2
  <2>5. ~ Serving /\ ~ Serving' /\ ~ Left("set_up")'
    <3>1. ~ Serving  BY <2>1 DEF CallsInv
    <3>2. ~ Left("set_up")  BY <1>d, <3>1 DEF ConfOK, Serves
    <3> QED  BY <2>1, <3>1, <3>2 DEF Serving, Left
  <2> QED
    BY <1>d, <2>1, <2>3, <2>4, <2>5, CallFacts DEF ConfOK, Serves, Waits
<1>6. ASSUME UNCHANGED <<up, addr, link, dhcp, prog>>, pc # "wait",
             \/ pc' # "wait" /\ (Target => up)
             \/ pc' = "wait" /\ calls' = BringUp
      PROVE  ConfOK'
  <2>1. Target' = Target  BY <1>6, CallFacts DEF Target, Waits
  <2>2. ~ Serving /\ ~ Serving' /\ ~ Left("set_up")'
    <3>1. ~ Serving  BY <1>6 DEF CallsInv
    <3>2. ~ Left("set_up")  BY <1>d, <3>1 DEF ConfOK, Serves
    <3> QED  BY <1>6, <3>1, <3>2 DEF Serving, Left
  <2> QED  BY <1>d, <1>6, <2>1, <2>2, CallFacts DEF ConfOK, Serves, Waits
<1>7. ASSUME pc \notin {"wait", "config"}
      PROVE  Target => up
  BY <1>d, <1>7 DEF ConfOK, Waits
<1>8. CASE Answered /\ UNCHANGED <<use_dhcp, netif, lease, prog, past>>
  <2>1. /\ pc = "wait" /\ calls = <<>> /\ pc' = then /\ pc' # "wait"
        /\ UNCHANGED <<up, addr, link, dhcp, prog, calls, then>>
    BY <1>8 DEF Answered, Go, TypeOK, netif, lease
  <2>2. Target' = Target  BY <2>1, CallFacts DEF Target, Waits
  <2>3. Target => up \/ then = "config"  BY <1>d, <2>1, CallFacts DEF ConfOK, Waits
  <2>4. ~ Left("set_up")'
    <3>1. ~ Left("set_up")  BY <1>d, <2>1, CallFacts DEF ConfOK, Serves, Waits
    <3> QED  BY <2>1, <3>1 DEF Left
  <2> QED  BY <1>d, <2>1, <2>2, <2>3, <2>4 DEF ConfOK, Serves, Waits
<1>9. CASE Tell /\ UNCHANGED <<use_dhcp, netif, lease, prog, past>>
  BY <1>6, <1>7, <1>9 DEF Tell, Go, netif, lease
<1>10. CASE Config /\ UNCHANGED <<use_dhcp, netif, lease, prog, past>>
  BY <1>d, <1>6, <1>10 DEF Config, Valid, Go, Call, BringUp, netif, lease
<1>11. CASE SendSelf /\ UNCHANGED <<use_dhcp, netif, lease, prog, past>>
  BY <1>6, <1>7, <1>11 DEF SendSelf, Go, netif, lease
<1>12. CASE ConfigStart /\ UNCHANGED <<use_dhcp, netif, lease, prog, past>>
  BY <1>d, <1>12 DEF ConfigStart, CallsInv
<1>13. CASE ConfigStop /\ UNCHANGED <<use_dhcp, netif, lease, prog, past>>
  BY <1>d, <1>6, <1>7, <1>13 DEF ConfigStop, Go, Idle, netif, lease
<1>14. CASE UNCHANGED vars
  BY <1>d, <1>14
  DEF vars, netif, lease, looper, ConfOK, Left, Serves, Serving, Waits, Target
<1> QED
  BY <1>1, <1>2, <1>3, <1>4, <1>5, <1>8, <1>9, <1>10, <1>11, <1>12, <1>13, <1>14
  DEF Next, Looper, Handle

-----------------------------------------------------------------------------
(* The interface follows the wlan.                                         *)

THEOREM InvCorrect == Spec => []IInv
<1>1. Init => IInv
  BY CallsInit, LinkInit, DhcpInit, ConfInit DEF IInv
<1>2. TypeOK /\ IInv /\ [Next]_vars => IInv'
  <2> SUFFICES ASSUME TypeOK, IInv, [Next]_vars  PROVE IInv'
    OBVIOUS
  <2>1. ProgInv /\ CallsInv /\ LinkInv /\ DhcpInv /\ ConfInv  BY DEF IInv
  <2>2. ProgInv' /\ CallsInv'  BY <2>1, CallsStep
  <2>3. LinkInv'  BY <2>1, LinkStep
  <2>4. DhcpInv'  BY <2>1, DhcpStep DEF DhcpInv
  <2>5. ConfInv'  BY <2>1, ConfStep DEF ConfInv
  <2> QED  BY <2>2, <2>3, <2>4, <2>5 DEF IInv
<1> QED  BY <1>1, <1>2, TypeCorrect, PTL DEF Spec

(* However events and leases cross: once all is handled the link is what   *)
(* the wlan said last, and a connected station has its address or runs     *)
(* DHCP, but for a lease that was bound unawares.                          *)
THEOREM FollowsWlanCorrect == Spec => []FollowsWlan
<1>1. TypeOK /\ IInv => FollowsWlan
  <2> SUFFICES ASSUME TypeOK, IInv, AtRest
               PROVE  /\ link = assoc
                      /\ assoc /\ ~ raced => IF use_dhcp THEN dhcp \notin Idle ELSE Valid
    BY DEF FollowsWlan
  <2>1. pc = "recv" /\ Len(queue) = 0 /\ prog = <<>>  BY DEF AtRest
  <2>2. Target = link  BY <2>1 DEF Target, Waits
  <2>3. assoc = Target
    <3>1. \A i \in 1..Len(queue) : FALSE  BY <2>1
    <3>2. Word(assoc) = Word(Target)  BY <3>1 DEF IInv, LinkInv, SaidLast, LastOf
    <3> QED  BY <3>2, TargetType DEF TypeOK, Word
  <2>4. ~ Left("SELECTING")  BY <2>1 DEF Left, In
  <2>5. ASSUME assoc, ~ raced, use_dhcp  PROVE dhcp \notin Idle
    <3>1. Target /\ DhcpOK  BY <2>3, <2>5 DEF IInv, DhcpInv
    <3> QED  BY <2>1, <2>4, <3>1 DEF DhcpOK, Alive, Waits
  <2>6. ASSUME assoc, ~ use_dhcp  PROVE Valid
    <3>1. Target /\ ConfOK  BY <2>3, <2>6 DEF IInv, ConfInv
    <3> QED  BY <2>1, <3>1 DEF ConfOK, Valid, Waits
  <2> QED  BY <2>2, <2>3, <2>5, <2>6
<1> QED  BY <1>1, TypeCorrect, InvCorrect, PTL


-----------------------------------------------------------------------------
(* The address while the interface is up.                                  *)

LEMMA LeaseInit == Init => LeaseInv /\ StaysInv
<1> SUFFICES ASSUME Init  PROVE LeaseOK /\ StaysInv
  BY DEF LeaseInv
<1>1. pc = "recv" /\ up = FALSE /\ prog = <<>>  BY DEF Init
<1>2. In(prog) = {}  BY <1>1 DEF In
<1> QED  BY <1>1, <1>2 DEF LeaseOK, StaysInv, Left, Waits

\* Packets and timeouts that come while the interface has its lease.
LEMMA PacketUp ==
  ASSUME Packet
  PROVE  /\ dhcp \in {"BOUND", "RENEWING", "REBINDING"} =>
              /\ offered' = offered
              /\ \A o \in Downs : o \in In(prog') => "set_down" \in In(prog')
         /\ "set_up" \in In(prog') => In(prog') = {"take_addr", "set_up", "BOUND"}
         /\ "take_addr" \in In(prog') => "set_up" \in In(prog')
<1>1. \/ prog' \in {Bind, HandleNak, ReleaseDiscover}
      \/ prog' \in {<<"REQUESTING">>, <<"CHECKING">>, <<"BACKING_OFF">>, <<"SELECTING">>}
         /\ dhcp \notin {"BOUND", "RENEWING", "REBINDING"}
      \/ prog' \in {<<"RENEWING">>, <<"REBINDING">>}
  BY DEF Packet, Offer, Ack, BindNow, Nak, ArpReply, Timeout, LeaseTimeout, Start, Discover
<1>2. dhcp \in {"BOUND", "RENEWING", "REBINDING"} => offered' = offered
  BY DEF Packet, Offer, Ack, BindNow, Nak, ArpReply, Timeout, LeaseTimeout
<1>3. CASE prog' \in {Bind, HandleNak, ReleaseDiscover}
  BY <1>2, <1>3, BindFacts, HandleNakFacts, ReleaseDiscoverFacts DEF Downs
<1>4. CASE prog' \in {<<"REQUESTING">>, <<"CHECKING">>, <<"BACKING_OFF">>, <<"SELECTING">>}
           /\ dhcp \notin {"BOUND", "RENEWING", "REBINDING"}
  <2>1. PICK o \in {"REQUESTING", "CHECKING", "BACKING_OFF", "SELECTING"} : prog' = <<o>>
    BY <1>4
  <2>2. o \in Ops  BY <2>1 DEF Ops, DhcpStates
  <2>3. In(prog') = {o}  BY <2>1, <2>2, OneFacts
  <2> QED  BY <1>4, <2>1, <2>3
<1>5. CASE prog' \in {<<"RENEWING">>, <<"REBINDING">>}
  <2>1. PICK o \in {"RENEWING", "REBINDING"} : prog' = <<o>>
    BY <1>5
  <2>2. o \in Ops  BY <2>1 DEF Ops, DhcpStates
  <2>3. In(prog') = {o}  BY <2>1, <2>2, OneFacts
  <2> QED  BY <1>2, <2>1, <2>3 DEF Downs
<1> QED  BY <1>1, <1>3, <1>4, <1>5

\* One step, to the extent these proofs need it.
LEMMA StepOrder ==
  ASSUME ProgInv, Step
  PROVE  LET op == Head(prog) IN
         /\ op \in Ops /\ ~ Left("take_addr")'
         /\ Left("set_down")' => op \in Before
         /\ op = "BOUND" => ~ Left("set_up") /\ ~ Left("take_addr")
         /\ Left("take_addr") => op = "take_addr"
         /\ Left("UP") => op = "UP"
         /\ Left("DOWN") => op = "DOWN"
<1>1. In(<<>>) = {}  BY DEF In
<1>2. Head(prog) = "BOUND" => Tail(prog) = <<>>  BY StepFacts DEF Last
<1>3. Head(prog) \in Ops  BY StepFacts, TailFacts DEF ProgInv
<1> QED  BY <1>1, <1>2, <1>3, StepFacts DEF Left

LEMMA LeaseStep ==
  ASSUME TypeOK, ProgInv, CallsInv, LinkInv, DhcpInv, LeaseInv, [Next]_vars,
         use_dhcp', ~ raced'
  PROVE  LeaseOK'
<1>0. use_dhcp' = use_dhcp /\ (raced => raced')
  BY RacedKept
<1>d. use_dhcp /\ ~ raced /\ DhcpOK /\ LeaseOK  BY <1>0 DEF DhcpInv, LeaseInv
<1>1. ASSUME UNCHANGED <<up, addr, dhcp, offered, prog>>,
             pc' = "wait" /\ calls' = StartUp => Waits(StartUp)
      PROVE  LeaseOK'
  BY <1>d, <1>1 DEF LeaseOK, Left, Waits
<1>2. ASSUME NEW e \in WlanEvents, WlanEvent(e)  PROVE LeaseOK'
  BY <1>1, <1>2 DEF WlanEvent, netif, lease, looper, Waits
<1>3. CASE Serve
  <2>1. /\ UNCHANGED <<up, addr, dhcp, offered, pc, calls>> /\ prog = <<>>
        /\ calls # <<>> /\ pc = "wait"
    BY <1>3, ServeFacts DEF netif, lease, looper
  <2>2. \A o : ~ Left(o)  BY <2>1 DEF Left, In
  <2>3. up => addr = offered /\ dhcp \in {"BOUND", "RENEWING", "REBINDING"}
    BY <1>d, <2>2 DEF LeaseOK
  <2>4. up => calls \notin {StartUp, TearDown2, TearDown1}
    BY <1>d, <2>1, <2>2 DEF LeaseOK, DhcpOK, Waits
  <2>5. calls \notin {BringUp, BringUp1}  BY <1>d DEF CallsInv
  <2>6. /\ "set_up" \notin In(prog') /\ "take_addr" \notin In(prog')
        /\ up => \A o \in Downs : o \in In(prog') => "set_down" \in In(prog')
    <3>1. calls \in {LinkUp, LinkDown, StartUp, TearDown, TearDown2, TearDown1}
      BY <2>1, <2>5 DEF CallsInv
    <3>2. CASE calls = LinkUp
      BY <1>3, <2>3, <3>2, ServeFacts DEF Held
    <3>3. CASE calls \in {LinkDown, TearDown}
      BY <1>3, <3>3, ServeFacts DEF Downs
    <3>4. CASE calls \in {StartUp, TearDown2, TearDown1}
      BY <1>3, <2>4, <3>4, ServeFacts
    <3> QED  BY <3>1, <3>2, <3>3, <3>4
  <2>7. Waits(StartUp)' => ~ up'  BY <2>1, <2>4 DEF Waits
  <2> QED  BY <2>1, <2>3, <2>6, <2>7 DEF LeaseOK, Left
<1>4. CASE Packet
  <2>1. /\ UNCHANGED <<up, addr, dhcp, pc, calls>> /\ prog = <<>>
    BY <1>4, PacketFacts DEF netif, looper
  <2>2. \A o : ~ Left(o)  BY <2>1 DEF Left, In
  <2>3. up => addr = offered /\ dhcp \in {"BOUND", "RENEWING", "REBINDING"}
    BY <1>d, <2>2 DEF LeaseOK
  <2>4. /\ up => offered' = offered
        /\ up => \A o \in Downs : o \in In(prog') => "set_down" \in In(prog')
        /\ "set_up" \in In(prog') => In(prog') = {"take_addr", "set_up", "BOUND"}
        /\ "take_addr" \in In(prog') => "set_up" \in In(prog')
    BY <1>4, <2>3, PacketUp
  <2>5. Waits(StartUp) => ~ up  BY <1>d, <2>2 DEF LeaseOK
  <2>6. Waits(StartUp) => "set_up" \notin In(prog')
    <3>1. StartUp[1] = "dhcp_start"  BY DEF StartUp
    <3>2. Waits(StartUp) => Unawares  BY <3>1, CallFacts DEF Waits, Unawares
    <3> QED  BY <1>4, <3>2, PacketFacts
  <2>7. Waits(StartUp)' <=> Waits(StartUp)  BY <2>1 DEF Waits
  <2>8. "set_up" \in In(prog') => /\ "BOUND" \in In(prog') /\ "take_addr" \in In(prog')
                                 /\ \A o \in Downs \cup {"set_down"} : o \notin In(prog')
    BY <2>4 DEF Downs
  <2> QED  BY <2>1, <2>3, <2>4, <2>5, <2>6, <2>7, <2>8 DEF LeaseOK, Left
<1>5. CASE Step
  <2> DEFINE op == Head(prog)
  <2>1. /\ UNCHANGED pc
        /\ calls' = IF op = "answer" THEN Tail(calls) ELSE calls
        /\ up' = IF op = "set_up" THEN TRUE ELSE IF op = "set_down" THEN FALSE ELSE up
        /\ dhcp' = IF op \in DhcpStates THEN op ELSE dhcp
        /\ op \notin {"take_addr", "no_addr", "conf_addr"} => addr' = addr
        /\ op = "take_addr" => addr' = offered
        /\ op \notin {"SELECTING", "OFF"} => offered' = offered
    BY <1>5, StepFacts, StepEffect
  <2>2. /\ Left(op)
        /\ op = "answer" => \A o : ~ Left(o)' /\ (o # "answer" => ~ Left(o))
        /\ \A o : o \notin {"UP", "DOWN"} /\ Left(o) => Left(o)' \/ op = o
        /\ \A o : o \notin {"UP", "DOWN"} /\ Left(o)' => Left(o)
    BY <1>5, StepLeft
  <2>3. /\ op \in Ops /\ ~ Left("take_addr")'
        /\ Left("set_down")' => op \in Before
        /\ op = "BOUND" => ~ Left("set_up") /\ ~ Left("take_addr")
        /\ Left("take_addr") => op = "take_addr"
    BY <1>5, StepOrder
  <2> HIDE DEF op
  <2>4. op # "conf_addr"
    BY <1>d, <2>2, CallFacts DEF CallsInv, Serves, Waits
  <2>5. Waits(StartUp)' => Waits(StartUp)
    <3>1. CASE op = "answer"
      <4>1. calls # <<>>  BY <2>2, <3>1 DEF CallsInv, Left, Serving
      <4>2. calls' # StartUp  BY <2>1, <3>1, <4>1, CallFacts DEF CallsInv
      <4> QED  BY <4>2 DEF Waits
    <3>2. CASE op # "answer"  BY <2>1, <3>2 DEF Waits
    <3> QED  BY <3>1, <3>2
  <2>6. CASE op \in {"set_up", "take_addr"}
    <3>1. /\ Left("set_up") /\ Left("BOUND")
          /\ \A o \in Downs \cup {"set_down"} : ~ Left(o)
      BY <1>d, <2>2, <2>6 DEF LeaseOK
    <3>2. addr' = offered /\ offered' = offered
      BY <1>d, <2>1, <2>3, <2>6, <3>1 DEF LeaseOK
    <3>3. Left("BOUND")'  BY <2>2, <2>6, <3>1
    <3>4. \A o \in Downs \cup {"set_down"} : ~ Left(o)'
      BY <2>2, <3>1 DEF Downs
    <3>5. ~ Waits(StartUp)  BY <1>d, <3>1 DEF LeaseOK
    <3> QED  BY <2>3, <2>5, <3>2, <3>3, <3>4, <3>5 DEF LeaseOK
  <2>7. CASE op = "set_down"
    <3>1. ~ up' /\ ~ Left("set_up")
      BY <1>d, <2>1, <2>2, <2>7 DEF LeaseOK
    <3> QED  BY <2>2, <2>3, <2>5, <3>1 DEF LeaseOK
  <2>8. CASE op = "no_addr" \/ op \in Downs \ {"OFF"}
    <3>1. op \notin Before /\ op \in Downs /\ op # "set_down"
      BY <2>8 DEF Before, Notes, Downs
    <3>2. ~ Left("set_down")  BY <2>2, <2>3, <3>1
    <3>3. ~ up /\ ~ Left("set_up")  BY <1>d, <2>2, <3>1, <3>2 DEF LeaseOK
    <3>4. ~ up'  BY <2>1, <2>8, <3>3 DEF Downs
    <3>5. ~ Left("set_up")'  BY <2>2, <3>3
    <3> QED  BY <2>3, <2>5, <3>4, <3>5 DEF LeaseOK
  <2>9. CASE op = "OFF"
    <3>1. ~ Left("set_up")  BY <1>d, <2>2, <2>9 DEF LeaseOK, Downs
    <3>2. up => Left("set_down")  BY <1>d, <2>2, <2>9 DEF LeaseOK, Downs
    <3>3. up' = up  BY <2>1, <2>9
    <3>4. ~ Left("set_up")' /\ (Left("set_down") => Left("set_down")')
      BY <2>2, <2>9, <3>1
    <3> QED  BY <2>3, <3>2, <3>3, <3>4 DEF LeaseOK
  <2>10. CASE op = "BOUND"
    <3>1. UNCHANGED <<up, addr, offered>> /\ dhcp' = "BOUND"  BY <2>1, <2>10 DEF DhcpStates
    <3>2. ~ Left("set_up")'  BY <2>2, <2>3, <2>10
    <3>3. /\ \A o \in Downs : Left(o)' => Left(o)
          /\ Left("set_down") => Left("set_down")'
      BY <2>2, <2>10 DEF Downs
    <3> QED  BY <1>d, <2>3, <2>5, <3>1, <3>2, <3>3 DEF LeaseOK
  <2>11. CASE op \in {"RENEWING", "REBINDING", "link_up", "link_down", "UP", "DOWN"}
    <3>1. UNCHANGED <<up, addr, offered>> /\ (dhcp' = dhcp \/ dhcp' \in {"RENEWING", "REBINDING"})
      BY <2>1, <2>11 DEF DhcpStates
    <3>2. /\ \A o \in Downs \cup {"set_down"} : Left(o)' => Left(o)
          /\ \A o \in {"set_up", "set_down", "BOUND"} : Left(o)' <=> Left(o)
          /\ ~ Left("take_addr")
      BY <2>2, <2>3, <2>11 DEF Downs
    <3> QED  BY <1>d, <2>3, <2>5, <3>1, <3>2 DEF LeaseOK
  <2>12. CASE op = "answer"
    <3>1. UNCHANGED <<up, addr, offered, dhcp>>  BY <2>1, <2>12 DEF DhcpStates
    <3>2. \A o : ~ Left(o)' /\ (o # "answer" => ~ Left(o))  BY <2>2, <2>12
    <3> QED  BY <1>d, <2>5, <3>1, <3>2 DEF LeaseOK
  <2>13. op \in {"set_up", "take_addr", "set_down", "no_addr", "OFF", "BOUND", "RENEWING",
                 "REBINDING", "link_up", "link_down", "UP", "DOWN", "answer"}
                \cup Downs
    BY <2>3, <2>4 DEF Ops, DhcpStates, Downs
  <2> QED  BY <2>6, <2>7, <2>8, <2>9, <2>10, <2>11, <2>12, <2>13
<1>6. CASE Recv
  BY <1>1, <1>6, CallFacts DEF Recv, Go, Call, LinkUp, LinkDown, StartUp, netif, lease, Waits
<1>7. CASE (Answered \/ Tell \/ SendSelf) /\ UNCHANGED <<use_dhcp, netif, lease, prog, past>>
  BY <1>1, <1>7 DEF Answered, Tell, SendSelf, Go, netif, lease, TypeOK
<1>8. CASE Config /\ UNCHANGED <<use_dhcp, netif, lease, prog, past>>
  BY <1>d, <1>1, <1>8 DEF Config, Go, netif, lease
<1>9. CASE ConfigStop /\ UNCHANGED <<use_dhcp, netif, lease, prog, past>>
  BY <1>1, <1>9, CallFacts DEF ConfigStop, Go, Call, TearDown, netif, lease
<1>10. CASE ConfigStart /\ UNCHANGED <<use_dhcp, netif, lease, prog, past>>
  <2>1. UNCHANGED <<up, addr, dhcp, offered, prog>>  BY <1>10 DEF netif, lease
  <2>2. CASE dhcp \in Idle
    <3>1. ~ Left("set_up")  BY <1>d, <2>2 DEF DhcpOK
    <3>2. up => Left("set_down")
      BY <1>d, <2>2 DEF DhcpOK, LeaseOK, Alive, Downs
    <3> QED  BY <1>d, <2>1, <3>1, <3>2 DEF LeaseOK, Left
  <2>3. CASE dhcp \notin Idle
    BY <1>1, <1>10, <2>1, <2>3 DEF ConfigStart, Go
  <2> QED  BY <2>2, <2>3
<1>11. CASE UNCHANGED vars
  BY <1>1, <1>11 DEF vars, netif, lease, looper, Waits
<1> QED
  BY <1>2, <1>3, <1>4, <1>5, <1>6, <1>7, <1>8, <1>9, <1>10, <1>11 DEF Next, Looper, Handle

LEMMA StaysStep ==
  ASSUME TypeOK, ProgInv, CallsInv, ConfInv, StaysInv, [Next]_vars, ~ use_dhcp'
  PROVE  (Waits(BringUp) => ~ up)' /\ (pc = "send" => Valid)'
<1>0. use_dhcp' = use_dhcp  BY RacedKept
<1>d. /\ ~ use_dhcp /\ ConfOK /\ dhcp = "NULL"
      /\ Waits(BringUp) => ~ up
      /\ pc = "send" => Valid
  BY <1>0 DEF ConfInv, StaysInv, ConfOK
<1>1. ASSUME UNCHANGED <<up, addr>>,
             pc' = "wait" /\ calls' = BringUp => Waits(BringUp) \/ ~ up,
             pc' = "send" => pc = "send" \/ Valid
      PROVE  (Waits(BringUp) => ~ up)' /\ (pc = "send" => Valid)'
  BY <1>d, <1>1 DEF Waits, Valid
<1>2. ASSUME NEW e \in WlanEvents, WlanEvent(e)
      PROVE  (Waits(BringUp) => ~ up)' /\ (pc = "send" => Valid)'
  BY <1>1, <1>2 DEF WlanEvent, netif, looper, Waits
<1>3. CASE Serve
  BY <1>1, <1>3, ServeFacts DEF netif, looper, Waits
<1>4. CASE Packet
  BY <1>d, <1>4, PacketFacts DEF Idle
<1>5. CASE Step
  <2> DEFINE op == Head(prog)
  <2>1. /\ UNCHANGED pc
        /\ calls' = IF op = "answer" THEN Tail(calls) ELSE calls
        /\ up' = IF op = "set_up" THEN TRUE ELSE IF op = "set_down" THEN FALSE ELSE up
        /\ op \notin {"take_addr", "no_addr", "conf_addr"} => addr' = addr
        /\ op = "conf_addr" => addr' \in Addrs
    BY <1>5, StepFacts, StepEffect
  <2>2. Left(op)  BY <1>5, StepLeft
  <2> HIDE DEF op
  <2>3. op \in {"link_up", "link_down", "conf_addr", "set_up", "UP", "DOWN", "answer"}
    BY <1>d, <2>2 DEF ConfOK, Left
  <2>4. Waits(BringUp)' => ~ up'
    <3>1. CASE op = "answer"
      <4>1. calls # <<>>  BY <2>2, <3>1 DEF CallsInv, Left, Serving
      <4>2. calls' # BringUp  BY <2>1, <3>1, <4>1, CallFacts DEF CallsInv
      <4> QED  BY <4>2 DEF Waits
    <3>2. CASE op = "set_up"
      BY <1>d, <2>1, <2>2, <3>2, CallFacts DEF ConfOK, Serves, Waits
    <3>3. CASE op \notin {"answer", "set_up"}
      BY <1>d, <2>1, <2>3, <3>3 DEF Waits
    <3> QED  BY <3>1, <3>2, <3>3
  <2>5. Valid => Valid'
    BY <2>1, <2>3, NetCtrlAssumption DEF Valid, NetCtrlAssumption
  <2> QED  BY <1>d, <2>1, <2>4, <2>5
<1>6. CASE Recv
  BY <1>1, <1>6, CallFacts DEF Recv, Go, Call, LinkUp, LinkDown, netif
<1>7. CASE (Answered \/ Tell \/ SendSelf) /\ UNCHANGED <<use_dhcp, netif, lease, prog, past>>
  BY <1>1, <1>7 DEF Answered, Tell, SendSelf, Go, netif, TypeOK
<1>8. CASE Config /\ UNCHANGED <<use_dhcp, netif, lease, prog, past>>
  <2>1. ~ Valid => ~ up  BY <1>d DEF ConfOK, Valid
  <2> QED  BY <1>d, <1>1, <1>8, <2>1 DEF Config, Go, Call, netif
<1>9. CASE (ConfigStart \/ ConfigStop) /\ UNCHANGED <<use_dhcp, netif, lease, prog, past>>
  BY <1>1, <1>9, CallFacts DEF ConfigStart, ConfigStop, Go, Call, TearDown, StartUp, netif
<1>10. CASE UNCHANGED vars
  BY <1>1, <1>10 DEF vars, netif, looper, Waits
<1> QED
  BY <1>2, <1>3, <1>4, <1>5, <1>6, <1>7, <1>8, <1>9, <1>10 DEF Next, Looper, Handle


-----------------------------------------------------------------------------
(* What is said of the interface.                                          *)

LEMMA LastNew ==
  ASSUME NEW q \in Seq(Messages), NEW S, NEW d, NEW m \in Messages, m \in S
  PROVE  LastOf(Append(q, m), S, m, d)
<1> DEFINE r == Append(q, m)
<1>1. /\ Len(r) = Len(q) + 1 /\ Len(q) \in Nat /\ r[Len(r)] = m
  OBVIOUS
<1>2. Len(r) \in 1..Len(r) /\ \A i \in 1..Len(r) : i = Len(r) \/ Len(r) > i
  BY <1>1
<1> HIDE DEF r
<1>3. LastOf(r, S, m, d)  BY <1>1, <1>2 DEF LastOf
<1> QED  BY <1>3 DEF r

LEMMA NoteInit == Init => NoteInv /\ ToldInv
<1> SUFFICES ASSUME Init  PROVE NoteInv /\ ToldInv
  OBVIOUS
<1>1. up = FALSE /\ prog = <<>> /\ note = "DOWN" /\ Len(queue) = 0  BY DEF Init
<1>2. In(prog) = {}  BY <1>1 DEF In
<1>3. ~ Valid /\ Truth = "DOWN"  BY <1>1 DEF Valid, Truth
<1>4. LastOf(queue, Notes, Truth, note)
  <2>1. \A i \in 1..Len(queue) : FALSE  BY <1>1
  <2> QED  BY <1>1, <1>3, <2>1 DEF LastOf
<1> QED  BY <1>2, <1>3, <1>4 DEF NoteInv, ToldInv, Left

\* What a step tells.
LEMMA StepNotes ==
  ASSUME ProgInv, Step
  PROVE  LET op == Head(prog)
             turns == op \in {"set_up", "set_down"} /\ up' # up
         IN  /\ turns => Left(Truth)' /\ \A n \in Notes : Left(n)' => n = Truth'
             /\ ~ turns => Quiet' /\ told' = told
             /\ op \in Notes => queue' = Append(queue, op)
             /\ op \notin Notes => queue' = queue
<1> DEFINE op == Head(prog)
           turns == op \in {"set_up", "set_down"} /\ up' # up
<1>1. /\ prog # <<>> /\ Tail(prog) \in Seq(Ops) /\ Neat(Tail(prog))
      /\ \A o \in First : o \notin In(Tail(prog))
  BY TailFacts DEF Step, ProgInv
<1>2. op \in Notes => queue' = Append(queue, op)
  BY StepEffect DEF Notes
<1>3. op \notin Notes => queue' = queue
  BY StepEffect DEF Notes
<1>4. CASE turns
  <2>1. prog' = <<Truth'>> \o Tail(prog)
    <3>1. CASE op = "set_up"
      <4>1. SetFlag(TRUE)  BY <3>1 DEF Step, DhcpStates
      <4> QED  BY <1>4, <4>1 DEF SetFlag, StatusCallback, Truth, Valid
    <3>2. CASE op = "set_down"
      <4>1. SetFlag(FALSE)  BY <3>2 DEF Step, DhcpStates
      <4> QED  BY <1>4, <4>1 DEF SetFlag, StatusCallback, Truth, Valid
    <3> QED  BY <1>4, <3>1, <3>2
  <2>2. Truth' \in Notes  BY DEF Truth, Notes
  <2>3. In(prog') = {Truth'} \cup In(Tail(prog))
    BY <1>1, <2>1, <2>2, PutFacts
  <2>4. \A n \in Notes : n \notin In(Tail(prog))  BY <1>1 DEF First
  <2> QED  BY <1>2, <1>3, <1>4, <2>3, <2>4 DEF Left
<1>5. CASE ~ turns
  <2>1. prog' = Tail(prog) /\ told' = told
    BY <1>5 DEF Step, SetFlag, SetLink, SetAddr, SetState, SendNote, Answer
  <2>2. Quiet'  BY <1>1, <2>1 DEF First, Notes, Quiet, Left
  <2> QED  BY <1>2, <1>3, <1>5, <2>1, <2>2
<1> QED  BY <1>4, <1>5

\* The address of an interface that is up stays until it is taken down.
LEMMA StepValid ==
  ASSUME TypeOK, ProgInv, CallsInv, ConfInv, LeaseInv, StaysInv, Step, ~ raced
  PROVE  LET op == Head(prog) IN
         \/ op \in {"set_up", "set_down"} /\ up' # up
         \/ Valid' = Valid /\ (Valid => addr' = addr)
<1> DEFINE op == Head(prog)
<1>1. /\ up' = IF op = "set_up" THEN TRUE ELSE IF op = "set_down" THEN FALSE ELSE up
      /\ op \notin {"take_addr", "no_addr", "conf_addr"} => addr' = addr
      /\ op = "take_addr" => addr' = offered
  BY StepEffect
<1>2. /\ Left(op)
      /\ Left("set_down") => Left("set_down")' \/ op = "set_down"
      /\ Left("set_down")' => op \in Before
  BY StepLeft, StepOrder
<1> HIDE DEF op
<1>3. ASSUME op \in {"take_addr", "no_addr"}
      PROVE  up => addr' = addr
  <2>1. use_dhcp  BY <1>2, <1>3 DEF ConfInv, ConfOK, Left
  <2>2. LeaseOK  BY <2>1 DEF LeaseInv
  <2>3. CASE op = "take_addr"
    BY <1>1, <1>2, <2>2, <2>3 DEF LeaseOK
  <2>4. CASE op = "no_addr"
    <3>1. ~ Left("set_down")  BY <1>2, <2>4 DEF Before, Notes
    <3> QED  BY <1>2, <2>2, <2>4, <3>1 DEF LeaseOK, Downs
  <2> QED  BY <1>3, <2>3, <2>4
<1>4. ASSUME op = "conf_addr"  PROVE ~ up
  <2>1. Serves(BringUp)  BY <1>2, <1>4 DEF CallsInv
  <2>2. ~ use_dhcp  BY <2>1 DEF CallsInv, Serves, Waits
  <2> QED  BY <2>1, <2>2 DEF StaysInv, Serves
<1>5. (op \in {"set_up", "set_down"} /\ up' # up) \/ up' = up
  BY <1>1
<1>6. up' = up => Valid' = Valid /\ (Valid => addr' = addr)
  <2>1. up => addr' = addr  BY <1>1, <1>3, <1>4
  <2> QED  BY <2>1 DEF Valid, TypeOK
<1> QED  BY <1>5, <1>6 DEF op

LEMMA NoteStep ==
  ASSUME TypeOK, ProgInv, CallsInv, ConfInv, LeaseInv, StaysInv, NoteInv, [Next]_vars, ~ raced'
  PROVE  /\ \A n \in Notes : Left(n)' => n = Truth'
         /\ Quiet' => LastOf(queue, Notes, Truth, note)'
<1>d. /\ ~ raced /\ queue \in Seq(Messages)
      /\ \A n \in Notes : Left(n) => n = Truth
      /\ Quiet => LastOf(queue, Notes, Truth, note)
  BY RacedKept DEF NoteInv, TypeOK
<1>1. ASSUME UNCHANGED <<up, addr, prog>>
      PROVE  /\ Truth' = Truth /\ (Quiet' <=> Quiet)
             /\ \A n \in Notes : Left(n)' => n = Truth'
  BY <1>d, <1>1 DEF Truth, Valid, Quiet, Left
<1>2. ASSUME UNCHANGED <<up, addr, prog, queue, note>>
      PROVE  /\ \A n \in Notes : Left(n)' => n = Truth'
             /\ Quiet' => LastOf(queue, Notes, Truth, note)'
  BY <1>d, <1>1, <1>2
<1>3. ASSUME NEW e \in WlanEvents, WlanEvent(e)
      PROVE  /\ \A n \in Notes : Left(n)' => n = Truth'
             /\ Quiet' => LastOf(queue, Notes, Truth, note)'
  <2>1. UNCHANGED <<up, addr, prog, note>> /\ queue' = Append(queue, e)
    BY <1>3 DEF WlanEvent, MsgSend, netif
  <2>2. e \in Messages /\ e \notin Notes  BY DEF Messages, WlanEvents, Notes
  <2> QED  BY <1>d, <1>1, <2>1, <2>2, LastAppend
<1>4. CASE Serve \/ Packet
  <2>1. UNCHANGED <<up, addr, queue, note>> /\ prog = <<>>
    BY <1>4, ServeFacts, PacketFacts DEF netif, past
  <2>2. Truth' = Truth  BY <2>1 DEF Truth, Valid
  <2>3. Quiet  BY <2>1 DEF Quiet, Left, In
  <2>4. Quiet'
    <3>1. CASE Packet  BY <3>1, PacketFacts DEF Quiet, Left
    <3>2. CASE Serve
      <4>1. calls \in {LinkUp, LinkDown, StartUp, TearDown, TearDown2, TearDown1, BringUp, BringUp1}
        BY <3>2, ServeFacts DEF CallsInv
      <4> QED  BY <3>2, <4>1, ServeFacts DEF Quiet, Left
    <3> QED  BY <1>4, <3>1, <3>2
  <2> QED  BY <1>d, <2>1, <2>2, <2>3, <2>4 DEF Quiet, Notes
<1>5. CASE Step
  <2> DEFINE op == Head(prog)
             turns == op \in {"set_up", "set_down"} /\ up' # up
  <2>1. /\ turns => Left(Truth)' /\ \A n \in Notes : Left(n)' => n = Truth'
        /\ ~ turns => Quiet'
        /\ op \in Notes => queue' = Append(queue, op)
        /\ op \notin Notes => queue' = queue
    BY <1>5, StepNotes
  <2>2. ~ turns => Truth' = Truth
    BY <1>d, <1>5, StepValid DEF Truth
  <2>3. note' = note  BY <1>5, StepFacts DEF past
  <2>4. Left(op) /\ (Left("UP") => op = "UP") /\ (Left("DOWN") => op = "DOWN")
    BY <1>5, StepLeft, StepOrder
  <2>5. CASE turns
    <3>1. Truth' \in Notes  BY DEF Truth, Notes
    <3>2. ~ Quiet'  BY <2>1, <2>5, <3>1 DEF Quiet, Notes, Left
    <3> QED  BY <2>1, <2>5, <3>2
  <2>6. CASE ~ turns
    <3>1. Quiet' /\ Truth' = Truth  BY <2>1, <2>2, <2>6
    <3>2. LastOf(queue, Notes, Truth, note)'
      <4>1. CASE op \in Notes
        <5>1. op = Truth /\ op \in Messages /\ queue' = Append(queue, op)
          BY <1>d, <2>1, <2>4, <4>1 DEF Messages, Notes
        <5>2. LastOf(Append(queue, op), Notes, op, note)
          BY <1>d, <4>1, <5>1, LastNew
        <5> QED  BY <2>3, <3>1, <5>1, <5>2
      <4>2. CASE op \notin Notes
        <5>1. Quiet  BY <2>4, <4>2 DEF Quiet, Notes
        <5> QED  BY <1>d, <2>1, <2>3, <3>1, <4>2, <5>1
      <4> QED  BY <4>1, <4>2
    <3> QED  BY <3>1, <3>2 DEF Quiet, Notes
  <2> QED  BY <2>5, <2>6
<1>6. CASE Recv
  <2>1. UNCHANGED <<up, addr, prog>>  BY <1>6 DEF Recv, netif
  <2>2. /\ queue # <<>> /\ queue' = Tail(queue)
        /\ note' = IF Head(queue) \in Notes THEN Head(queue) ELSE note
    BY <1>6 DEF Recv, Notes
  <2> QED  BY <1>d, <1>1, <2>1, <2>2, LastTail
<1>7. CASE SendSelf /\ UNCHANGED <<use_dhcp, netif, lease, prog, past>>
  <2>1. UNCHANGED <<up, addr, prog, note>> /\ queue' = Append(queue, "UP") /\ pc = "send"
    BY <1>7 DEF SendSelf, MsgSend, netif, past
  <2>2. Truth = "UP"
    <3>1. ~ use_dhcp  BY <2>1 DEF CallsInv
    <3>2. Valid  BY <2>1, <3>1 DEF StaysInv
    <3> QED  BY <3>2 DEF Truth
  <2>3. "UP" \in Messages /\ "UP" \in Notes  BY DEF Messages, Notes
  <2> QED  BY <1>d, <1>1, <2>1, <2>2, <2>3, LastNew
<1>8. CASE (Answered \/ Tell \/ Config \/ ConfigStart \/ ConfigStop)
           /\ UNCHANGED <<use_dhcp, netif, lease, prog, past>>
  BY <1>2, <1>8 DEF Answered, Tell, Config, ConfigStart, ConfigStop, netif, past
<1>9. CASE UNCHANGED vars
  BY <1>2, <1>9 DEF vars, netif, past
<1> QED
  BY <1>3, <1>4, <1>5, <1>6, <1>7, <1>8, <1>9 DEF Next, Looper, Handle

LEMMA ToldStep ==
  ASSUME TypeOK, ProgInv, CallsInv, ConfInv, LeaseInv, StaysInv, NoteInv, ToldInv, NoteInv',
         [Next]_vars, ~ raced', Valid', Quiet', \A i \in 1..Len(queue') : queue'[i] \notin Notes
  PROVE  IF pc' = "tell" THEN heard' = addr' ELSE told' = addr'
<1>d. /\ ~ raced /\ queue \in Seq(Messages)
      /\ Valid /\ Quiet /\ (\A i \in 1..Len(queue) : queue[i] \notin Notes)
           => IF pc = "tell" THEN heard = addr ELSE told = addr
  BY RacedKept DEF ToldInv, TypeOK
<1>1. ASSUME UNCHANGED <<up, addr>>
      PROVE  Valid
  BY <1>1 DEF Valid
<1>2. ASSUME UNCHANGED <<up, addr, told, queue>>, Quiet,
             (pc' = "tell" /\ pc = "tell" /\ heard' = heard) \/ (pc' # "tell" /\ pc # "tell")
      PROVE  IF pc' = "tell" THEN heard' = addr' ELSE told' = addr'
  BY <1>d, <1>1, <1>2
<1>3. ASSUME UNCHANGED prog  PROVE Quiet
  BY <1>3 DEF Quiet, Left
<1>4. ASSUME NEW m \in Messages, queue' = Append(queue, m)
      PROVE  m \notin Notes /\ \A i \in 1..Len(queue) : queue[i] \notin Notes
  <2> DEFINE r == queue'
  <2>1. /\ Len(r) = Len(queue) + 1 /\ Len(queue) \in Nat /\ r[Len(r)] = m
        /\ \A i \in 1..Len(queue) : r[i] = queue[i]
    BY <1>d, <1>4
  <2>2. Len(r) \in 1..Len(r) /\ \A i \in 1..Len(queue) : i \in 1..Len(r)
    BY <2>1
  <2>3. \A i \in 1..Len(r) : r[i] \notin Notes
    OBVIOUS
  <2> HIDE DEF r
  <2> QED  BY <2>1, <2>2, <2>3
<1>5. ASSUME NEW e \in WlanEvents, WlanEvent(e)
      PROVE  IF pc' = "tell" THEN heard' = addr' ELSE told' = addr'
  <2>1. UNCHANGED <<up, addr, prog, told, pc, heard>> /\ queue' = Append(queue, e)
    BY <1>5 DEF WlanEvent, MsgSend, netif, looper
  <2>2. e \in Messages  BY DEF Messages
  <2> QED  BY <1>d, <1>1, <1>3, <1>4, <2>1, <2>2
<1>6. CASE Serve \/ Packet
  <2>1. UNCHANGED <<up, addr, queue, told, pc, heard>> /\ prog = <<>>
    BY <1>6, ServeFacts, PacketFacts DEF netif, looper
  <2>2. Quiet  BY <2>1 DEF Quiet, Left, In
  <2> QED  BY <1>2, <2>1, <2>2
<1>7. CASE Step
  <2> DEFINE op == Head(prog)
             turns == op \in {"set_up", "set_down"} /\ up' # up
  <2>1. /\ turns => Left(Truth)'
        /\ ~ turns => told' = told
        /\ op \in Notes => queue' = Append(queue, op)
        /\ op \notin Notes => queue' = queue
    BY <1>7, StepNotes
  <2>2. ~ turns => Valid' = Valid /\ (Valid => addr' = addr)
    BY <1>d, <1>7, StepValid
  <2>3. UNCHANGED <<pc, heard>>  BY <1>7, StepFacts
  <2>4. (Left("UP") => op = "UP") /\ (Left("DOWN") => op = "DOWN")
    BY <1>7, StepOrder
  <2>5. ~ turns
    <3>1. Truth' \in Notes  BY DEF Truth, Notes
    <3>2. ~ Left(Truth)'  BY <3>1 DEF Quiet, Notes, Left
    <3> QED  BY <2>1, <3>2
  <2>6. op \notin Notes
    <3>1. op \in Notes => op \in Messages  BY DEF Messages, Notes
    <3> QED  BY <1>4, <2>1, <3>1
  <2>7. Quiet /\ queue' = queue  BY <2>1, <2>4, <2>6 DEF Quiet, Notes
  <2> QED  BY <1>d, <2>1, <2>2, <2>3, <2>5, <2>7
<1>8. CASE Recv
  <2> DEFINE m == Head(queue)
  <2>1. /\ UNCHANGED <<up, addr, prog, told>> /\ pc = "recv"
        /\ queue # <<>> /\ queue' = Tail(queue)
    BY <1>8 DEF Recv, netif
  <2>2. /\ m = "UP" => pc' = "tell" /\ heard' = addr
        /\ m = "DOWN" => note' = "DOWN"
        /\ m # "UP" => pc' # "tell"
    BY <1>8 DEF Recv, Go, Call
  <2> HIDE DEF m
  <2>3. m # "DOWN"
    <3>1. Truth' = note'  BY DEF NoteInv, LastOf
    <3>2. Truth' = "UP"  BY DEF Truth
    <3> QED  BY <2>2, <3>1, <3>2
  <2>4. CASE m = "UP"  BY <2>1, <2>2, <2>4
  <2>5. CASE m # "UP"
    <3>1. \A i \in 1..Len(queue) : queue[i] \notin Notes
      <4>1. /\ \A i \in 1..Len(queue) :
                 i = 1 \/ (i - 1 \in 1..Len(Tail(queue)) /\ queue[i] = Tail(queue)[i - 1])
            /\ queue[1] = m
        BY <1>d, <2>1 DEF m
      <4>2. \A i \in 1..Len(Tail(queue)) : Tail(queue)[i] \notin Notes
        BY <2>1
      <4> QED  BY <2>3, <2>5, <4>1, <4>2 DEF Notes
    <3> QED  BY <1>d, <1>1, <1>3, <2>1, <2>2, <2>5, <3>1
  <2> QED  BY <2>4, <2>5
<1>9. CASE Tell /\ UNCHANGED <<use_dhcp, netif, lease, prog, past>>
  <2>1. /\ UNCHANGED <<up, addr, prog, queue>> /\ pc = "tell" /\ pc' = "recv" /\ told' = heard
    BY <1>9 DEF Tell, Go, netif
  <2> QED  BY <1>d, <1>1, <1>3, <2>1
<1>10. CASE SendSelf /\ UNCHANGED <<use_dhcp, netif, lease, prog, past>>
  <2>1. "UP" \in Messages /\ "UP" \in Notes  BY DEF Messages, Notes
  <2>2. queue' = Append(queue, "UP")  BY <1>10 DEF SendSelf, MsgSend
  <2> QED  BY <1>4, <2>1, <2>2
<1>11. CASE (Answered \/ Config \/ ConfigStart \/ ConfigStop)
            /\ UNCHANGED <<use_dhcp, netif, lease, prog, past>>
  <2>1. UNCHANGED <<up, addr, prog, queue, told>>
    BY <1>11 DEF Answered, Config, ConfigStart, ConfigStop, netif
  <2>2. pc # "tell" /\ pc' # "tell"
    BY <1>11 DEF Answered, Config, ConfigStart, ConfigStop, Go, Call, TypeOK
  <2> QED  BY <1>2, <1>3, <2>1, <2>2
<1>12. CASE UNCHANGED vars
  BY <1>2, <1>3, <1>12 DEF vars, netif, looper
<1> QED
  BY <1>5, <1>6, <1>7, <1>8, <1>9, <1>10, <1>11, <1>12 DEF Next, Looper, Handle

THEOREM EventInvCorrect == Spec => []EventInv
<1>1. Init => EventInv
  BY LeaseInit, NoteInit DEF EventInv
<1>2. TypeOK /\ IInv /\ EventInv /\ [Next]_vars => EventInv'
  <2> SUFFICES ASSUME TypeOK, IInv, EventInv, [Next]_vars  PROVE EventInv'
    OBVIOUS
  <2>1. ProgInv /\ CallsInv /\ LinkInv /\ DhcpInv /\ ConfInv  BY DEF IInv
  <2>2. LeaseInv /\ StaysInv /\ NoteInv /\ ToldInv  BY DEF EventInv
  <2>3. LeaseInv'  BY <2>1, <2>2, LeaseStep DEF LeaseInv
  <2>4. StaysInv'
    <3>1. CASE ~ use_dhcp'  BY <2>1, <2>2, <3>1, StaysStep DEF StaysInv
    <3>2. CASE use_dhcp'  BY <3>2 DEF StaysInv
    <3> QED  BY <3>1, <3>2
  <2>5. NoteInv'  BY <2>1, <2>2, NoteStep DEF NoteInv
  <2>6. ToldInv'
    <3> SUFFICES ASSUME ~ raced', Valid', Quiet',
                        \A i \in 1..Len(queue') : queue'[i] \notin Notes
                 PROVE  IF pc' = "tell" THEN heard' = addr' ELSE told' = addr'
      BY DEF ToldInv
    <3> QED  BY <2>1, <2>2, <2>5, ToldStep
  <2> QED  BY <2>3, <2>4, <2>5, <2>6 DEF EventInv
<1> QED  BY <1>1, <1>2, TypeCorrect, InvCorrect, PTL DEF Spec

(* When all is handled the last event said "up" exactly if the interface   *)
(* has an address, and the wlan was told that address, but for a lease     *)
(* that was bound unawares.                                                *)
THEOREM NotedRightCorrect == Spec => []NotedRight
<1>1. EventInv => NotedRight
  <2> SUFFICES ASSUME EventInv, AtRest, ~ raced
               PROVE  (note = "UP" <=> Valid) /\ (Valid => told = addr)
    BY DEF NotedRight
  <2>1. pc = "recv" /\ Len(queue) = 0 /\ prog = <<>>  BY DEF AtRest
  <2>2. \A i \in 1..Len(queue) : queue[i] \notin Notes  BY <2>1
  <2>3. Quiet  BY <2>1 DEF Quiet, Left, In
  <2>4. Truth = note  BY <2>2, <2>3 DEF EventInv, NoteInv, LastOf
  <2>5. note = "UP" <=> Valid  BY <2>4 DEF Truth
  <2>6. Valid => told = addr  BY <2>1, <2>2, <2>3 DEF EventInv, ToldInv
  <2> QED  BY <2>5, <2>6
<1> QED  BY <1>1, EventInvCorrect, PTL
=============================================================================
