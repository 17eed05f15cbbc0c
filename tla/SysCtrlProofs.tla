---------------------------- MODULE SysCtrlProofs ----------------------------
(***************************************************************************)
(* Proofs about SysCtrl, for every set of observers and events, every      *)
(* length of the queue and every way callbacks and threads attach and      *)
(* detach.                                                                 *)
(***************************************************************************)
EXTENDS SysCtrl, SequenceTheorems, TLAPS

Places == 1 .. Len(head)

\* The list.  An observer in it is never idle, hence never destroyed; and no
\* observer that is detached is behind the sweep.
ListInv ==
  /\ \A i, j \in Places : head[i] = head[j] => i = j
  /\ \A i \in Places : head[i] \in live /\ ost[head[i]] # "IDLE"
  /\ Unlocked => \A i \in Places : Attached(head[i])
  /\ Unlocked => itor = 1
  /\ pc = "callback" => itor <= Len(head)
  /\ pc = "sweep" => \A i \in Places : i < itor => Attached(head[i])

\* The state of an observer is what was asked for last, but for the one whose
\* callback runs and who was touched.
ArmedInv ==
  \A o \in Obs : Attached(o) =>
    \/ armed[o] = ost[o]
    \/ pc = "callback" /\ o = head[itor] /\ ost[o] = "ATTACHED_ONCE"

\* The observers triggered are those the publisher has passed; those it must
\* still trigger are ahead.
Passed(o) == \E i \in Places : head[i] = o /\ (i < itor \/ (pc = "callback" /\ i = itor))
Ahead(o)  == Attached(o) /\ Sees(o) /\ \E i \in Places : head[i] = o /\ i >= itor

HitInv ==
  /\ \A o \in Obs : hits[o] \in {0, 1}
  /\ pc \in {"scan", "callback"} =>
       /\ \A o \in Obs  : hits[o] = 1 => Passed(o)
       /\ \A o \in must : hits[o] = 1 \/ Ahead(o)
  /\ pc = "callback" => hits[head[itor]] = 1
  /\ pc = "sweep" => \A o \in must : hits[o] = 1

IInv == TypeOK /\ ListInv /\ ArmedInv /\ HitInv

USE SysCtrlAssumption DEF SysCtrlAssumption

-----------------------------------------------------------------------------
\* A sequence without one of its elements.
LEMMA DelFacts ==
  ASSUME NEW s \in Seq(Obs), NEW i \in 1 .. Len(s)
  PROVE  /\ Del(s, i) \in Seq(Obs)
         /\ Len(Del(s, i)) = Len(s) - 1
         /\ \A j \in 1 .. Len(s) - 1 : Del(s, i)[j] = s[IF j < i THEN j ELSE j + 1]
<1> DEFINE d == Del(s, i)
<1>1. d = [j \in 1 .. Len(s) - 1 |-> s[IF j < i THEN j ELSE j + 1]]
  BY DEF Del
<1>2. \A j \in 1 .. Len(s) - 1 : s[IF j < i THEN j ELSE j + 1] \in Obs
  OBVIOUS
<1>3. Len(s) - 1 \in Nat
  OBVIOUS
<1>4. d \in Seq(Obs)
  BY <1>1, <1>2, <1>3, IsASeq
<1>5. Len(d) = Len(s) - 1
  BY <1>1, <1>3, <1>4, LenProperties
<1>6. QED
  BY <1>1, <1>4, <1>5

\* The same of a sequence that is it.
LEMMA DelAt ==
  ASSUME NEW s \in Seq(Obs), NEW i \in 1 .. Len(s), NEW t, t = Del(s, i)
  PROVE  /\ t \in Seq(Obs)
         /\ Len(t) = Len(s) - 1
         /\ \A j \in 1 .. Len(s) - 1 : t[j] = s[IF j < i THEN j ELSE j + 1]
BY DelFacts

\* A call of attach or touch that returns 0.
LEMMA AttachFacts ==
  ASSUME TypeOK, NEW o \in live, NEW st \in {"ATTACHED", "ATTACHED_ONCE"}, Attach(o, st)
  PROVE  /\ ost' = [ost EXCEPT ![o] = st]
         /\ armed' = [armed EXCEPT ![o] = st]
         /\ o \in Obs
         /\ \/ ost[o] = "DETACHED" /\ head' = head
            \/ /\ head' = Append(head, o)
               /\ head' \in Seq(Obs)
               /\ Len(head') = Len(head) + 1
               /\ \A i \in 1 .. Len(head) : head'[i] = head[i] /\ head[i] # o
               /\ head'[Len(head) + 1] = o
<1>1. o \in Obs /\ ost' = [ost EXCEPT ![o] = st] /\ armed' = [armed EXCEPT ![o] = st]
  BY DEF TypeOK, Attach
<1>2. CASE ost[o] = "DETACHED"
  BY <1>1, <1>2 DEF Attach
<1>3. CASE ost[o] # "DETACHED"
  <2>1. head' = Append(head, o) /\ o \notin Listed
    BY <1>3 DEF Attach
  <2>2. head \in Seq(Obs)
    BY DEF TypeOK
  <2>3. head' \in Seq(Obs) /\ Len(head') = Len(head) + 1
        /\ (\A i \in 1 .. Len(head) : head'[i] = head[i]) /\ head'[Len(head) + 1] = o
    BY <1>1, <2>1, <2>2, AppendProperties
  <2>4. \A i \in 1 .. Len(head) : head[i] # o
    BY <2>1, <2>2 DEF Listed
  <2>5. QED
    BY <1>1, <2>1, <2>3, <2>4
<1>4. QED
  BY <1>2, <1>3

\* A call of detach.
LEMMA DetachFacts ==
  ASSUME TypeOK, NEW o \in live, Detach(o)
  PROVE  /\ o \in Obs
         /\ InCallback => ost' = [ost EXCEPT ![o] = "DETACHED"] /\ head' = head
         /\ ~InCallback =>
              /\ ost' = [ost EXCEPT ![o] = "IDLE"]
              /\ \/ head' = head /\ \A i \in 1 .. Len(head) : head[i] # o
                 \/ \E i \in 1 .. Len(head) : head[i] = o /\ head' = Del(head, i)
<1>1. o \in Obs /\ head \in Seq(Obs) /\ DOMAIN head = 1 .. Len(head)
  BY DEF TypeOK
<1>2. CASE InCallback
  BY <1>1, <1>2 DEF Detach
<1>3. CASE ~InCallback
  <2>1. ost' = [ost EXCEPT ![o] = "IDLE"]
    BY <1>3 DEF Detach
  <2>2. CASE o \in Listed
    BY <1>1, <1>3, <2>1, <2>2 DEF Detach
  <2>3. CASE o \notin Listed
    <3>1. head' = head
      BY <1>3, <2>3 DEF Detach
    <3>2. \A i \in 1 .. Len(head) : head[i] # o
      BY <1>1, <2>3 DEF Listed
    <3>3. QED
      BY <1>1, <1>3, <2>1, <3>1, <3>2
  <2>4. QED
    BY <2>2, <2>3
<1>4. QED
  BY <1>2, <1>3

-----------------------------------------------------------------------------
\* At the start nothing is attached.
LEMMA InitIInv == Init => IInv
<1> SUFFICES ASSUME Init PROVE IInv
  OBVIOUS
<1>1. Len(head) = 0 /\ head \in Seq(Obs) /\ queue \in Seq(Msgs) /\ Len(queue) = 0
  BY DEF Init
<1>2. TypeOK
  BY <1>1 DEF Init, TypeOK, States
<1>3. ListInv /\ ArmedInv /\ HitInv
  BY <1>1 DEF Init, ListInv, ArmedInv, HitInv, Places, Unlocked, Attached
<1>4. QED
  BY <1>2, <1>3 DEF IInv

\* The queue takes messages and keeps its length.
LEMMA AcceptType ==
  ASSUME TypeOK, NEW e \in Events, NEW c \in Callers \cup {NoOne}, Accept(e, c)
  PROVE  queue' \in Seq(Msgs) /\ Len(queue') <= QLen /\ sent' \in 0 .. MaxMsgs
<1>1. [event |-> e, who |-> c, n |-> sent + 1] \in Msgs
  BY DEF TypeOK, Accept, Msgs
<1>2. QED
  BY <1>1 DEF TypeOK, Accept

\* Every step keeps the variables in their types.
LEMMA TypeStep == IInv /\ [Next]_vars => TypeOK'
<1> SUFFICES ASSUME IInv, [Next]_vars PROVE TypeOK'
  OBVIOUS
<1> USE DEF IInv, bus, loop, list, past
<1>t. TypeOK
  OBVIOUS
<1>1. CASE Send
  <2>1. PICK e \in Events : Accept(e, NoOne)
    BY <1>1 DEF Send
  <2>2. QED
    BY <1>1, <1>t, <2>1, AcceptType DEF Send, TypeOK
<1>2. CASE SendWait
  <2>1. PICK c \in Callers \ wait, e \in Events : Accept(e, c) /\ wait' = wait \cup {c}
    BY <1>2 DEF SendWait
  <2>2. QED
    BY <1>2, <1>t, <2>1, AcceptType DEF SendWait, TypeOK
<1>3. CASE CallAttach
  <2>1. PICK o \in live, st \in {"ATTACHED", "ATTACHED_ONCE"} : Attach(o, st)
    BY <1>3 DEF CallAttach
  <2>2. /\ o \in Obs
        /\ ost' = [ost EXCEPT ![o] = st] /\ armed' = [armed EXCEPT ![o] = st]
    BY <1>t, <2>1, AttachFacts
  <2>3. head' \in Seq(Obs) /\ itor \in 1 .. Len(head') + 1
    <3>1. CASE head' = head
      BY <1>t, <3>1 DEF TypeOK
    <3>2. CASE head' # head
      <4>1. head' \in Seq(Obs) /\ Len(head') = Len(head) + 1
        BY <1>t, <2>1, <3>2, AttachFacts
      <4>2. QED
        BY <1>t, <4>1 DEF TypeOK
    <3>3. QED
      BY <3>1, <3>2
  <2>4. ost' \in [Obs -> States] /\ armed' \in [Obs -> {"no", "ATTACHED", "ATTACHED_ONCE"}]
    BY <1>t, <2>2 DEF TypeOK, States
  <2>5. QED
    BY <1>3, <1>t, <2>3, <2>4 DEF CallAttach, CanCall, TypeOK
<1>4. CASE CallDetach
  <2>1. PICK o \in live : Detach(o) /\ armed' = [armed EXCEPT ![o] = "no"] /\ must' = must \ {o}
    BY <1>4 DEF CallDetach
  <2>2. o \in Obs /\ ost' \in [Obs -> States]
    BY <1>t, <2>1, DetachFacts DEF TypeOK, States
  <2>3. head' \in Seq(Obs) /\ itor \in 1 .. Len(head') + 1
    <3>1. CASE head' = head
      BY <1>t, <3>1 DEF TypeOK
    <3>2. CASE head' # head
      <4>1. ~InCallback
        BY <1>t, <2>1, <3>2, DetachFacts
      <4>2. PICK i \in 1 .. Len(head) : head' = Del(head, i)
        BY <1>t, <2>1, <3>2, <4>1, DetachFacts
      <4>3. head' \in Seq(Obs) /\ Len(head') = Len(head) - 1
        BY <1>t, <4>2, DelFacts DEF TypeOK
      <4>4. itor = 1
        BY <1>4, <4>1 DEF CallDetach, CanCall, ListInv
      <4>5. QED
        BY <1>t, <4>3, <4>4 DEF TypeOK
    <3>3. QED
      BY <3>1, <3>2
  <2>4. armed' \in [Obs -> {"no", "ATTACHED", "ATTACHED_ONCE"}] /\ must' \subseteq Obs
    BY <1>t, <2>1, <2>2 DEF TypeOK
  <2>5. QED
    BY <1>4, <1>t, <2>2, <2>3, <2>4 DEF CallDetach, CanCall, TypeOK
<1>5. CASE Destroy
  BY <1>5, <1>t DEF Destroy, TypeOK
<1>6. CASE Recv
  <2>1. Head(queue) \in Msgs /\ Tail(queue) \in Seq(Msgs) /\ Len(Tail(queue)) <= QLen
    BY <1>6, <1>t, HeadTailProperties DEF Recv, TypeOK
  <2>2. QED
    BY <1>6, <1>t, <2>1 DEF Recv, TypeOK
<1>7. CASE Execute \/ Notify \/ ScanEnd \/ SweepEnd \/ Destruct
  <2>1. must' \subseteq Obs
    BY <1>7, <1>t DEF Execute, Notify, ScanEnd, SweepEnd, Destruct, TypeOK, Listed
  <2>2. hits' \in [Obs -> Nat]
    BY <1>7, <1>t DEF Execute, Notify, ScanEnd, SweepEnd, Destruct, TypeOK
  <2>3. QED
    BY <1>7, <1>t, <2>1, <2>2 DEF Execute, Notify, ScanEnd, SweepEnd, Destruct, TypeOK
<1>8. CASE ScanSkip \/ SweepKeep
  <2>1. itor <= Len(head) /\ itor' = itor + 1
    BY <1>8 DEF ScanSkip, SweepKeep, At
  <2>2. itor' \in 1 .. Len(head) + 1
    BY <1>t, <2>1 DEF TypeOK
  <2>3. UNCHANGED <<bus, loop, head, ost, live, calls, past>>
    BY <1>8 DEF ScanSkip, SweepKeep
  <2>4. QED
    BY <1>t, <2>2, <2>3 DEF TypeOK
<1>9. CASE Trigger
  <2>1. head[itor] \in Obs
    BY <1>9, <1>t DEF Trigger, At, TypeOK
  <2>2. hits' \in [Obs -> Nat] /\ armed' \in [Obs -> {"no", "ATTACHED", "ATTACHED_ONCE"}]
    BY <1>9, <1>t, <2>1 DEF Trigger, TypeOK
  <2>3. QED
    BY <1>9, <1>t, <2>2 DEF Trigger, TypeOK
<1>10. CASE Return
  <2>1. head[itor] \in Obs /\ itor + 1 \in 1 .. Len(head) + 1
    BY <1>10, <1>t DEF Return, At, TypeOK
  <2>2. ost' \in [Obs -> States]
    BY <1>10, <1>t, <2>1 DEF Return, TypeOK, States
  <2>3. QED
    BY <1>10, <1>t, <2>1, <2>2 DEF Return, TypeOK
<1>11. CASE SweepDel
  <2>1. itor \in 1 .. Len(head) /\ head \in Seq(Obs) /\ head[itor] \in Obs
    BY <1>11, <1>t DEF SweepDel, At, TypeOK
  <2>2. head' \in Seq(Obs) /\ Len(head') = Len(head) - 1
    BY <1>11, <2>1, DelFacts DEF SweepDel
  <2>3. ost' \in [Obs -> States]
    BY <1>11, <1>t, <2>1 DEF SweepDel, TypeOK, States
  <2>4. QED
    BY <1>11, <1>t, <2>1, <2>2, <2>3 DEF SweepDel, TypeOK
<1>12. CASE UNCHANGED vars
  BY <1>12, <1>t DEF vars, TypeOK
<1>13. QED
  BY <1>1, <1>2, <1>3, <1>4, <1>5, <1>6, <1>7, <1>8, <1>9, <1>10, <1>11, <1>12
     DEF Next, Looper

\* Every step keeps the list sound.
LEMMA ListStep == IInv /\ [Next]_vars => ListInv'
<1> SUFFICES ASSUME IInv, [Next]_vars PROVE ListInv'
  OBVIOUS
<1> USE DEF IInv, ListInv, Places, Attached, Unlocked, bus, loop, list, past
<1>t. TypeOK /\ ListInv /\ head \in Seq(Obs) /\ Len(head) \in Nat /\ itor \in Nat
  BY DEF TypeOK
<1>1. CASE Send \/ SendWait
  BY <1>1, <1>t DEF Send, SendWait
<1>2. CASE CallAttach
  <2>1. PICK o \in live, st \in {"ATTACHED", "ATTACHED_ONCE"} : Attach(o, st)
    BY <1>2 DEF CallAttach
  <2>2. ost' = [ost EXCEPT ![o] = st] /\ ost \in [Obs -> States] /\ o \in Obs
    BY <1>t, <2>1, AttachFacts DEF TypeOK
  <2>3. UNCHANGED <<pc, itor, live>> /\ (Unlocked \/ pc = "callback")
    BY <1>2 DEF CallAttach, CanCall, InCallback
  <2>4. CASE head' = head
    BY <1>t, <2>2, <2>3, <2>4 DEF TypeOK
  <2>5. CASE head' # head
    <3>1. /\ Len(head') = Len(head) + 1 /\ head'[Len(head) + 1] = o
          /\ \A i \in 1 .. Len(head) : head'[i] = head[i] /\ head[i] # o
      BY <1>t, <2>1, <2>5, AttachFacts
    <3>2. \A i, j \in Places' : head'[i] = head'[j] => i = j
      <4>1. SUFFICES ASSUME NEW i \in Places', NEW j \in Places', head'[i] = head'[j]
                     PROVE  i = j
        OBVIOUS
      <4>2. i \in 1 .. Len(head) \/ i = Len(head) + 1
        BY <1>t, <3>1
      <4>3. j \in 1 .. Len(head) \/ j = Len(head) + 1
        BY <1>t, <3>1
      <4>4. QED
        BY <1>t, <3>1, <4>1, <4>2, <4>3
    <3>3. \A i \in Places' : i \in Places \/ (i = Len(head) + 1 /\ head'[i] = o)
      BY <1>t, <3>1
    <3>4. \A i \in Places' : head'[i] \in live /\ ost'[head'[i]] # "IDLE"
      BY <1>t, <2>2, <3>1, <3>3
    <3>5. Unlocked => \A i \in Places' : ost'[head'[i]] \in {"ATTACHED", "ATTACHED_ONCE"}
      BY <1>t, <2>2, <3>1, <3>3
    <3>6. pc = "callback" => itor <= Len(head')
      BY <1>t, <3>1
    <3>7. QED
      BY <1>t, <2>3, <3>2, <3>4, <3>5, <3>6
  <2>6. QED
    BY <2>4, <2>5
<1>3. CASE CallDetach
  <2>1. PICK o \in live : Detach(o)
    BY <1>3 DEF CallDetach
  <2>2. UNCHANGED <<pc, itor, live>> /\ (Unlocked \/ pc = "callback")
    BY <1>3 DEF CallDetach, CanCall, InCallback
  <2>3. CASE pc = "callback"
    <3>1. ost' = [ost EXCEPT ![o] = "DETACHED"] /\ head' = head
      BY <1>t, <2>1, <2>3, DetachFacts DEF InCallback
    <3>2. QED
      BY <1>t, <2>2, <2>3, <3>1 DEF TypeOK
  <2>4. CASE pc # "callback"
    <3>1. ost' = [ost EXCEPT ![o] = "IDLE"]
      BY <1>t, <2>1, <2>4, DetachFacts DEF InCallback
    <3>2. CASE \A i \in 1 .. Len(head) : head[i] # o
      <4>1. head' = head
        BY <1>t, <2>1, <2>4, <3>2, DetachFacts DEF InCallback
      <4>2. QED
        BY <1>t, <2>2, <2>4, <3>1, <3>2, <4>1 DEF TypeOK
    <3>3. CASE \E i \in 1 .. Len(head) : head[i] = o
      <4>1. PICK i \in 1 .. Len(head) : head[i] = o /\ head' = Del(head, i)
        BY <1>t, <2>1, <2>4, <3>3, DetachFacts DEF InCallback
      <4>2. /\ Len(head') = Len(head) - 1
            /\ \A j \in 1 .. Len(head) - 1 : head'[j] = head[IF j < i THEN j ELSE j + 1]
        <5>1. head \in Seq(Obs) /\ i \in 1 .. Len(head) /\ head' = Del(head, i)
          BY <1>t, <4>1
        <5>2. QED
          BY ONLY <5>1, DelAt
      <4>3. \A j \in 1 .. Len(head') : \E m \in 1 .. Len(head) \ {i} :
              head'[j] = head[m] /\ m = IF j < i THEN j ELSE j + 1
        BY <1>t, <4>2
      <4>4. \A j \in 1 .. Len(head') : head'[j] # o
        BY <1>t, <4>1, <4>3
      <4>5. \A j, m \in 1 .. Len(head') : head'[j] = head'[m] => j = m
        BY <1>t, <4>2, <4>3
      <4>6. \A p \in Obs : p # o => ost'[p] = ost[p]
        BY <1>t, <3>1 DEF TypeOK
      <4>7. \A j \in Places' : head'[j] \in Obs
        BY <1>t, <4>3
      <4>8. \A j \in Places' : head'[j] \in live /\ ost'[head'[j]] # "IDLE"
        BY <1>t, <4>3, <4>4, <4>6, <4>7
      <4>9. Unlocked => \A j \in Places' : ost'[head'[j]] \in {"ATTACHED", "ATTACHED_ONCE"}
        BY <1>t, <4>3, <4>4, <4>6, <4>7
      <4>10. QED
        BY <1>t, <2>2, <2>4, <4>5, <4>8, <4>9
    <3>4. QED
      BY <3>2, <3>3
  <2>5. QED
    BY <2>3, <2>4
<1>4. CASE Destroy
  BY <1>4, <1>t DEF Destroy, Destroyable
<1>5. CASE Recv \/ Execute \/ Notify \/ Destruct
  BY <1>5, <1>t DEF Recv, Execute, Notify, Destruct
<1>6. CASE ScanSkip \/ Trigger \/ ScanEnd
  BY <1>6, <1>t DEF ScanSkip, Trigger, ScanEnd, At
<1>7. CASE SweepKeep \/ SweepEnd
  <2>1. ost \in [Obs -> States]
    BY <1>t DEF TypeOK
  <2>2. \A i \in Places : ost[head[i]] \in States
    BY <1>t, <2>1
  <2>3. QED
    BY <1>7, <1>t, <2>2 DEF SweepKeep, SweepEnd, At, States
<1>8. CASE Return
  <2>1. head' = head /\ live' = live /\ pc' = "scan"
    BY <1>8 DEF Return
  <2>2. head[itor] \in Obs /\ ost \in [Obs -> States]
    BY <1>8, <1>t DEF Return, At, TypeOK
  <2>3. \A i \in Places : ost'[head[i]] # "IDLE"
    BY <1>8, <1>t, <2>2 DEF Return
  <2>4. QED
    BY <1>t, <2>1, <2>3
<1>9. CASE SweepDel
  <2>1. itor \in 1 .. Len(head) /\ pc' = "sweep" /\ pc = "sweep" /\ itor' = itor /\ live' = live
    BY <1>9, <1>t DEF SweepDel, At, TypeOK
  <2>2. head' = Del(head, itor) /\ ost' = [ost EXCEPT ![head[itor]] = "IDLE"]
    BY <1>9 DEF SweepDel
  <2>3. /\ Len(head') = Len(head) - 1
        /\ \A j \in 1 .. Len(head) - 1 : head'[j] = head[IF j < itor THEN j ELSE j + 1]
    <3>1. head \in Seq(Obs) /\ itor \in 1 .. Len(head) /\ head' = Del(head, itor)
      BY <1>t, <2>1, <2>2
    <3>2. QED
      BY ONLY <3>1, DelAt
  <2>4. \A j \in 1 .. Len(head') : \E m \in 1 .. Len(head) \ {itor} :
          head'[j] = head[m] /\ m = IF j < itor THEN j ELSE j + 1
    <3>1. SUFFICES ASSUME NEW j \in 1 .. Len(head) - 1
                   PROVE  \E m \in 1 .. Len(head) \ {itor} :
                            head'[j] = head[m] /\ m = IF j < itor THEN j ELSE j + 1
      BY <2>3
    <3>2. (IF j < itor THEN j ELSE j + 1) \in 1 .. Len(head) \ {itor}
      BY <1>t, <2>1
    <3>3. QED
      BY <2>3, <3>2
  <2>5. \A j \in 1 .. Len(head') : head'[j] # head[itor]
    BY <1>t, <2>1, <2>4
  <2>6. \A j, m \in 1 .. Len(head') : head'[j] = head'[m] => j = m
    BY <1>t, <2>1, <2>3, <2>4
  <2>7. \A j \in Places' : head'[j] \in live /\ ost'[head'[j]] # "IDLE"
    <3>1. \A p \in Obs : p # head[itor] => ost'[p] = ost[p]
      BY <1>t, <2>2 DEF TypeOK
    <3>2. \A j \in Places' : head'[j] \in Obs
      BY <1>t, <2>4
    <3>3. QED
      BY <1>t, <2>1, <2>4, <2>5, <3>1, <3>2
  <2>8. \A j \in Places' : j < itor => ost'[head'[j]] \in {"ATTACHED", "ATTACHED_ONCE"}
    <3>1. \A p \in Obs : p # head[itor] => ost'[p] = ost[p]
      BY <1>t, <2>2 DEF TypeOK
    <3>2. \A j \in Places' : head'[j] \in Obs
      BY <1>t, <2>4
    <3>3. \A j \in Places' : j < itor => head'[j] = head[j] /\ j \in Places
      BY <1>t, <2>1, <2>3
    <3>4. QED
      BY <1>t, <2>1, <2>5, <3>1, <3>2, <3>3
  <2>9. QED
    BY <1>t, <2>1, <2>6, <2>7, <2>8
<1>10. CASE UNCHANGED vars
  BY <1>10, <1>t DEF vars
<1>11. QED
  BY <1>1, <1>2, <1>3, <1>4, <1>5, <1>6, <1>7, <1>8, <1>9, <1>10 DEF Next, Looper

\* Every step keeps states and what was asked for together.
LEMMA ArmedStep == IInv /\ [Next]_vars => ArmedInv'
<1> SUFFICES ASSUME IInv, [Next]_vars, NEW o \in Obs, Attached(o)'
             PROVE  \/ armed'[o] = ost'[o]
                    \/ pc' = "callback" /\ o = head'[itor'] /\ ost'[o] = "ATTACHED_ONCE"
  BY DEF ArmedInv, Attached
<1> USE DEF Attached, bus, loop, list, past
<1>t. /\ TypeOK /\ ListInv /\ ost \in [Obs -> States]
      /\ armed \in [Obs -> {"no", "ATTACHED", "ATTACHED_ONCE"}]
      /\ Attached(o) => \/ armed[o] = ost[o]
                        \/ pc = "callback" /\ o = head[itor] /\ ost[o] = "ATTACHED_ONCE"
  BY DEF IInv, ArmedInv, TypeOK
<1>1. CASE CallAttach
  <2>1. PICK p \in live, st \in {"ATTACHED", "ATTACHED_ONCE"} : Attach(p, st)
    BY <1>1 DEF CallAttach
  <2>2. /\ ost' = [ost EXCEPT ![p] = st] /\ armed' = [armed EXCEPT ![p] = st]
        /\ \A i \in 1 .. Len(head) : head'[i] = head[i]
    BY <1>t, <2>1, AttachFacts
  <2>3. pc' = pc /\ itor' = itor
    BY <1>1 DEF CallAttach
  <2>4. pc = "callback" => itor \in 1 .. Len(head)
    BY <1>t DEF ListInv, TypeOK
  <2>5. QED
    BY <1>t, <2>2, <2>3, <2>4
<1>2. CASE CallDetach
  <2>1. PICK p \in live : Detach(p) /\ armed' = [armed EXCEPT ![p] = "no"]
    BY <1>2 DEF CallDetach
  <2>2. /\ ost' = [ost EXCEPT ![p] = "DETACHED"] \/ ost' = [ost EXCEPT ![p] = "IDLE"]
        /\ pc = "callback" => head' = head
    BY <1>t, <2>1, DetachFacts DEF InCallback
  <2>3. pc' = pc /\ itor' = itor
    BY <1>2 DEF CallDetach
  <2>4. QED
    BY <1>t, <2>1, <2>2, <2>3
<1>3. CASE Trigger
  BY <1>3, <1>t DEF Trigger, At
<1>4. CASE Return
  BY <1>4, <1>t DEF Return, At
<1>5. CASE SweepDel
  BY <1>5, <1>t DEF SweepDel, At
<1>6. CASE Send \/ SendWait \/ Destroy \/ Recv \/ Execute \/ Notify
  BY <1>6, <1>t DEF Send, SendWait, Destroy, Recv, Execute, Notify
<1>7. CASE ScanSkip \/ ScanEnd \/ SweepKeep \/ SweepEnd \/ Destruct
  BY <1>7, <1>t DEF ScanSkip, ScanEnd, SweepKeep, SweepEnd, Destruct, At
<1>8. CASE UNCHANGED vars
  BY <1>8, <1>t DEF vars
<1>9. QED
  BY <1>1, <1>2, <1>3, <1>4, <1>5, <1>6, <1>7, <1>8 DEF Next, Looper

\* Every step keeps what was triggered behind, and what must be ahead.
LEMMA HitStep == IInv /\ [Next]_vars => HitInv'
<1> SUFFICES ASSUME IInv, [Next]_vars PROVE HitInv'
  OBVIOUS
<1> USE DEF Attached, Sees, Places, Passed, Ahead, bus, loop, list, past
<1>t. /\ TypeOK /\ ListInv /\ HitInv /\ head \in Seq(Obs) /\ Len(head) \in Nat
      /\ ost \in [Obs -> States] /\ hits \in [Obs -> Nat] /\ must \subseteq Obs
      /\ itor \in 1 .. Len(head) + 1
  BY DEF IInv, TypeOK
<1>1. CASE Send \/ SendWait \/ Destroy \/ Execute
  <2>1. CASE Execute
    BY <1>t, <2>1 DEF Execute, HitInv
  <2>2. CASE Send \/ SendWait \/ Destroy
    <3>1. UNCHANGED <<pc, msg, head, itor, ost, must, hits>>
      BY <2>2 DEF Send, SendWait, Destroy
    <3>2. QED
      BY <1>t, <3>1 DEF HitInv
  <2>3. QED
    BY <1>1, <2>1, <2>2
<1>2. CASE CallAttach
  <2>1. PICK p \in live, st \in {"ATTACHED", "ATTACHED_ONCE"} : Attach(p, st)
    BY <1>2 DEF CallAttach
  <2>2. UNCHANGED <<pc, msg, itor, must, hits>> /\ (Unlocked \/ pc = "callback")
    BY <1>2 DEF CallAttach, CanCall, InCallback
  <2>3. /\ ost' = [ost EXCEPT ![p] = st]
        /\ \A i \in 1 .. Len(head) : head'[i] = head[i]
    BY <1>t, <2>1, AttachFacts
  <2>4. Len(head') \in Nat /\ Len(head') >= Len(head)
    <3>1. CASE head' = head
      BY <1>t, <3>1
    <3>2. CASE head' # head
      BY <1>t, <2>1, <3>2, AttachFacts
    <3>3. QED
      BY <3>1, <3>2
  <2>5. \A o \in Obs : Attached(o) => ost'[o] \in {"ATTACHED", "ATTACHED_ONCE"}
    BY <1>t, <2>3
  <2>6. CASE Unlocked
    BY <1>t, <2>2, <2>6 DEF Unlocked, HitInv
  <2>7. CASE pc = "callback"
    <3>1. \A o \in Obs : Passed(o) => Passed(o)'
      BY <1>t, <2>2, <2>3, <2>4
    <3>2. \A o \in Obs : Ahead(o) => Ahead(o)'
      BY <1>t, <2>2, <2>3, <2>4, <2>5
    <3>3. itor \in 1 .. Len(head)
      BY <1>t, <2>7 DEF ListInv
    <3>4. QED
      BY <1>t, <2>2, <2>3, <2>7, <3>1, <3>2, <3>3 DEF HitInv
  <2>8. QED
    BY <2>2, <2>6, <2>7
<1>3. CASE CallDetach
  <2>1. PICK p \in live : Detach(p) /\ must' = must \ {p}
    BY <1>3 DEF CallDetach
  <2>2. UNCHANGED <<pc, msg, itor, hits>> /\ (Unlocked \/ pc = "callback")
    BY <1>3 DEF CallDetach, CanCall, InCallback
  <2>3. CASE Unlocked
    BY <1>t, <2>2, <2>3 DEF Unlocked, HitInv
  <2>4. CASE pc = "callback"
    <3>1. ost' = [ost EXCEPT ![p] = "DETACHED"] /\ head' = head
      BY <1>t, <2>1, <2>4, DetachFacts DEF InCallback
    <3>2. \A o \in must' : o \in must /\ ost'[o] = ost[o]
      BY <1>t, <2>1, <3>1
    <3>3. QED
      BY <1>t, <2>2, <2>4, <3>1, <3>2 DEF HitInv
  <2>5. QED
    BY <2>2, <2>3, <2>4
<1>4. CASE Recv \/ Destruct
  BY <1>4, <1>t DEF Recv, Destruct, HitInv
<1>5. CASE Notify
  <2>1. /\ pc' = "scan" /\ itor' = 1 /\ hits' = [o \in Obs |-> 0]
        /\ UNCHANGED <<msg, head, ost>>
        /\ must' = {o \in Listed : Attached(o) /\ Sees(o)}
    BY <1>5 DEF Notify
  <2>2. \A o \in must' : Ahead(o)'
    <3>1. SUFFICES ASSUME NEW o \in must' PROVE Ahead(o)'
      OBVIOUS
    <3>2. o \in Listed /\ Attached(o) /\ Sees(o)
      BY <2>1, <3>1
    <3>3. \E i \in 1 .. Len(head) : head[i] = o /\ i >= 1
      BY <1>t, <3>2 DEF Listed
    <3>4. QED
      BY <2>1, <3>2, <3>3
  <2>3. QED
    BY <2>1, <2>2 DEF HitInv
<1>6. CASE ScanSkip
  <2>1. /\ itor' = itor + 1 /\ itor <= Len(head) /\ pc = "scan"
        /\ ~(Attached(head[itor]) /\ Sees(head[itor]))
        /\ UNCHANGED <<pc, msg, head, ost, must, hits>>
    BY <1>6 DEF ScanSkip, At
  <2>2. \A o \in Obs : Passed(o) => Passed(o)'
    BY <1>t, <2>1
  <2>3. \A o \in Obs : Ahead(o) => Ahead(o)'
    BY <1>t, <2>1
  <2>4. QED
    BY <1>t, <2>1, <2>2, <2>3 DEF HitInv
<1>7. CASE Trigger
  <2>1. /\ pc = "scan" /\ pc' = "callback" /\ itor <= Len(head)
        /\ hits' = [hits EXCEPT ![head[itor]] = @ + 1]
        /\ UNCHANGED <<msg, itor, head, ost, must>>
    BY <1>7 DEF Trigger, At
  <2>2. itor \in 1 .. Len(head) /\ head[itor] \in Obs
    BY <1>t, <2>1
  <2>3. ~Passed(head[itor])
    <3>1. \A i \in Places : head[i] = head[itor] => i = itor
      BY <1>t, <2>2 DEF ListInv
    <3>2. QED
      BY <2>1, <2>2, <3>1
  <2>4. hits[head[itor]] = 0
    BY <1>t, <2>1, <2>2, <2>3 DEF HitInv
  <2>5. /\ hits'[head[itor]] = 1
        /\ \A o \in Obs : o # head[itor] => hits'[o] = hits[o]
    BY <1>t, <2>1, <2>2, <2>4
  <2>6. \A o \in Obs : hits'[o] = 1 => Passed(o)'
    BY <1>t, <2>1, <2>2, <2>5 DEF HitInv
  <2>7. \A o \in must' : hits'[o] = 1 \/ Ahead(o)'
    <3>1. must' = must /\ \A o \in must : o \in Obs /\ (hits[o] = 1 \/ Ahead(o))
      BY <1>7, <1>t, <2>1 DEF HitInv, TypeOK, Trigger
    <3>2. \A o \in must : Ahead(o) => Ahead(o)'
      BY <1>t, <2>1
    <3>3. QED
      BY <2>5, <3>1, <3>2
  <2>8. QED
    BY <1>t, <2>1, <2>5, <2>6, <2>7 DEF HitInv
<1>8. CASE Return
  <2>1. /\ pc = "callback" /\ pc' = "scan" /\ itor <= Len(head) /\ itor' = itor + 1
        /\ UNCHANGED <<msg, head, must, hits>>
    BY <1>8 DEF Return, At
  <2>2. itor \in 1 .. Len(head) /\ head[itor] \in Obs
    BY <1>t, <2>1
  <2>3. \A o \in Obs : o # head[itor] => ost'[o] = ost[o]
    BY <1>8, <1>t, <2>2 DEF Return
  <2>4. \A o \in Obs : Passed(o) => Passed(o)'
    BY <1>t, <2>1
  <2>5. \A o \in Obs : o # head[itor] /\ Ahead(o) => Ahead(o)'
    <3>1. SUFFICES ASSUME NEW o \in Obs, o # head[itor], Ahead(o) PROVE Ahead(o)'
      OBVIOUS
    <3>2. PICK i \in Places : head[i] = o /\ i >= itor
      BY <3>1
    <3>3. i \in Places' /\ head'[i] = o /\ i >= itor'
      BY <1>t, <2>1, <2>2, <3>1, <3>2
    <3>4. Attached(o)' /\ Sees(o)'
      BY <2>1, <2>3, <3>1
    <3>5. QED
      BY <3>3, <3>4
  <2>6. hits'[head[itor]] = 1
    BY <1>t, <2>1 DEF HitInv
  <2>7. \A o \in Obs : hits'[o] = 1 => Passed(o)'
    BY <1>t, <2>1, <2>4 DEF HitInv
  <2>8. \A o \in must' : hits'[o] = 1 \/ Ahead(o)'
    <3>1. must' = must /\ \A o \in must : o \in Obs /\ (hits[o] = 1 \/ Ahead(o))
      BY <1>t, <2>1 DEF HitInv
    <3>2. QED
      BY <2>1, <2>5, <2>6, <3>1
  <2>9. QED
    BY <1>t, <2>1, <2>7, <2>8 DEF HitInv
<1>9. CASE ScanEnd
  <2>1. pc = "scan" /\ pc' = "sweep" /\ itor > Len(head) /\ UNCHANGED <<must, hits>>
    BY <1>9 DEF ScanEnd
  <2>2. \A o \in must : ~Ahead(o)
    BY <1>t, <2>1
  <2>3. QED
    BY <1>t, <2>1, <2>2 DEF HitInv
<1>10. CASE SweepDel \/ SweepKeep
  BY <1>10, <1>t DEF SweepDel, SweepKeep, At, HitInv
<1>11. CASE SweepEnd
  BY <1>11, <1>t DEF SweepEnd, HitInv
<1>12. CASE UNCHANGED vars
  BY <1>12, <1>t DEF vars, HitInv
<1>13. QED
  BY <1>1, <1>2, <1>3, <1>4, <1>5, <1>6, <1>7, <1>8, <1>9, <1>10, <1>11, <1>12
     DEF Next, Looper

LEMMA Invariant == Spec => []IInv
<1>1. Init => IInv
  BY InitIInv
<1>2. IInv /\ [Next]_vars => IInv'
  BY TypeStep, ListStep, ArmedStep, HitStep DEF IInv
<1>3. QED
  BY <1>1, <1>2, PTL DEF Spec

-----------------------------------------------------------------------------
\* The variables have their types in every state: the looper and the callers
\* of attach and detach never leave the list.
THEOREM TypeCorrect == Spec => []TypeOK
<1>1. IInv => TypeOK
  BY DEF IInv
<1>2. QED
  BY <1>1, Invariant, PTL

\* The list of publisher.c holds no observer twice and none that
\* observer_destroy freed, whatever callbacks and threads call meanwhile.
THEOREM ListSoundCorrect == Spec => []ListSound
<1>1. IInv => ListSound
  <2> SUFFICES ASSUME TypeOK, ListInv PROVE ListSound
    BY DEF IInv
  <2>1. DOMAIN head = Places
    BY DEF TypeOK, Places
  <2>2. QED
    BY <2>1 DEF ListInv, ListSound, Listed
<1>2. QED
  BY <1>1, Invariant, PTL

\* notify triggers an observer at most once for an event, and leaves none out
\* that was attached when it took the event up and was not detached.
THEOREM EachOnceCorrect == Spec => []EachOnce
<1>1. IInv => EachOnce
  BY DEF IInv, HitInv, EachOnce, TypeOK
<1>2. QED
  BY <1>1, Invariant, PTL

\* notify triggers an observer only while the last call about it that returned
\* 0 is an attach, or a touch that was not used up.
THEOREM OnlyArmedCorrect == Spec => OnlyArmed
<1>1. IInv /\ [Next]_vars => [\A o \in Obs : hits'[o] > hits[o] => armed[o] # "no"]_vars
  <2> SUFFICES ASSUME IInv, Next, NEW o \in Obs, hits'[o] > hits[o]
               PROVE  armed[o] # "no"
    BY DEF vars
  <2> USE DEF bus, loop, list, past
  <2>t. TypeOK /\ ListInv /\ hits \in [Obs -> Nat] /\ itor \in 1 .. Len(head) + 1
    BY DEF IInv, TypeOK
  <2>1. CASE Trigger
    <3>1. head[itor] \in Obs /\ pc = "scan"
      BY <2>1, <2>t DEF Trigger, At, TypeOK
    <3>2. o = head[itor] /\ Attached(o)
      BY <2>1, <2>t, <3>1 DEF Trigger
    <3>3. armed[o] = ost[o]
      BY <3>1, <3>2 DEF IInv, ArmedInv
    <3>4. QED
      BY <3>2, <3>3 DEF Attached
  <2>2. CASE Notify
    BY <2>2, <2>t DEF Notify
  <2>3. CASE Send \/ SendWait \/ CallAttach \/ CallDetach \/ Destroy
    BY <2>3, <2>t DEF Send, SendWait, CallAttach, CallDetach, Destroy
  <2>4. CASE Recv \/ Execute \/ ScanSkip \/ Return \/ ScanEnd
    BY <2>4, <2>t DEF Recv, Execute, ScanSkip, Return, ScanEnd
  <2>5. CASE SweepDel \/ SweepKeep \/ SweepEnd \/ Destruct
    BY <2>5, <2>t DEF SweepDel, SweepKeep, SweepEnd, Destruct
  <2>6. QED
    BY <2>1, <2>2, <2>3, <2>4, <2>5 DEF Next, Looper
<1>2. QED
  BY <1>1, Invariant, PTL DEF Spec, OnlyArmed
=============================================================================
