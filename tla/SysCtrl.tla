------------------------------- MODULE SysCtrl -------------------------------
(***************************************************************************)
(* The event system of the firmware (project/common/framework/sys_ctrl): a *)
(* bounded queue of events, a thread (looper.c) that takes one after the   *)
(* other, runs the handler it carries and has the publisher (publisher.c)  *)
(* notify the observers attached, and callers that wait for their handler  *)
(* to be finished.                                                         *)
(*                                                                         *)
(* The publisher holds a recursive lock while it notifies: other threads   *)
(* wait for its end to attach or detach, the callbacks it runs need not.   *)
(* What callbacks do, and in which order, is left open.                    *)
(***************************************************************************)
EXTENDS Integers, Sequences, FiniteSets

CONSTANTS Obs,        \* the observers
          Events,     \* the events, <<type, subtype>>
          Watch,      \* Watch[o]: the event o was created for
          ALL_SUBTYPE,
          Callers,    \* threads that call sys_handler_send_wait_finish
          NoOne,      \* no caller, and no event
          QLen,       \* PRJCONF_SYS_CTRL_QUEUE_LEN
          MaxMsgs,    \* bound: messages sent
          MaxCalls    \* bound: calls that attach, touch, detach or destroy

ASSUME SysCtrlAssumption ==
  /\ DOMAIN Watch = Obs
  /\ NoOne \notin Callers
  /\ QLen \in Nat \ {0} /\ MaxMsgs \in Nat /\ MaxCalls \in Nat

VARIABLES
  queue,   \* g_sys_queue
  sent,    \* messages accepted by the queue
  wait,    \* callers blocked on the semaphore of their message
  pc, msg, \* the looper: its place, its message
  head,    \* the list of observers
  itor,    \* notify: the place in the list
  ost,     \* obs->state
  live,    \* observers created and not destroyed
  calls,   \* calls counted by MaxCalls
  armed,   \* history: what the calls that returned 0 ask for
  must,    \* history: observers the event is for, since it was taken up
  hits     \* history: times each was triggered for it

bus   == <<queue, sent, wait>>
loop  == <<pc, msg>>
list  == <<head, itor, ost>>
past  == <<armed, must, hits>>
vars  == <<bus, loop, list, live, calls, past>>

Msgs   == [event : Events, who : Callers \cup {NoOne}, n : 1 .. MaxMsgs]
NoMsg  == [event |-> NoOne, who |-> NoOne, n |-> 0]
States == {"IDLE", "ATTACHED", "ATTACHED_ONCE", "DETACHED"}
Listed == {head[i] : i \in DOMAIN head}

\* s without its element i.
Del(s, i) == [j \in 1 .. Len(s) - 1 |-> s[IF j < i THEN j ELSE j + 1]]

Init ==
  /\ queue = <<>> /\ sent = 0 /\ wait = {}
  /\ pc = "recv" /\ msg = NoMsg
  /\ head = <<>> /\ itor = 1
  /\ ost = [o \in Obs |-> "IDLE"]
  /\ live = Obs /\ calls = 0
  /\ armed = [o \in Obs |-> "no"] /\ must = {} /\ hits = [o \in Obs |-> 0]

-----------------------------------------------------------------------------
(* Sending.  A queue that is full makes the sender wait, which is the same *)
(* as sending later, or refuses the message, which changes nothing.        *)

Accept(e, c) ==
  /\ sent < MaxMsgs
  /\ Len(queue) < QLen
  /\ queue' = Append(queue, [event |-> e, who |-> c, n |-> sent + 1])
  /\ sent' = sent + 1

\* sys_event_send and its variants, sys_handler_send: from any thread, an
\* interrupt or a callback.
Send ==
  /\ \E e \in Events : Accept(e, NoOne)
  /\ UNCHANGED <<wait, loop, list, live, calls, past>>

\* sys_event_handler_send_wait_finish, from a thread that is not the looper.
SendWait ==
  /\ \E c \in Callers \ wait : \E e \in Events :
       Accept(e, c) /\ wait' = wait \cup {c}
  /\ UNCHANGED <<loop, list, live, calls, past>>

-----------------------------------------------------------------------------
(* attach, touch and detach.                                               *)

\* Where the lock is free, and where the looper runs a callback with it.
Unlocked   == pc \in {"recv", "exec", "notify", "destruct"}
InCallback == pc = "callback"
CanCall    == (Unlocked \/ InCallback) /\ calls < MaxCalls

\* Mutant of Attach: an observer in the list is put there again.
AttachAgain(o, st) ==
  IF ost[o] = "DETACHED"
  THEN ost' = [ost EXCEPT ![o] = st] /\ armed' = [armed EXCEPT ![o] = st] /\ UNCHANGED head
  ELSE /\ head' = Append(head, o)
       /\ ost' = [ost EXCEPT ![o] = st] /\ armed' = [armed EXCEPT ![o] = st]

\* __attach: an observer that a callback detached is still in the list.
Attach(o, st) ==
  IF ost[o] = "DETACHED"
  THEN ost' = [ost EXCEPT ![o] = st] /\ armed' = [armed EXCEPT ![o] = st] /\ UNCHANGED head
  ELSE /\ o \notin Listed
       /\ head' = Append(head, o)
       /\ ost' = [ost EXCEPT ![o] = st] /\ armed' = [armed EXCEPT ![o] = st]

\* sys_ctrl_attach and sys_ctrl_touch.  An observer that is attached already
\* is refused.
CallAttach ==
  /\ CanCall
  /\ \E o \in live, st \in {"ATTACHED", "ATTACHED_ONCE"} : Attach(o, st)
  /\ calls' = calls + 1
  /\ UNCHANGED <<bus, loop, itor, live, must, hits>>

\* Mutant of Detach: the observer is taken off the list at once.
DetachNow(o) ==
  /\ head' = SelectSeq(head, LAMBDA p : p # o)
  /\ ost' = [ost EXCEPT ![o] = "IDLE"]

\* detach: the list is not changed while the publisher walks along it.
Detach(o) ==
  IF InCallback
  THEN ost' = [ost EXCEPT ![o] = "DETACHED"] /\ UNCHANGED head
  ELSE /\ IF o \in Listed
          THEN \E i \in DOMAIN head : head[i] = o /\ head' = Del(head, i)
          ELSE UNCHANGED head
       /\ ost' = [ost EXCEPT ![o] = "IDLE"]

CallDetach ==
  /\ CanCall
  /\ \E o \in live : /\ Detach(o)
                     /\ armed' = [armed EXCEPT ![o] = "no"]
                     /\ must' = must \ {o}
  /\ calls' = calls + 1
  /\ UNCHANGED <<bus, loop, itor, live, hits>>

\* Mutant of Destroyable: an observer a callback detached is not waited for.
DestroyableSoon(o) == ost[o] \in {"IDLE", "DETACHED"}

\* observer_destroy refuses an observer that is not idle.  It takes no lock.
Destroyable(o) == ost[o] = "IDLE"

Destroy ==
  /\ calls < MaxCalls
  /\ \E o \in live : Destroyable(o) /\ live' = live \ {o}
  /\ calls' = calls + 1
  /\ UNCHANGED <<bus, loop, list, past>>

-----------------------------------------------------------------------------
(* The looper.                                                             *)

Recv ==
  /\ pc = "recv"
  /\ queue # <<>>
  /\ msg' = Head(queue)
  /\ queue' = Tail(queue)
  /\ pc' = "exec"
  /\ UNCHANGED <<sent, wait, list, live, calls, past>>

\* msg->execute returns, or there is none.
Execute ==
  /\ pc = "exec"
  /\ pc' = "notify"
  /\ UNCHANGED <<bus, msg, list, live, calls, past>>

\* Does an observer of obsEvent see newEvent?
compare(newEvent, obsEvent) ==
  /\ newEvent[1] = obsEvent[1]
  /\ obsEvent[2] = ALL_SUBTYPE \/ newEvent[2] = obsEvent[2]

Sees(o)     == compare(msg.event, Watch[o])
Attached(o) == ost[o] \in {"ATTACHED", "ATTACHED_ONCE"}

\* notify takes the lock.
Notify ==
  /\ pc = "notify"
  /\ pc' = "scan"
  /\ itor' = 1
  /\ must' = {o \in Listed : Attached(o) /\ Sees(o)}
  /\ hits' = [o \in Obs |-> 0]
  /\ UNCHANGED <<bus, msg, head, ost, live, calls, armed>>

At(p) == pc = p /\ itor <= Len(head)

ScanSkip ==
  /\ At("scan")
  /\ ~(Attached(head[itor]) /\ Sees(head[itor]))
  /\ itor' = itor + 1
  /\ UNCHANGED <<bus, loop, head, ost, live, calls, past>>

Trigger ==
  /\ At("scan")
  /\ Attached(head[itor]) /\ Sees(head[itor])
  /\ pc' = "callback"
  /\ hits' = [hits EXCEPT ![head[itor]] = @ + 1]
  /\ armed' = IF ost[head[itor]] = "ATTACHED_ONCE"
              THEN [armed EXCEPT ![head[itor]] = "no"] ELSE armed
  /\ UNCHANGED <<bus, msg, list, live, calls, must>>

\* Mutants of Return: an observer touched stays; the next one is left out
\* when this one goes.
ReturnStay ==
  /\ At("callback")
  /\ itor' = itor + 1
  /\ pc' = "scan"
  /\ UNCHANGED <<bus, msg, head, ost, live, calls, past>>
ReturnSkip ==
  /\ At("callback")
  /\ ost' = IF ost[head[itor]] = "ATTACHED_ONCE"
            THEN [ost EXCEPT ![head[itor]] = "DETACHED"] ELSE ost
  /\ itor' = IF ost' # ost THEN itor + 2 ELSE itor + 1
  /\ pc' = "scan"
  /\ UNCHANGED <<bus, msg, head, live, calls, past>>

\* The callback returns: an observer that was touched is done.
Return ==
  /\ At("callback")
  /\ ost' = IF ost[head[itor]] = "ATTACHED_ONCE"
            THEN [ost EXCEPT ![head[itor]] = "DETACHED"] ELSE ost
  /\ itor' = itor + 1
  /\ pc' = "scan"
  /\ UNCHANGED <<bus, msg, head, live, calls, past>>

ScanEnd ==
  /\ pc = "scan"
  /\ itor > Len(head)
  /\ pc' = "sweep" /\ itor' = 1
  /\ UNCHANGED <<bus, msg, head, ost, live, calls, past>>

\* The observers detached in the callbacks are taken off the list.
SweepDel ==
  /\ At("sweep")
  /\ ost[head[itor]] = "DETACHED"
  /\ head' = Del(head, itor)
  /\ ost' = [ost EXCEPT ![head[itor]] = "IDLE"]
  /\ UNCHANGED <<bus, loop, itor, live, calls, past>>

SweepKeep ==
  /\ At("sweep")
  /\ ost[head[itor]] # "DETACHED"
  /\ itor' = itor + 1
  /\ UNCHANGED <<bus, loop, head, ost, live, calls, past>>

\* The lock is given back.
SweepEnd ==
  /\ pc = "sweep"
  /\ itor > Len(head)
  /\ pc' = "destruct" /\ itor' = 1
  /\ UNCHANGED <<bus, msg, head, ost, live, calls, past>>

\* msg->destruct: the data is freed, or the caller waiting for the handler
\* goes on.
Destruct ==
  /\ pc = "destruct"
  /\ wait' = wait \ {msg.who}
  /\ pc' = "recv"
  /\ UNCHANGED <<queue, sent, msg, list, live, calls, past>>

Looper == \/ Recv \/ Execute \/ Notify
          \/ ScanSkip \/ Trigger \/ Return \/ ScanEnd
          \/ SweepDel \/ SweepKeep \/ SweepEnd \/ Destruct

-----------------------------------------------------------------------------
Next == Send \/ SendWait \/ CallAttach \/ CallDetach \/ Destroy \/ Looper

Spec == Init /\ [][Next]_vars

\* The looper runs, and callbacks return.
FairSpec == Spec /\ WF_vars(Looper)

-----------------------------------------------------------------------------
(* Properties.                                                             *)

TypeOK ==
  /\ queue \in Seq(Msgs) /\ Len(queue) <= QLen
  /\ sent \in 0 .. MaxMsgs
  /\ wait \subseteq Callers
  /\ pc \in {"recv", "exec", "notify", "scan", "callback", "sweep", "destruct"}
  /\ msg \in Msgs \cup {NoMsg}
  /\ head \in Seq(Obs)
  /\ itor \in 1 .. Len(head) + 1
  /\ ost \in [Obs -> States]
  /\ live \subseteq Obs
  /\ calls \in 0 .. MaxCalls
  /\ armed \in [Obs -> {"no", "ATTACHED", "ATTACHED_ONCE"}]
  /\ must \subseteq Obs
  /\ hits \in [Obs -> Nat]

\* The list holds no observer twice, none that is destroyed, and, when the
\* publisher has ended, only observers that are attached.
ListSound ==
  /\ \A i, j \in DOMAIN head : head[i] = head[j] => i = j
  /\ Listed \subseteq live
  /\ Unlocked => \A o \in Listed : Attached(o)

\* An observer is triggered only if an attach or touch that returned 0 asks
\* for it: not after it was detached, and once for a touch.
OnlyArmed ==
  [][\A o \in Obs : hits'[o] > hits[o] => armed[o] # "no"]_vars

\* Whatever the callbacks attach and detach meanwhile, an event triggers each
\* observer at most once, and each one that was attached when it was taken up
\* and was not detached.
EachOnce ==
  /\ \A o \in Obs : hits[o] <= 1
  /\ pc = "sweep" => \A o \in must : hits[o] = 1

\* Every event accepted is notified, in the end, and a caller that waits for its
\* handler on a semaphore of its own goes on.
EventNotified ==
  /\ \A n \in 1 .. MaxMsgs : (sent >= n /\ msg.n < n) ~> (msg.n = n /\ pc = "sweep")
  /\ \A c \in Callers : c \in wait ~> c \notin wait
=============================================================================
