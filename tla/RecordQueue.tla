---------------------------- MODULE RecordQueue -----------------------------
(***************************************************************************)
(* What a receive cache promises: a bounded first-in first-out queue.  An  *)
(* item enters only while there is room, items leave in the order they     *)
(* entered, each once, and the owner may empty the queue.                  *)
(***************************************************************************)
EXTENDS Naturals, Sequences

CONSTANTS Cap,    \* items the queue holds
          Item

VARIABLES queue,  \* the items, oldest first
          taken   \* the item handed over last, <<>> before the first

vars == <<queue, taken>>

Init == queue = <<>> /\ taken = <<>>

Put == /\ Len(queue) < Cap
       /\ \E x \in Item : queue' = Append(queue, x)
       /\ UNCHANGED taken

Take == /\ queue # <<>>
        /\ taken' = Head(queue)
        /\ queue' = Tail(queue)

Clear == queue' = <<>> /\ UNCHANGED taken

Next == Put \/ Take \/ Clear

Spec == Init /\ [][Next]_vars
=============================================================================
