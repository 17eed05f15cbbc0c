----------------------------- MODULE NVRegister -----------------------------
(***************************************************************************)
(* What a non-volatile store of one record promises, power failures        *)
(* included: what is found in it changes only while an operation is going  *)
(* on, and then to the record being stored or to none; an interrupted      *)
(* store loses the record before it and never brings an older one back.    *)
(***************************************************************************)
CONSTANTS Vals,        \* the records
          Lost,        \* what may be found that is no record
          Idle, Erase  \* values of doing

VARIABLES reg,   \* what is found
          doing  \* the record being stored, Erase or Idle

vars == <<reg, doing>>

Init == reg \in Lost /\ doing = Idle

Begin == doing = Idle /\ doing' \in Vals \cup {Erase} /\ UNCHANGED reg

\* Before a new record can be stored the old one is lost, and this may be the
\* last step taken.
Lose == doing # Idle /\ reg' \in Lost /\ doing' \in {doing, Idle}

Store == doing \in Vals /\ reg' = doing /\ doing' = Idle

GiveUp == doing # Idle /\ doing' = Idle /\ UNCHANGED reg

Next == Begin \/ Lose \/ Store \/ GiveUp

Spec == Init /\ [][Next]_vars
=============================================================================
