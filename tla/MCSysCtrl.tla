------------------------------ MODULE MCSysCtrl ------------------------------
(***************************************************************************)
(* An instance of SysCtrl: an observer of one event and one of all events  *)
(* of its type.                                                            *)
(***************************************************************************)
EXTENDS SysCtrl, TLC

CONSTANTS one, all

TheObs    == {one, all}
TheEvents == {<<1, 7>>, <<1, 8>>}
TheWatch  == one :> <<1, 7>> @@ all :> <<1, 65535>>
=============================================================================
