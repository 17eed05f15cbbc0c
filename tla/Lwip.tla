-------------------------------- MODULE Lwip ---------------------------------
(***************************************************************************)
(* The sockets of lwIP as the AT commands know them: by their numbers.     *)
(* What a socket is differs with its use: see AtSocket and AtServer.       *)
(***************************************************************************)
EXTENDS Integers

CONSTANT Fds   \* the numbers of sockets lwIP has

ASSUME LwipAssumption == Fds \subseteq Nat
=============================================================================
