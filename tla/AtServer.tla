------------------------------ MODULE AtServer -------------------------------
(***************************************************************************)
(* The socket server of the AT commands (project/at_demo/functions.c).     *)
(* AT+S.SOCKD=<port> starts it, as a thread that listens and accepts (TCP) *)
(* or as a socket (UDP); data mode passes on what its connection receives; *)
(* AT+S.SOCKD=0 closes it.  A semaphore with one token lets the thread     *)
(* accept only while no connection is served.                              *)
(*                                                                         *)
(* Two threads: the one that runs the commands, and the server's.  The     *)
(* numbers of sockets are lwIP's, shared with the rest of the program.     *)
(***************************************************************************)
EXTENDS Lwip

VARIABLES
  fd,      \* lwIP: what each number is
  enable,  \* g_server_enable
  arg,     \* g_server_arg.protocol
  net,     \* g_server_net
  ctrl,    \* g_server_ctrl
  sem,     \* g_server_sem: None, or its tokens
  mutex,   \* g_server_mutex: the server's thread has it, or had it when deleted
  at,      \* the commands' thread: its place
  noted,   \* ... and what SOCKD=0 read of g_server_net
  srv,     \* the server's thread: its place
  own,     \* ... its sock_fd, and sock_conn
  missed,  \* history: accept gave no connection, with the token taken
  held     \* history: the thread had a lock or a socket of its own when deleted

serverVars == <<fd, enable, arg, net, ctrl, sem, mutex, at, noted, srv, own, missed, held>>

None    == -1
FdNumbers == Fds \cup {None}
Uses    == {"free", "listen", "conn", "udp", "other"}
NoNet   == [flag |-> FALSE, sock |-> None, conn |-> None]
NoCtrl  == [flag |-> FALSE, prot |-> "tcp", conn |-> 0]

ServerInit ==
  /\ fd = [f \in Fds |-> "free"]
  /\ enable = FALSE /\ arg = "tcp"
  /\ net = [flag |-> FALSE, sock |-> 0, conn |-> 0]
  /\ ctrl = NoCtrl
  /\ sem = None /\ mutex = "free"
  /\ at = "idle" /\ noted = NoNet
  /\ srv = "none" /\ own = [sock |-> None, conn |-> None]
  /\ missed = FALSE /\ held = FALSE

Freed(n) == IF n \in Fds THEN [fd EXCEPT ![n] = "free"] ELSE fd

\* The rest of the program uses sockets too.
OtherUse ==
  /\ \E f \in Fds : \E u, v \in {"free", "other"} :
       u # v /\ fd[f] = u /\ fd' = [fd EXCEPT ![f] = v]
  /\ UNCHANGED <<enable, arg, net, ctrl, sem, mutex, at, noted, srv, own, missed, held>>

-----------------------------------------------------------------------------
(* AT+S.SOCKD=<port>.  No thread of the server's is there, but what an     *)
(* earlier one had locked stays locked.                                    *)

\* Mutant of SockdTcp: g_server_ctrl is not cleared.
SockdTcpStale ==
  /\ at = "idle" /\ ~enable /\ mutex = "free"
  /\ arg' = "tcp" /\ net' = NoNet
  /\ sem' = 1 /\ srv' = "start" /\ enable' = TRUE
  /\ own' = [sock |-> None, conn |-> None]
  /\ missed' = FALSE /\ held' = FALSE
  /\ UNCHANGED <<fd, ctrl, mutex, at, noted>>

SockdTcp ==
  /\ at = "idle" /\ ~enable /\ mutex = "free"
  /\ arg' = "tcp" /\ net' = NoNet /\ ctrl' = NoCtrl
  /\ sem' = 1 /\ srv' = "start" /\ enable' = TRUE
  /\ own' = [sock |-> None, conn |-> None]
  /\ missed' = FALSE /\ held' = FALSE
  /\ UNCHANGED <<fd, mutex, at, noted>>

\* No semaphore, or no thread: what was made stays.
SockdTcpFails ==
  /\ at = "idle" /\ ~enable /\ mutex = "free"
  /\ arg' = "tcp" /\ net' = NoNet
  /\ sem' \in {None, 1}
  /\ UNCHANGED <<fd, enable, ctrl, mutex, at, noted, srv, own, missed, held>>

SockdUdp ==
  /\ at = "idle" /\ ~enable /\ mutex = "free"
  /\ arg' = "udp"
  /\ \E f \in Fds :
       /\ fd[f] = "free" /\ fd' = [fd EXCEPT ![f] = "udp"]
       /\ net' = [flag |-> TRUE, sock |-> None, conn |-> f]
  /\ enable' = TRUE
  /\ UNCHANGED <<ctrl, sem, mutex, at, noted, srv, own, missed, held>>

\* No socket, or bind fails.
SockdUdpFails ==
  /\ at = "idle" /\ ~enable
  /\ arg' = "udp"
  /\ UNCHANGED <<fd, enable, net, ctrl, sem, mutex, at, noted, srv, own, missed, held>>

-----------------------------------------------------------------------------
(* AT+S.SOCKD=0, one call after the other.                                 *)

SockdOff ==
  /\ at = "idle" /\ enable /\ mutex = "free"
  /\ noted' = net
  /\ at' = IF arg = "tcp" THEN "close_sock" ELSE "close_udp"
  /\ UNCHANGED <<fd, enable, arg, net, ctrl, sem, mutex, srv, own, missed, held>>

CloseSock ==
  /\ at = "close_sock"
  /\ fd' = Freed(noted.sock) /\ at' = "close_conn"
  /\ UNCHANGED <<enable, arg, net, ctrl, sem, mutex, noted, srv, own, missed, held>>

CloseConn ==
  /\ at = "close_conn"
  /\ fd' = IF noted.flag THEN Freed(noted.conn) ELSE fd
  /\ at' = "delete_sem"
  /\ UNCHANGED <<enable, arg, net, ctrl, sem, mutex, noted, srv, own, missed, held>>

CloseUdp ==
  /\ at = "close_udp"
  /\ fd' = IF noted.flag THEN Freed(noted.conn) ELSE fd
  /\ enable' = FALSE /\ at' = "idle"
  /\ UNCHANGED <<arg, net, ctrl, sem, mutex, noted, srv, own, missed, held>>

SemaphoreDelete ==
  /\ at = "delete_sem"
  /\ sem' = None /\ at' = "delete_thread"
  /\ UNCHANGED <<fd, enable, arg, net, ctrl, mutex, noted, srv, own, missed, held>>

\* The thread ends where it is, or has ended by itself: then the handle is
\* refused.  A lock it has stays locked, a socket it did not note stays open.
ThreadDelete ==
  /\ at = "delete_thread"
  /\ mutex' = IF mutex = "server" THEN "dead" ELSE mutex
  /\ held' = \/ mutex = "server"
             \/ srv \in {"made", "got"}
  /\ srv' = "none"
  /\ enable' = FALSE /\ at' = "idle"
  /\ UNCHANGED <<fd, arg, net, ctrl, sem, noted, own, missed>>

-----------------------------------------------------------------------------
(* Data mode, as server.                                                   *)

ServeMode ==
  /\ at = "idle" /\ enable /\ at' = "mode"
  /\ UNCHANGED <<fd, enable, arg, net, ctrl, sem, mutex, noted, srv, own, missed, held>>

\* A call of mode with no connection in g_server_ctrl looks for one.
ModeLook ==
  /\ at = "mode" /\ ~ctrl.flag /\ mutex = "free"
  /\ ctrl' = [flag |-> net.flag, prot |-> arg, conn |-> net.conn]
  /\ at' = IF net.flag THEN "mode" ELSE "idle"
  /\ UNCHANGED <<fd, enable, arg, net, sem, mutex, noted, srv, own, missed, held>>

\* The escape sequence, or select, recv or send fails.  What is received
\* and sent otherwise leaves no trace.
ServeEnds ==
  /\ at = "mode" /\ at' = "idle"
  /\ UNCHANGED <<fd, enable, arg, net, ctrl, sem, mutex, noted, srv, own, missed, held>>

\* recv can return 0: the end of a connection, or an empty datagram.
MayDisconnect(f) == f \in Fds /\ fd[f] \in {"conn", "udp", "other"}

\* Mutant of ModeDisconnect: the socket is closed, and g_server_net keeps it.
ModeDisconnectClosed ==
  /\ at = "mode" /\ ctrl.flag /\ MayDisconnect(ctrl.conn)
  /\ fd' = [fd EXCEPT ![ctrl.conn] = "free"]
  /\ at' = IF ctrl.prot = "tcp" THEN "release" ELSE "idle"
  /\ UNCHANGED <<enable, arg, net, ctrl, sem, mutex, noted, srv, own, missed, held>>

ModeDisconnect ==
  /\ at = "mode" /\ ctrl.flag /\ MayDisconnect(ctrl.conn)
  /\ IF ctrl.prot = "tcp"
     THEN /\ mutex = "free"
          /\ net' = [net EXCEPT !.flag = FALSE, !.conn = None]
          /\ at' = "release"
     ELSE at' = "idle" /\ UNCHANGED net
  /\ UNCHANGED <<fd, enable, arg, ctrl, sem, mutex, noted, srv, own, missed, held>>

ModeRelease ==
  /\ at = "release"
  /\ sem' = IF sem = None THEN sem ELSE 1
  /\ ctrl' = [ctrl EXCEPT !.flag = FALSE]
  /\ at' = "idle"
  /\ UNCHANGED <<fd, enable, arg, net, mutex, noted, srv, own, missed, held>>

-----------------------------------------------------------------------------
(* server_task.                                                            *)

CreateSocket ==
  /\ srv = "start"
  /\ \/ \E f \in Fds :
          /\ fd[f] = "free" /\ fd' = [fd EXCEPT ![f] = "listen"]
          /\ own' = [own EXCEPT !.sock = f] /\ srv' = "made"
     \/ srv' = "end" /\ UNCHANGED <<fd, own>>
  /\ UNCHANGED <<enable, arg, net, ctrl, sem, mutex, at, noted, missed, held>>

\* The three places where the thread writes g_server_net begin with a lock.
Lock ==
  /\ mutex = "free"
  /\ \/ srv = "made" /\ srv' = "made_locked"
     \/ srv = "got" /\ srv' = "got_locked"
     \/ srv = "end" /\ srv' = "end_locked"
  /\ mutex' = "server"
  /\ UNCHANGED <<fd, enable, arg, net, ctrl, sem, at, noted, own, missed, held>>

NoteSocket ==
  /\ srv = "made_locked"
  /\ net' = [net EXCEPT !.sock = own.sock]
  /\ mutex' = "free" /\ srv' = "setup"
  /\ UNCHANGED <<fd, enable, arg, ctrl, sem, at, noted, own, missed, held>>

\* setsockopt, bind and listen.
Setup ==
  /\ srv = "setup"
  /\ \/ srv' = "wait" /\ UNCHANGED fd
     \/ srv' = "end" /\ fd' = Freed(own.sock)
  /\ UNCHANGED <<enable, arg, net, ctrl, sem, mutex, at, noted, own, missed, held>>

\* Mutant of Wait: the thread does not wait.
WaitNot ==
  /\ srv = "wait" /\ srv' = "accept"
  /\ UNCHANGED <<fd, enable, arg, net, ctrl, sem, mutex, at, noted, own, missed, held>>

\* With the semaphore gone, the thread asks again and again.
Wait ==
  /\ srv = "wait" /\ sem = 1
  /\ sem' = 0 /\ srv' = "accept"
  /\ UNCHANGED <<fd, enable, arg, net, ctrl, mutex, at, noted, own, missed, held>>

\* 0 is the number of a socket, and is not taken for one.
Accept ==
  /\ srv = "accept"
  /\ \/ \E f \in Fds :
          /\ own.sock \in Fds /\ fd[own.sock] = "listen"
          /\ fd[f] = "free" /\ fd' = [fd EXCEPT ![f] = "conn"]
          /\ own' = [own EXCEPT !.conn = f]
          /\ srv' = IF f > 0 THEN "got" ELSE "wait"
          /\ missed' = (missed \/ f = 0)
     \/ /\ srv' = "wait" /\ missed' = TRUE
        /\ UNCHANGED <<fd, own>>
  /\ UNCHANGED <<enable, arg, net, ctrl, sem, mutex, at, noted, held>>

NoteConn ==
  /\ srv = "got_locked"
  /\ net' = [net EXCEPT !.flag = TRUE, !.conn = own.conn]
  /\ mutex' = "free" /\ srv' = "wait"
  /\ UNCHANGED <<fd, enable, arg, ctrl, sem, at, noted, own, missed, held>>

\* Mutant of GiveUp: the lock is not given back.
GiveUpLocked ==
  /\ srv = "end_locked"
  /\ net' = NoNet /\ srv' = "none"
  /\ UNCHANGED <<fd, enable, arg, ctrl, sem, mutex, at, noted, own, missed, held>>

GiveUp ==
  /\ srv = "end_locked"
  /\ net' = NoNet
  /\ mutex' = "free" /\ srv' = "none"
  /\ UNCHANGED <<fd, enable, arg, ctrl, sem, at, noted, own, missed, held>>

-----------------------------------------------------------------------------
Command ==
  \/ SockdTcp \/ SockdTcpFails \/ SockdUdp \/ SockdUdpFails
  \/ SockdOff \/ CloseSock \/ CloseConn \/ CloseUdp \/ SemaphoreDelete \/ ThreadDelete
  \/ ServeMode \/ ModeLook \/ ServeEnds \/ ModeDisconnect \/ ModeRelease

ServerTask ==
  \/ CreateSocket \/ Lock \/ NoteSocket \/ Setup
  \/ Wait \/ Accept \/ NoteConn \/ GiveUp

ServerNext == Command \/ ServerTask \/ OtherUse

ServerSpec == ServerInit /\ [][ServerNext]_serverVars

-----------------------------------------------------------------------------
Busy    == {"accept", "got", "got_locked"}
Locked  == {"made_locked", "got_locked", "end_locked"}
Closing == {"close_sock", "close_conn", "close_udp", "delete_sem", "delete_thread"}

ServerTypeOK ==
  /\ fd \in [Fds -> Uses] /\ enable \in BOOLEAN /\ arg \in {"tcp", "udp"}
  /\ net \in [flag : BOOLEAN, sock : FdNumbers \cup {0}, conn : FdNumbers \cup {0}]
  /\ ctrl \in [flag : BOOLEAN, prot : {"tcp", "udp"}, conn : FdNumbers \cup {0}]
  /\ sem \in {None, 0, 1} /\ mutex \in {"free", "server", "dead"}
  /\ at \in {"idle", "mode", "release"} \cup Closing
  /\ srv \in {"none", "start", "made", "setup", "wait", "end"} \cup Busy \cup Locked
  /\ noted \in [flag : BOOLEAN, sock : FdNumbers \cup {0}, conn : FdNumbers \cup {0}]
  /\ own \in [sock : FdNumbers, conn : FdNumbers]
  /\ mutex = "server" <=> srv \in Locked
  /\ missed \in BOOLEAN /\ held \in BOOLEAN

One(b) == IF b THEN 1 ELSE 0

(* The token of the semaphore is in one place: free, with the thread that  *)
(* accepts, with the connection served, or on its way back from data mode. *)
(* With more, a connection served would be replaced by a new one; with     *)
(* none, no connection is ever accepted again, which is what happens after *)
(* an accept that fails, and only then.                                    *)
TokenExact ==
  LET tokens == One(sem = 1) + One(srv \in Busy) + One(net.flag) + One(at = "release")
  IN enable /\ arg = "tcp" /\ sem # None =>
       tokens =< 1 /\ (missed \/ tokens = 1)

(* With a TCP server, data mode passes on the connection that was accepted *)
(* last, as long as its socket is open: never one of an earlier server,    *)
(* nor a number that means another socket by now.                          *)
ServesOwn ==
  at \in {"idle", "mode"} /\ enable /\ arg = "tcp" =>
    /\ net.flag => net.conn \in Fds /\ fd[net.conn] = "conn"
    /\ ctrl.flag => net.flag /\ ctrl.conn = net.conn

(* SOCKD=0 closes the sockets of the server and no other, though it closes *)
(* what it read before.  Not so if the thread gives up meanwhile.          *)
ClosesOwn ==
  /\ at = "close_sock" /\ noted.sock \in Fds =>
       fd[noted.sock] = "listen" \/ srv \in {"end", "end_locked", "none"}
  /\ at \in {"close_sock", "close_conn"} /\ noted.flag => fd[noted.conn] = "conn"
  /\ at = "close_udp" /\ noted.flag => fd[noted.conn] = "udp"

-----------------------------------------------------------------------------
(* What a comment and the help say, and the code does not keep (README, 5). *)

(* A thread that is deleted has freed what it took.  SOCKD=0 deletes the   *)
(* server's wherever it is: with the lock, so that the commands' thread    *)
(* waits for ever the next time, or with a socket nobody else knows.       *)
DeletedHasFreed == ~held

(* An enabled UDP server is the one data mode serves.  The code clears     *)
(* g_server_ctrl for a TCP server only.                                    *)
UdpServed == at = "mode" /\ enable /\ arg = "udp" /\ ctrl.flag =>
               ctrl.prot = "udp" /\ ctrl.conn = net.conn

(* An enabled TCP server with no connection will accept one.               *)
ServerListens ==
  at \in {"idle", "mode"} /\ enable /\ arg = "tcp" /\ srv = "wait" /\ ~net.flag => sem = 1
=============================================================================
