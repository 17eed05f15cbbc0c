------------------------------- MODULE NetCtrl -------------------------------
(***************************************************************************)
(* Network control of a station (project/common/framework/net_ctrl.c,      *)
(* net_sys.c) over lwIP 1.4.1.  Two threads: the looper of the event       *)
(* system, which handles the wlan's events and calls the TCP/IP thread and *)
(* waits for it (netifapi.c), and the TCP/IP thread, which runs the DHCP   *)
(* client and sends events back into the looper's bounded queue, waiting   *)
(* when it is full.                                                        *)
(*                                                                         *)
(* The TCP/IP thread is preempted between any two of its steps: prog is    *)
(* what is left of the call, packet or timeout it is at.  Retries of DHCP  *)
(* that change nothing but the count of tries are left out, and so is the  *)
(* count: a timeout may be the last one at any time.                       *)
(***************************************************************************)
EXTENDS Integers, Sequences

CONSTANTS Addrs,   \* addresses a server may offer, or the configured one
          NoAddr,  \* 0.0.0.0
          QLen     \* PRJCONF_SYS_CTRL_QUEUE_LEN

ASSUME NetCtrlAssumption == NoAddr \notin Addrs /\ QLen \in Nat \ {0}

VARIABLES
  use_dhcp,              \* sysinfo->sta_use_dhcp
  queue,                 \* the looper's queue
  link, up, addr,        \* the interface: NETIF_FLAG_LINK_UP, NETIF_FLAG_UP, ip_addr
  dhcp, offered,         \* netif->dhcp: state, "NULL" without one; offered_ip_addr
  prog,                  \* the TCP/IP thread: steps left
  pc, calls, then, heard,\* the looper: its place, netifapi calls left, the place
                         \*   after them, netif_up_handler's addr
  told,                  \* the address the wlan was told last
  assoc, note, raced     \* history: the last wlan event sent, the last network
                         \*   event handled, a lease bound unawares

netif  == <<link, up, addr>>
lease  == <<dhcp, offered>>
looper == <<pc, calls, then, heard>>
past   == <<assoc, note, raced>>
vars   == <<use_dhcp, queue, netif, lease, prog, looper, told, past>>

WlanEvents == {"CONNECTED", "DISCONNECTED", "SCAN"}
Messages   == WlanEvents \cup {"UP", "DOWN"}
DhcpStates == {"NULL", "OFF", "SELECTING", "REQUESTING", "CHECKING", "BOUND",
               "RENEWING", "REBINDING", "REBOOTING", "BACKING_OFF"}
Idle       == {"NULL", "OFF"}

Init ==
  /\ use_dhcp \in BOOLEAN
  /\ queue = <<>>
  /\ link = FALSE /\ up = FALSE /\ addr = NoAddr
  /\ dhcp = "NULL" /\ offered = NoAddr
  /\ prog = <<>>
  /\ pc = "recv" /\ calls = <<>> /\ then = "recv" /\ heard = NoAddr
  /\ told = NoAddr
  /\ assoc = FALSE /\ note = "DOWN" /\ raced = FALSE

Valid == up /\ addr # NoAddr      \* NET_IS_IP4_VALID

\* net_ctrl_msg_send, with OS_WAIT_FOREVER.
MsgSend(m) == Len(queue) < QLen /\ queue' = Append(queue, m)

-----------------------------------------------------------------------------
(* The wlan.                                                               *)

WlanEvent(e) ==
  /\ MsgSend(e)
  /\ assoc' = CASE e = "CONNECTED" -> TRUE
                [] e = "DISCONNECTED" -> FALSE
                [] OTHER -> assoc
  /\ UNCHANGED <<use_dhcp, netif, lease, prog, looper, told, note, raced>>

-----------------------------------------------------------------------------
(* The TCP/IP thread: what its calls, packets and timeouts do, in steps.   *)
(* The name of a DHCP state is the step that enters it.                    *)

\* dhcp_discover
Discover == <<"SELECTING">>

\* Mutant of Bind: the interface is up before it has its address.
BindUpFirst == <<"set_up", "take_addr", "BOUND">>

\* dhcp_bind
Bind == <<"take_addr", "set_up", "BOUND">>

\* dhcp_handle_nak
HandleNak == <<"set_down", "no_addr", "BACKING_OFF">> \o Discover

\* Mutant of ReleaseDiscover: released, and not started again.
ReleaseOnly == <<"OFF", "set_down", "no_addr">>

\* dhcp_release, then dhcp_discover
ReleaseDiscover == <<"OFF", "set_down", "no_addr">> \o Discover

\* dhcp_network_changed
NetworkChanged ==
  CASE dhcp \in Idle -> <<>>
    [] dhcp \in {"REBINDING", "RENEWING", "BOUND", "REBOOTING"} ->
         <<"set_down", "REBOOTING">>
    [] OTHER -> Discover

\* The function a netifapi call runs in the TCP/IP thread.
Function(call) ==
  CASE call = "set_link_up"   -> <<"link_up">> \o NetworkChanged
    [] call = "set_link_down" -> <<"link_down">>
    [] call = "set_addr_conf" -> <<"conf_addr">>
    [] call = "set_addr_none" -> <<"no_addr">>
    [] call = "set_up"        -> <<"set_up">>
    [] call = "set_down"      -> <<"set_down">>
    [] call = "dhcp_start"    -> Discover
    [] call = "dhcp_stop"     -> <<"OFF">>

\* The looper has called for DHCP to be started, or has the interface down and
\* not yet stopped DHCP: a lease bound now is one it did not reckon with.
Unawares ==
  /\ pc = "wait" /\ calls # <<>>
  /\ \/ calls[1] = "dhcp_start"
     \/ calls[1] # "set_down" /\ calls[Len(calls)] = "dhcp_stop"

Start(p) ==
  /\ prog = <<>>
  /\ prog' = p
  /\ UNCHANGED <<use_dhcp, queue, netif, dhcp, looper, told, assoc, note>>

\* Mutant of Serve: the looper is not answered.
ServeUnanswered ==
  /\ pc = "wait" /\ calls # <<>>
  /\ Start(Function(Head(calls)))
  /\ UNCHANGED <<offered, raced>>

\* tcpip_thread takes the looper's call out of its mailbox.
Serve ==
  /\ pc = "wait" /\ calls # <<>>
  /\ Start(Append(Function(Head(calls)), "answer"))
  /\ UNCHANGED <<offered, raced>>

\* dhcp_handle_offer
Offer ==
  /\ dhcp = "SELECTING"
  /\ Start(<<"REQUESTING">>)
  /\ offered' \in Addrs
  /\ UNCHANGED raced

BindNow == Start(Bind) /\ raced' = (raced \/ Unawares) /\ UNCHANGED offered

\* dhcp_recv of a DHCP_ACK: a new lease is checked before it is bound.
Ack ==
  \/ /\ dhcp = "REQUESTING"
     /\ Start(<<"CHECKING">>)
     /\ offered' \in Addrs
     /\ UNCHANGED raced
  \/ dhcp \in {"REBOOTING", "REBINDING", "RENEWING"} /\ BindNow

Nak ==
  /\ dhcp \in {"REBOOTING", "REQUESTING", "REBINDING", "RENEWING"}
  /\ Start(HandleNak)
  /\ UNCHANGED <<offered, raced>>

\* dhcp_arp_reply and dhcp_decline: another host has the address.
ArpReply ==
  /\ dhcp = "CHECKING"
  /\ Start(<<"BACKING_OFF">>)
  /\ UNCHANGED <<offered, raced>>

\* dhcp_timeout
Timeout ==
  \/ /\ dhcp \in {"BACKING_OFF", "SELECTING", "REBOOTING"}
     /\ Start(Discover)
     /\ UNCHANGED <<offered, raced>>
  \/ /\ dhcp \in {"REQUESTING", "REBINDING"}
     /\ Start(ReleaseDiscover)
     /\ UNCHANGED <<offered, raced>>
  \/ dhcp = "CHECKING" /\ BindNow

\* dhcp_t1_timeout and dhcp_t2_timeout.  Their counters go on through 0, so
\* that they fire in the end whether a lease was bound or not.
LeaseTimeout ==
  /\ dhcp \in {"REQUESTING", "BOUND", "RENEWING"}
  /\ \E s \in {"RENEWING", "REBINDING"} : Start(<<s>>)
  /\ UNCHANGED <<offered, raced>>

-----------------------------------------------------------------------------
(* The TCP/IP thread: one step.                                            *)

\* netif_status_callback: tells the wlan that there is no address, and which
\* message it sends.
StatusCallback(isUp) ==
  IF isUp /\ addr # NoAddr
  THEN prog' = <<"UP">> \o Tail(prog) /\ UNCHANGED told
  ELSE prog' = <<"DOWN">> \o Tail(prog) /\ told' = NoAddr

\* netif_set_up and netif_set_down
SetFlag(isUp) ==
  /\ up' = isUp
  /\ IF up # isUp
     THEN StatusCallback(isUp)
     ELSE prog' = Tail(prog) /\ UNCHANGED told
  /\ UNCHANGED <<queue, link, addr, lease, calls>>

SetLink(isUp) ==
  /\ link' = isUp
  /\ prog' = Tail(prog)
  /\ UNCHANGED <<queue, up, addr, lease, calls, told>>

SetAddr(a) ==
  /\ addr' = a
  /\ prog' = Tail(prog)
  /\ UNCHANGED <<queue, link, up, lease, calls, told>>

\* dhcp_set_state, and the offer that dhcp_discover and dhcp_release forget.
SetState(s) ==
  /\ dhcp' = s
  /\ offered' = IF s \in {"SELECTING", "OFF"} THEN NoAddr ELSE offered
  /\ prog' = Tail(prog)
  /\ UNCHANGED <<queue, netif, calls, told>>

SendNote ==
  /\ MsgSend(Head(prog))
  /\ prog' = Tail(prog)
  /\ UNCHANGED <<netif, lease, calls, told>>

\* TCPIP_NETIFAPI_ACK: the looper's semaphore.
Answer ==
  /\ calls' = Tail(calls)
  /\ prog' = Tail(prog)
  /\ UNCHANGED <<queue, netif, lease, told>>

Step ==
  /\ prog # <<>>
  /\ LET op == Head(prog) IN
     \/ op = "set_up" /\ SetFlag(TRUE)
     \/ op = "set_down" /\ SetFlag(FALSE)
     \/ op = "link_up" /\ SetLink(TRUE)
     \/ op = "link_down" /\ SetLink(FALSE)
     \/ op = "take_addr" /\ SetAddr(offered)
     \/ op = "no_addr" /\ SetAddr(NoAddr)
     \/ op = "conf_addr" /\ \E a \in Addrs : SetAddr(a)
     \/ op \in DhcpStates /\ SetState(op)
     \/ op \in {"UP", "DOWN"} /\ SendNote
     \/ op = "answer" /\ Answer
  /\ UNCHANGED <<use_dhcp, pc, then, heard, past>>

-----------------------------------------------------------------------------
(* The looper in net_ctrl_msg_process.                                     *)

Go(p) == pc' = p /\ UNCHANGED <<calls, then>>

\* netifapi calls one after the other, each waiting for the TCP/IP thread.
Call(cs, p) == pc' = "wait" /\ calls' = cs /\ then' = p

Recv ==
  /\ pc = "recv" /\ queue # <<>>
  /\ queue' = Tail(queue)
  /\ LET m == Head(queue) IN
     /\ CASE m = "CONNECTED" ->
               IF link THEN Go("recv") ELSE Call(<<"set_link_up">>, "config")
          [] m = "DISCONNECTED" ->
               IF link THEN Call(<<"set_link_down">>, "stop") ELSE Go("stop")
          [] m = "UP" -> Go("tell")
          [] OTHER -> Go("recv")
     /\ heard' = IF m = "UP" THEN addr ELSE heard
     /\ note' = IF m \in {"UP", "DOWN"} THEN m ELSE note
  /\ UNCHANGED <<use_dhcp, netif, lease, prog, told, assoc, raced>>

\* tcpip_netifapi returns from the last call.
Answered ==
  /\ pc = "wait" /\ calls = <<>>
  /\ Go(then)
  /\ UNCHANGED <<queue, heard, told>>

\* netif_up_handler: wlan_set_ip_addr, with the address read before.
Tell ==
  /\ pc = "tell"
  /\ Go("recv")
  /\ told' = heard
  /\ heard' = NoAddr
  /\ UNCHANGED queue

\* netif_config, to bring up: whether the interface is up.
Config ==
  /\ pc = "config"
  /\ IF Valid
     THEN Go(IF use_dhcp THEN "recv" ELSE "send")
     ELSE IF use_dhcp
          THEN Go("start")
          ELSE Call(<<"set_addr_conf", "set_up">>, "recv")
  /\ UNCHANGED <<queue, heard, told>>

\* netif_config: netif_status_callback, called by the looper itself.
SendSelf ==
  /\ pc = "send"
  /\ MsgSend("UP")
  /\ Go("recv")
  /\ UNCHANGED <<heard, told>>

\* netif_config, to bring up: whether DHCP is already started.
ConfigStart ==
  /\ pc = "start"
  /\ IF dhcp \in Idle THEN Call(<<"dhcp_start">>, "recv") ELSE Go("recv")
  /\ UNCHANGED <<queue, heard, told>>

\* net_ctrl_msg_process: DHCP that is not bound is stopped, and then
\* netif_config, to bring down, with the link down.
ConfigStop ==
  /\ pc = "stop"
  /\ IF dhcp \in Idle \cup {"BOUND"}
     THEN Go("recv")
     ELSE Call(<<"set_down", "set_addr_none", "dhcp_stop">>, "recv")
  /\ UNCHANGED <<queue, heard, told>>

Handle ==
  /\ Answered \/ Tell \/ Config \/ SendSelf \/ ConfigStart \/ ConfigStop
  /\ UNCHANGED <<use_dhcp, netif, lease, prog, past>>

Looper == Recv \/ Handle

Packet == Offer \/ Ack \/ Nak \/ ArpReply \/ Timeout \/ LeaseTimeout

Next == (\E e \in WlanEvents : WlanEvent(e)) \/ Serve \/ Packet \/ Step \/ Looper

Spec == Init /\ [][Next]_vars

(* Both threads go on, and a call is not passed over for ever: the mailbox *)
(* of the TCP/IP thread is a queue.  Nothing is assumed of the network.    *)
FairSpec == Spec /\ WF_vars(Looper) /\ WF_vars(Step) /\ SF_vars(Serve)

-----------------------------------------------------------------------------

TypeOK ==
  /\ use_dhcp \in BOOLEAN /\ link \in BOOLEAN /\ up \in BOOLEAN
  /\ queue \in Seq(Messages) /\ Len(queue) <= QLen
  /\ addr \in Addrs \cup {NoAddr} /\ offered \in Addrs \cup {NoAddr}
  /\ dhcp \in DhcpStates
  /\ pc \in {"recv", "wait", "config", "start", "stop", "send", "tell"}
  /\ then \in {"recv", "config", "stop"}
  /\ told \in Addrs \cup {NoAddr} /\ heard \in Addrs \cup {NoAddr}
  /\ assoc \in BOOLEAN /\ note \in {"UP", "DOWN"} /\ raced \in BOOLEAN

\* Nobody has anything left to do until the network or the wlan does something.
AtRest == queue = <<>> /\ pc = "recv" /\ prog = <<>>

\* The looper waits for the TCP/IP thread, which waits for room in the
\* looper's queue; or the looper waits for room in its own queue.
Stuck ==
  /\ Len(queue) = QLen
  /\ \/ pc = "send"
     \/ pc = "wait" /\ prog # <<>> /\ Head(prog) \in {"UP", "DOWN"}

(* The interface follows the wlan (net_ctrl.c:494-516): whatever events    *)
(* crossed with leases bound, lost and renewed, once all are handled the   *)
(* link is what the last one said, and a station that is connected has its *)
(* address or runs DHCP -- unless a lease was bound between what the       *)
(* looper read and the calls it made by it.                                *)
FollowsWlan ==
  AtRest => /\ link = assoc
            /\ assoc /\ ~ raced => IF use_dhcp THEN dhcp \notin Idle ELSE Valid

(* The events a reader of the bus goes by (net_ctrl.c:125-138, 527) agree  *)
(* with the interface: when all are handled the last one was "up" exactly  *)
(* if there is an address, and the wlan was told that address -- with the  *)
(* same exception.                                                         *)
NotedRight ==
  AtRest /\ ~ raced => /\ note = "UP" <=> Valid
                       /\ Valid => told = addr

(* The looper comes back for the next event (net_ctrl.c:488-540), unless   *)
(* it and the TCP/IP thread, or it and its own queue, wait for each other. *)
LooperReturns == (pc # "recv") ~> (pc = "recv" \/ Stuck)
=============================================================================
