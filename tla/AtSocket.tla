------------------------------ MODULE AtSocket -------------------------------
(***************************************************************************)
(* The connections of the AT commands (project/at_demo/functions.c): a     *)
(* table of connections opened by AT+S.SOCKON and closed by AT+S.SOCKC, a  *)
(* cache for each in which AT+S.SOCKQ and AT+S.SOCKR keep what they        *)
(* received and did not hand over yet, and the data mode, which passes on  *)
(* what connection 0 receives.                                             *)
(*                                                                         *)
(* One thread runs the commands.  The sockets are lwIP's: what comes in,   *)
(* ends or fails there is left open.  The bytes a connection receives are  *)
(* numbered as the program takes them; the numbers of one identifier go on *)
(* through the connections it had, so that no byte is taken for another.   *)
(* What lwIP cuts off a datagram longer than the buffer gets no number.    *)
(***************************************************************************)
EXTENDS Lwip, FiniteSets

CONSTANTS MAX_SOCKET_NUM,
          CacheSize,  \* SOCKET_CACHE_BUFFER_SIZE
          MaxBytes    \* bound: bytes that come in for one identifier

ASSUME AtSocketAssumption ==
  /\ MAX_SOCKET_NUM \in Nat \ {0} /\ CacheSize \in Nat \ {0}
  /\ MaxBytes \in Nat

VARIABLES
  sock,    \* lwIP: is the socket open, bytes that wait in it, its end
  connect, \* networks.connect
  count,   \* networks.count
  cache,   \* socket_cache
  mode,    \* the thread is in data mode
  read,    \* the number of the last byte taken from the socket
  past     \* history: of the connection, see NewPast

vars == <<sock, connect, count, cache, mode, read, past>>

Ids     == 0 .. MAX_SOCKET_NUM - 1
Slots   == 0 .. CacheSize - 1
Numbers == 0 .. MaxBytes
Ends    == {"none", "fin", "reset"}
Prots   == {"tcp", "udp"}

Closed == [open |-> FALSE, avail |-> 0, end |-> "none"]
Opened == [open |-> TRUE, avail |-> 0, end |-> "none"]
Empty  == [flag |-> FALSE, offset |-> 0, cnt |-> 0, buffer |-> [k \in Slots |-> 0]]

\* upto: the last byte handed over; wrong: AT+S.SOCKR handed over a byte that
\* was not the next; lost: a read gave up with bytes in hand; mixed: data
\* mode received while the cache held bytes.
NewPast(id) ==
  [upto |-> read[id], wrong |-> FALSE, lost |-> FALSE, mixed |-> FALSE]

Min2(a, b) == IF a < b THEN a ELSE b

Init ==
  /\ sock = [f \in Fds |-> Closed]
  /\ connect = [id \in Ids |-> [flag |-> FALSE, fd |-> 0, prot |-> "tcp"]]
  /\ count = 0
  /\ cache = [id \in Ids |-> Empty]
  /\ mode = FALSE
  /\ read = [id \in Ids |-> 0]
  /\ past = [id \in Ids |-> NewPast(id)]

-----------------------------------------------------------------------------
(* What the network does with an open socket.                              *)

Holds(id, f) == connect[id].flag /\ connect[id].fd = f

Arrive(f) ==
  /\ sock[f].open /\ sock[f].end = "none"
  /\ \A id \in Ids : Holds(id, f) => read[id] + sock[f].avail < MaxBytes   \* bound
  /\ sock' = [sock EXCEPT ![f].avail = @ + 1]
  /\ UNCHANGED <<connect, count, cache, mode, read, past>>

\* Only a connection ends: a UDP socket has no other side.
Finish(f) ==
  /\ sock[f].open /\ sock[f].end = "none"
  /\ \A id \in Ids : Holds(id, f) => connect[id].prot = "tcp"
  /\ \E e \in {"fin", "reset"} : sock' = [sock EXCEPT ![f].end = e]
  /\ UNCHANGED <<connect, count, cache, mode, read, past>>

-----------------------------------------------------------------------------
(* AT+S.SOCKON.                                                            *)

FirstFree(id) ==
  /\ ~connect[id].flag
  /\ \A i \in Ids : i < id => connect[i].flag

\* The address is not found, or socket, connect or bind fails.
SockonFails ==
  /\ ~mode /\ count < MAX_SOCKET_NUM
  /\ \E id \in Ids, p \in Prots :
       FirstFree(id) /\ connect' = [connect EXCEPT ![id].prot = p]
  /\ UNCHANGED <<sock, count, cache, mode, read, past>>

\* Mutant of Sockon: the cache is not cleared.
SockonStale ==
  /\ ~mode /\ count < MAX_SOCKET_NUM
  /\ \E id \in Ids, f \in Fds, p \in Prots :
       /\ FirstFree(id) /\ ~sock[f].open
       /\ sock' = [sock EXCEPT ![f] = Opened]
       /\ connect' = [connect EXCEPT ![id] = [flag |-> TRUE, fd |-> f, prot |-> p]]
       /\ past' = [past EXCEPT ![id] = NewPast(id)]
  /\ count' = count + 1
  /\ UNCHANGED <<cache, mode, read>>

Sockon ==
  /\ ~mode /\ count < MAX_SOCKET_NUM
  /\ \E id \in Ids, f \in Fds, p \in Prots :
       /\ FirstFree(id) /\ ~sock[f].open
       /\ sock' = [sock EXCEPT ![f] = Opened]
       /\ connect' = [connect EXCEPT ![id] = [flag |-> TRUE, fd |-> f, prot |-> p]]
       /\ cache' = [cache EXCEPT ![id] = Empty]
       /\ past' = [past EXCEPT ![id] = NewPast(id)]
  /\ count' = count + 1
  /\ UNCHANGED <<mode, read>>

-----------------------------------------------------------------------------
(* AT+S.SOCKC, and disconnect, which AT+S.SOCKW calls when send returns 0. *)
(* Whatever else AT+S.SOCKW meets leaves the tables as they are.           *)

Has(id) == count > 0 /\ connect[id].flag

\* Mutant of Disconnect: the socket stays open.
DisconnectOpen(id) ==
  /\ ~mode /\ Has(id)
  /\ connect' = [connect EXCEPT ![id].flag = FALSE]
  /\ count' = count - 1
  /\ UNCHANGED <<sock, cache, mode, read, past>>

Disconnect(id) ==
  /\ ~mode /\ Has(id)
  /\ sock' = [sock EXCEPT ![connect[id].fd] = Closed]
  /\ connect' = [connect EXCEPT ![id].flag = FALSE]
  /\ count' = count - 1
  /\ UNCHANGED <<cache, mode, read, past>>

-----------------------------------------------------------------------------
(* read_socket: receive for 10 ms, until the cache is full or the socket   *)
(* ends.  What comes in meanwhile might have come in before.               *)

\* The bytes recv takes, one call after the other, for a buffer of n.
Taken(id, n) == Min2(sock[connect[id].fd].avail, n)

\* n more bytes, at the start of the buffer.
Fill(id, n) ==
  [k \in Slots |-> IF k < n THEN read[id] + k + 1 ELSE cache[id].buffer[k]]

Take(id, n) ==
  /\ sock' = [sock EXCEPT ![connect[id].fd].avail = @ - n]
  /\ read' = [read EXCEPT ![id] = @ + n]

\* After n bytes recv returns 0 or an error: the end of what was sent, a
\* reset, which does not wait for it, or an empty datagram.
MayEnd(id, n) ==
  /\ n < CacheSize /\ n =< Taken(id, CacheSize)
  /\ \/ sock[connect[id].fd].end = "fin" /\ n = Taken(id, CacheSize)
     \/ sock[connect[id].fd].end = "reset"
     \/ connect[id].prot = "udp"

\* The cache after a read of n bytes.
Cached(id, n) ==
  IF n = 0 THEN cache[id]
  ELSE [flag |-> TRUE, offset |-> 0, cnt |-> n, buffer |-> Fill(id, n)]

\* Time is over, or the cache is full.
ReadOk(id, n) ==
  /\ ~cache[id].flag
  /\ n = Taken(id, CacheSize)
  /\ n = 0 => sock[connect[id].fd].end = "none"
  /\ Take(id, n)

\* AT+S.SOCKQ or AT+S.SOCKR meets the end: what the loop received before is
\* in the buffer, but recvLen is no longer its length.
ReadEnds(id) ==
  /\ ~mode /\ Has(id) /\ ~cache[id].flag
  /\ \E n \in 0 .. CacheSize :
       /\ MayEnd(id, n)
       /\ Take(id, n)
       /\ cache' = [cache EXCEPT ![id].buffer = Fill(id, n)]
       /\ past' = [past EXCEPT ![id].lost = @ \/ n > 0]
  /\ UNCHANGED <<connect, count, mode>>

\* AT+S.SOCKQ.  With something in the cache it changes nothing.
Sockq(id) ==
  /\ ~mode /\ Has(id)
  /\ \E n \in 0 .. CacheSize :
       ReadOk(id, n) /\ cache' = [cache EXCEPT ![id] = Cached(id, n)]
  /\ UNCHANGED <<connect, count, mode, past>>

\* n bytes go to the serial line, the byte at place k is b[k].
Handed(id, n, b) ==
  past' = [past EXCEPT ![id].upto = @ + n,
                       ![id].wrong = \/ past[id].wrong
                                     \/ \E k \in 0 .. n - 1 : b[k] # past[id].upto + k + 1]

\* The second half of sockr: at most len bytes of the cache, which is c.
HandOver(id, c, len) ==
  LET n == Min2(len, c.cnt)
  IN /\ Handed(id, n, [k \in 0 .. n - 1 |-> c.buffer[c.offset + k]])
     /\ cache' = [cache EXCEPT ![id] =
                    [c EXCEPT !.cnt = @ - n, !.offset = @ + n, !.flag = n < c.cnt]]

\* AT+S.SOCKR, of what is in the cache ...
SockrCached(id) ==
  /\ ~mode /\ Has(id) /\ cache[id].flag
  /\ \E len \in 1 .. CacheSize : HandOver(id, cache[id], len)
  /\ UNCHANGED <<sock, connect, count, mode, read>>

\* ... and with the cache empty.  len may be more than comes.
SockrRead(id) ==
  /\ ~mode /\ Has(id)
  /\ \E n \in 1 .. CacheSize, len \in 1 .. CacheSize :
       /\ ReadOk(id, n)
       /\ HandOver(id, Cached(id, n), len)
  /\ UNCHANGED <<connect, count, mode>>

-----------------------------------------------------------------------------
(* Data mode, as client: connection 0, and its cache as a buffer.  Of what *)
(* is sent the tables show nothing.                                        *)

EnterMode ==
  /\ ~mode /\ mode' = TRUE
  /\ UNCHANGED <<sock, connect, count, cache, read, past>>

\* The escape sequence, an error of select, recv or send, or no connection.
LeaveMode ==
  /\ mode /\ mode' = FALSE
  /\ UNCHANGED <<sock, connect, count, cache, read, past>>

\* recv or recvfrom into the cache's buffer, written out at once.  The send
\* after it may fail, which ends the mode.
ModeReceive ==
  /\ mode /\ Has(0)
  /\ \E n \in 1 .. CacheSize :
       /\ n = Taken(0, CacheSize)
       /\ Take(0, n)
       /\ cache' = [cache EXCEPT ![0].buffer = Fill(0, n)]
       /\ past' = [past EXCEPT ![0].upto = read[0] + n,
                               ![0].mixed = @ \/ cache[0].flag]
       /\ mode' \in BOOLEAN
  /\ UNCHANGED <<connect, count>>

-----------------------------------------------------------------------------
Next ==
  \/ \E f \in Fds : Arrive(f) \/ Finish(f)
  \/ SockonFails \/ Sockon
  \/ \E id \in Ids :
       \/ Disconnect(id) \/ ReadEnds(id) \/ Sockq(id)
       \/ SockrCached(id) \/ SockrRead(id)
  \/ EnterMode \/ LeaveMode \/ ModeReceive

Spec == Init /\ [][Next]_vars

-----------------------------------------------------------------------------
TypeOK ==
  /\ sock \in [Fds -> [open : BOOLEAN, avail : Numbers, end : Ends]]
  /\ connect \in [Ids -> [flag : BOOLEAN, fd : Nat, prot : Prots]]
  /\ count \in 0 .. MAX_SOCKET_NUM
  /\ cache \in [Ids -> [flag : BOOLEAN, offset : 0 .. CacheSize,
                        cnt : 0 .. CacheSize, buffer : [Slots -> Numbers]]]
  /\ \A id \in Ids : /\ cache[id].offset + cache[id].cnt =< CacheSize
                     /\ cache[id].flag <=> cache[id].cnt > 0
  /\ mode \in BOOLEAN
  /\ read \in [Ids -> Numbers]
  /\ past \in [Ids -> [upto : Nat, wrong : BOOLEAN, lost : BOOLEAN, mixed : BOOLEAN]]

Flagged == {id \in Ids : connect[id].flag}

(* The table and lwIP agree: count is the number of connections (the scan  *)
(* of SOCKON for a free one relies on it, and every command but SOCKON is  *)
(* refused at 0), each holds an open socket of its own, and no socket is   *)
(* open that no connection holds.                                          *)
SocketsHeld ==
  /\ count = Cardinality(Flagged)
  /\ \A id \in Flagged : connect[id].fd \in Fds /\ sock[connect[id].fd].open
  /\ \A i, j \in Flagged : connect[i].fd = connect[j].fd => i = j
  /\ \A f \in Fds : sock[f].open => \E id \in Flagged : connect[id].fd = f

(* What the host reads of a connection is what the socket received, in     *)
(* order and each byte once, through any sequence of SOCKQ, SOCKR and data *)
(* mode and through reuse of the identifier: what was taken from the       *)
(* socket is what was handed over and, after it, what the cache holds.     *)
(* Not so for a connection whose read gave up with bytes in hand, nor for  *)
(* one that was in data mode while its cache held bytes.                   *)
StreamKept ==
  \A id \in Flagged :
    LET c == cache[id]
        p == past[id]
    IN ~p.lost /\ ~p.mixed =>
         /\ ~p.wrong
         /\ p.upto + c.cnt = read[id]
         /\ \A k \in 0 .. c.cnt - 1 : c.buffer[c.offset + k] = p.upto + k + 1

-----------------------------------------------------------------------------
(* What the help says, and the code does not keep (README, 5). *)

(* What a connection received is there for SOCKQ and SOCKR, unless the     *)
(* other side broke it off.  The code drops what read_socket received when *)
(* the other side closes within the same 10 ms.                            *)
NothingLost ==
  \A id \in Flagged :
    connect[id].prot = "tcp" /\ sock[connect[id].fd].end # "reset" => ~past[id].lost

(* SOCKR reads the bytes that come next.  The code uses the cache of       *)
(* connection 0 as the buffer of data mode, and does not ask if SOCKQ left *)
(* bytes there: SOCKR then writes what data mode wrote already.            *)
NextIsRead == \A id \in Flagged : ~past[id].lost => ~past[id].wrong
=============================================================================
