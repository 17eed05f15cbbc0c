--------------------------- MODULE AtSocketProofs ----------------------------
(***************************************************************************)
(* Proofs about the sockets of the AT commands: AtSocket, for every number *)
(* of connections, of sockets and of bytes, and every size of the cache,   *)
(* and AtServer, for every set of sockets.  The two run in one program and *)
(* share the numbers of lwIP's sockets, no variable.                       *)
(***************************************************************************)
EXTENDS AtSocket, AtServer, FiniteSetTheorems, TLAPS

\* The bytes that wait for an identifier have numbers left.
Numbered ==
  \A id \in Flagged : read[id] + sock[connect[id].fd].avail =< MaxBytes

\* The inductive invariant.  A read needs SocketsHeld, to take from a socket
\* that is open and its own; StreamKept needs the cache to be well formed.
IInv == TypeOK /\ SocketsHeld /\ Numbered /\ StreamKept

-----------------------------------------------------------------------------
(* The set of the connections.                                             *)

LEMMA IdsFinite ==
  ASSUME NEW S \in SUBSET Ids
  PROVE  IsFiniteSet(S) /\ Cardinality(S) \in Nat
<1>1. IsFiniteSet(Ids)
  BY FS_Interval, AtSocketAssumption DEF Ids, AtSocketAssumption
<1>2. IsFiniteSet(S)
  BY <1>1, FS_Subset
<1>3. QED
  BY <1>2, FS_CardinalityType

LEMMA InitIInv == Init => IInv
<1> SUFFICES ASSUME Init PROVE IInv
  OBVIOUS
<1> USE AtSocketAssumption, LwipAssumption DEF AtSocketAssumption, LwipAssumption
<1>1. TypeOK
  <2>1. past \in [Ids -> [upto : Nat, wrong : BOOLEAN, lost : BOOLEAN, mixed : BOOLEAN]]
    BY DEF Init, NewPast
  <2>2. cache \in [Ids -> [flag : BOOLEAN, offset : 0 .. CacheSize,
                           cnt : 0 .. CacheSize, buffer : [Slots -> Numbers]]]
    BY DEF Init, Empty, Numbers
  <2>3. sock \in [Fds -> [open : BOOLEAN, avail : Numbers, end : Ends]]
    BY DEF Init, Closed, Numbers, Ends
  <2>4. \A id \in Ids : /\ cache[id].offset + cache[id].cnt =< CacheSize
                        /\ cache[id].flag <=> cache[id].cnt > 0
    BY DEF Init, Empty
  <2>5. connect \in [Ids -> [flag : BOOLEAN, fd : Nat, prot : Prots]]
    BY DEF Init, Prots
  <2>6. count \in 0 .. MAX_SOCKET_NUM /\ read \in [Ids -> Numbers]
    BY DEF Init, Numbers
  <2>7. mode \in BOOLEAN
    BY DEF Init
  <2>8. QED
    BY <2>1, <2>2, <2>3, <2>4, <2>5, <2>6, <2>7 DEF TypeOK
<1>2. Flagged = {}
  BY DEF Init, Flagged
<1>3. QED
  BY <1>1, <1>2, FS_EmptySet DEF IInv, SocketsHeld, Numbered, StreamKept, Init, Closed

-----------------------------------------------------------------------------
(* What the network does.                                                  *)

LEMMA ArriveIInv == ASSUME IInv, NEW f \in Fds, Arrive(f) PROVE IInv'
<1> USE AtSocketAssumption, LwipAssumption DEF AtSocketAssumption, LwipAssumption
<1>1. UNCHANGED <<connect, count, cache, mode, read, past>> /\ Flagged' = Flagged
  BY DEF Arrive, Flagged
<1>2. PICK id \in Flagged : connect[id].fd = f
  BY DEF IInv, SocketsHeld, Arrive
<1>3. sock[f].avail + 1 \in Numbers
  BY <1>2 DEF IInv, TypeOK, Arrive, Holds, Flagged, Numbers
<1>4. TypeOK'
  BY <1>1, <1>3 DEF IInv, TypeOK, Arrive
<1>5. \A i \in Flagged : connect[i].fd \in Fds
  BY DEF IInv, SocketsHeld
<1>6. \A g \in Fds : sock'[g].open = sock[g].open
  BY DEF IInv, TypeOK, Arrive
<1>7. SocketsHeld'
  BY <1>1, <1>5, <1>6 DEF IInv, SocketsHeld
<1>8. Numbered'
  <2> SUFFICES ASSUME NEW i \in Flagged
               PROVE  read[i] + sock'[connect[i].fd].avail =< MaxBytes
    BY <1>1 DEF Numbered
  <2>1. CASE connect[i].fd = f
    <3>1. read[i] + sock[f].avail < MaxBytes
      BY <2>1 DEF Arrive, Holds, Flagged
    <3>2. sock'[f].avail = sock[f].avail + 1
      BY DEF IInv, TypeOK, Arrive
    <3>3. read[i] \in Nat /\ sock[f].avail \in Nat
      BY DEF IInv, TypeOK, Flagged, Numbers
    <3>4. QED
      BY <2>1, <3>1, <3>2, <3>3
  <2>2. CASE connect[i].fd # f
    BY <2>2, <1>5 DEF IInv, TypeOK, Numbered, Arrive
  <2>3. QED
    BY <2>1, <2>2
<1>9. StreamKept'
  BY <1>1 DEF IInv, StreamKept
<1>10. QED
  BY <1>4, <1>7, <1>8, <1>9 DEF IInv

LEMMA FinishIInv == ASSUME IInv, NEW f \in Fds, Finish(f) PROVE IInv'
<1>1. UNCHANGED <<connect, count, cache, mode, read, past>> /\ Flagged' = Flagged
  BY DEF Finish, Flagged
<1>2. PICK e \in {"fin", "reset"} : sock' = [sock EXCEPT ![f].end = e]
  BY DEF Finish
<1>3. TypeOK'
  BY <1>1, <1>2 DEF IInv, TypeOK, Ends
<1>4. \A g \in Fds : sock'[g].open = sock[g].open /\ sock'[g].avail = sock[g].avail
  BY <1>2 DEF IInv, TypeOK
<1>5. SocketsHeld' /\ Numbered'
  BY <1>1, <1>4 DEF IInv, SocketsHeld, Numbered
<1>6. StreamKept'
  BY <1>1 DEF IInv, StreamKept
<1>7. QED
  BY <1>3, <1>5, <1>6 DEF IInv

-----------------------------------------------------------------------------
(* Opening and closing.                                                    *)

LEMMA SockonFailsIInv == ASSUME IInv, SockonFails PROVE IInv'
<1>1. PICK id \in Ids, p \in Prots : connect' = [connect EXCEPT ![id].prot = p]
  BY DEF SockonFails
<1>2. UNCHANGED <<sock, count, cache, mode, read, past>>
  BY DEF SockonFails
<1>3. \A i \in Ids : connect'[i].flag = connect[i].flag /\ connect'[i].fd = connect[i].fd
  BY <1>1 DEF IInv, TypeOK
<1>4. Flagged' = Flagged
  BY <1>3 DEF Flagged
<1>5. TypeOK'
  BY <1>1, <1>2, SMTT(30) DEF IInv, TypeOK
<1>6. \A i \in Flagged : i \in Ids
  BY DEF Flagged
<1>7. SocketsHeld' /\ Numbered'
  BY <1>2, <1>3, <1>4, <1>6 DEF IInv, SocketsHeld, Numbered
<1>8. StreamKept'
  BY <1>2, <1>4 DEF IInv, StreamKept
<1>9. QED
  BY <1>5, <1>7, <1>8 DEF IInv

LEMMA SockonIInv == ASSUME IInv, Sockon PROVE IInv'
<1> USE AtSocketAssumption, LwipAssumption DEF AtSocketAssumption, LwipAssumption
<1>1. PICK id \in Ids, f \in Fds, p \in Prots :
        /\ FirstFree(id) /\ ~sock[f].open
        /\ sock' = [sock EXCEPT ![f] = Opened]
        /\ connect' = [connect EXCEPT ![id] = [flag |-> TRUE, fd |-> f, prot |-> p]]
        /\ cache' = [cache EXCEPT ![id] = Empty]
        /\ past' = [past EXCEPT ![id] = NewPast(id)]
  BY DEF Sockon
<1>2. count' = count + 1 /\ count < MAX_SOCKET_NUM /\ UNCHANGED <<mode, read>>
  BY DEF Sockon
<1>3. /\ connect'[id] = [flag |-> TRUE, fd |-> f, prot |-> p]
      /\ \A i \in Ids \ {id} : connect'[i] = connect[i]
  BY <1>1 DEF IInv, TypeOK
<1>4. id \notin Flagged /\ Flagged' = Flagged \cup {id} /\ Flagged \subseteq Ids
  BY <1>1, <1>3 DEF Flagged, FirstFree
<1>5. /\ sock'[f] = Opened
      /\ \A g \in Fds \ {f} : sock'[g] = sock[g]
  BY <1>1 DEF IInv, TypeOK
<1>6. \A i \in Flagged : connect[i].fd # f /\ connect[i].fd \in Fds
  BY <1>1 DEF IInv, SocketsHeld
<1>7. TypeOK'
  <2>1. NewPast(id) \in [upto : Nat, wrong : BOOLEAN, lost : BOOLEAN, mixed : BOOLEAN]
    BY DEF IInv, TypeOK, NewPast, Numbers
  <2>2. Empty \in [flag : BOOLEAN, offset : 0 .. CacheSize,
                   cnt : 0 .. CacheSize, buffer : [Slots -> Numbers]]
    BY DEF Empty, Numbers
  <2>3. Opened \in [open : BOOLEAN, avail : Numbers, end : Ends]
    BY DEF Opened, Numbers, Ends
  <2>4. cache' \in [Ids -> [flag : BOOLEAN, offset : 0 .. CacheSize,
                            cnt : 0 .. CacheSize, buffer : [Slots -> Numbers]]]
    BY <1>1, <2>2 DEF IInv, TypeOK
  <2>5. \A i \in Ids : /\ cache'[i].offset + cache'[i].cnt =< CacheSize
                       /\ cache'[i].flag <=> cache'[i].cnt > 0
    BY <1>1 DEF IInv, TypeOK, Empty
  <2>6. sock' \in [Fds -> [open : BOOLEAN, avail : Numbers, end : Ends]]
    BY <1>1, <2>3 DEF IInv, TypeOK
  <2>7. past' \in [Ids -> [upto : Nat, wrong : BOOLEAN, lost : BOOLEAN, mixed : BOOLEAN]]
    BY <1>1, <2>1 DEF IInv, TypeOK
  <2>8. connect' \in [Ids -> [flag : BOOLEAN, fd : Nat, prot : Prots]]
    BY <1>1 DEF IInv, TypeOK
  <2>9. count' \in 0 .. MAX_SOCKET_NUM
    BY <1>2 DEF IInv, TypeOK
  <2>10. QED
    BY <1>2, <2>4, <2>5, <2>6, <2>7, <2>8, <2>9 DEF IInv, TypeOK
<1>8. SocketsHeld'
  <2>1. count' = Cardinality(Flagged')
    BY <1>2, <1>4, IdsFinite, FS_AddElement DEF IInv, SocketsHeld
  <2>2. \A i \in Flagged' : connect'[i].fd \in Fds /\ sock'[connect'[i].fd].open
    <3> SUFFICES ASSUME NEW i \in Flagged'
                 PROVE  connect'[i].fd \in Fds /\ sock'[connect'[i].fd].open
      OBVIOUS
    <3>1. CASE i = id
      BY <3>1, <1>3, <1>5 DEF Opened
    <3>2. CASE i # id
      <4>1. i \in Flagged /\ connect'[i] = connect[i]
        BY <3>2, <1>3, <1>4
      <4>2. sock[connect[i].fd].open
        BY <4>1 DEF IInv, SocketsHeld
      <4>3. connect[i].fd \in Fds /\ sock'[connect[i].fd] = sock[connect[i].fd]
        BY <4>1, <1>5, <1>6
      <4>4. QED
        BY <4>1, <4>2, <4>3
    <3>3. QED
      BY <3>1, <3>2
  <2>3. \A i, j \in Flagged' : connect'[i].fd = connect'[j].fd => i = j
    BY <1>3, <1>4, <1>6 DEF IInv, SocketsHeld
  <2>4. \A g \in Fds : sock'[g].open => \E i \in Flagged' : connect'[i].fd = g
    <3> SUFFICES ASSUME NEW g \in Fds, sock'[g].open
                 PROVE  \E i \in Flagged' : connect'[i].fd = g
      OBVIOUS
    <3>1. CASE g = f
      BY <3>1, <1>3, <1>4
    <3>2. CASE g # f
      <4>1. PICK i \in Flagged : connect[i].fd = g
        BY <3>2, <1>5 DEF IInv, SocketsHeld
      <4>2. i \in Flagged' /\ connect'[i].fd = g
        BY <4>1, <1>3, <1>4
      <4>3. QED
        BY <4>2
    <3>3. QED
      BY <3>1, <3>2
  <2>5. QED
    BY <2>1, <2>2, <2>3, <2>4 DEF SocketsHeld
<1>9. Numbered'
  <2> SUFFICES ASSUME NEW i \in Flagged'
               PROVE  read[i] + sock'[connect'[i].fd].avail =< MaxBytes
    BY <1>2 DEF Numbered
  <2>1. CASE i = id
    <3>1. connect'[i].fd = f /\ sock'[f].avail = 0
      BY <2>1, <1>3, <1>5 DEF Opened
    <3>2. read[i] \in 0 .. MaxBytes
      BY <2>1 DEF IInv, TypeOK, Numbers
    <3>3. QED
      BY <3>1, <3>2
  <2>2. CASE i # id
    BY <2>2, <1>3, <1>4, <1>5, <1>6 DEF IInv, Numbered
  <2>3. QED
    BY <2>1, <2>2
<1>10. StreamKept'
  <2>1. /\ cache'[id] = Empty /\ past'[id] = NewPast(id)
        /\ \A i \in Ids \ {id} : cache'[i] = cache[i] /\ past'[i] = past[i]
    BY <1>1 DEF IInv, TypeOK
  <2>2. /\ ~past'[id].wrong /\ past'[id].upto = read[id]
        /\ cache'[id].cnt = 0 /\ read[id] \in Nat
    BY <2>1 DEF NewPast, Empty, IInv, TypeOK, Numbers
  <2>3. 0 .. cache'[id].cnt - 1 = {}
    BY <2>2
  <2>4. read[id] + 0 = read[id]
    BY <2>2
  <2>5. QED
    BY <1>2, <1>4, <2>1, <2>2, <2>3, <2>4 DEF IInv, StreamKept
<1>11. QED
  BY <1>7, <1>8, <1>9, <1>10 DEF IInv

LEMMA DisconnectIInv == ASSUME IInv, NEW id \in Ids, Disconnect(id) PROVE IInv'
<1> USE AtSocketAssumption, LwipAssumption DEF AtSocketAssumption, LwipAssumption
<1> DEFINE f == connect[id].fd
<1>1. /\ count > 0 /\ id \in Flagged /\ f \in Fds
      /\ sock' = [sock EXCEPT ![f] = Closed]
      /\ connect' = [connect EXCEPT ![id].flag = FALSE]
      /\ count' = count - 1
      /\ UNCHANGED <<cache, mode, read, past>>
  BY DEF Disconnect, Has, Flagged, IInv, SocketsHeld
<1>2. /\ ~connect'[id].flag
      /\ \A i \in Ids \ {id} : connect'[i] = connect[i]
  BY <1>1 DEF IInv, TypeOK
<1>3. Flagged' = Flagged \ {id} /\ Flagged \subseteq Ids
  BY <1>2 DEF Flagged
<1>4. \A i \in Flagged' : connect'[i].fd = connect[i].fd /\ connect[i].fd # f
  BY <1>1, <1>2, <1>3 DEF IInv, SocketsHeld
<1> HIDE DEF f
<1>5. sock'[f] = Closed /\ \A g \in Fds \ {f} : sock'[g] = sock[g]
  BY <1>1 DEF IInv, TypeOK
<1>6. TypeOK'
  <2>1. Closed \in [open : BOOLEAN, avail : Numbers, end : Ends]
    BY DEF Closed, Numbers, Ends
  <2>2. count' \in 0 .. MAX_SOCKET_NUM
    BY <1>1 DEF IInv, TypeOK
  <2>3. QED
    BY <1>1, <2>1, <2>2, ZenonT(40) DEF IInv, TypeOK
<1>7. SocketsHeld'
  <2>1. count' = Cardinality(Flagged')
    BY <1>1, <1>3, IdsFinite, FS_RemoveElement DEF IInv, SocketsHeld
  <2>2. \A i \in Flagged' : connect'[i].fd \in Fds /\ sock'[connect'[i].fd].open
    <3> SUFFICES ASSUME NEW i \in Flagged'
                 PROVE  connect'[i].fd \in Fds /\ sock'[connect'[i].fd].open
      OBVIOUS
    <3>1. i \in Flagged /\ connect'[i].fd = connect[i].fd /\ connect[i].fd # f
      BY <1>3, <1>4
    <3>2. connect[i].fd \in Fds /\ sock[connect[i].fd].open
      BY <3>1 DEF IInv, SocketsHeld
    <3>3. sock'[connect[i].fd] = sock[connect[i].fd]
      BY <3>1, <3>2, <1>5
    <3>4. QED
      BY <3>1, <3>2, <3>3
  <2>3. \A i, j \in Flagged' : connect'[i].fd = connect'[j].fd => i = j
    BY <1>3, <1>4 DEF IInv, SocketsHeld
  <2>4. \A g \in Fds : sock'[g].open => \E i \in Flagged' : connect'[i].fd = g
    <3> SUFFICES ASSUME NEW g \in Fds, sock'[g].open
                 PROVE  \E i \in Flagged' : connect'[i].fd = g
      OBVIOUS
    <3>1. g # f
      BY <1>5 DEF Closed
    <3>2. PICK i \in Flagged : connect[i].fd = g
      BY <3>1, <1>5 DEF IInv, SocketsHeld
    <3>3. i # id
      BY <3>1, <3>2 DEF f
    <3>4. QED
      BY <3>2, <3>3, <1>3, <1>4
  <2>5. QED
    BY <2>1, <2>2, <2>3, <2>4 DEF SocketsHeld
<1>8. Numbered'
  BY <1>1, <1>3, <1>4, <1>5 DEF IInv, Numbered, SocketsHeld
<1>9. StreamKept'
  BY <1>1, <1>3 DEF IInv, StreamKept
<1>10. QED
  BY <1>6, <1>7, <1>8, <1>9 DEF IInv

-----------------------------------------------------------------------------
(* Reading.                                                                *)

Caches == [flag : BOOLEAN, offset : 0 .. CacheSize,
           cnt : 0 .. CacheSize, buffer : [Slots -> Numbers]]
Pasts  == [upto : Nat, wrong : BOOLEAN, lost : BOOLEAN, mixed : BOOLEAN]

\* The parts of TypeOK and StreamKept that are about one connection: its
\* cache c, its history p, the bytes read of it r.
WellFormed(c) == c.offset + c.cnt =< CacheSize /\ (c.flag <=> c.cnt > 0)
Kept(c, p, r) ==
  ~p.lost /\ ~p.mixed =>
    /\ ~p.wrong
    /\ p.upto + c.cnt = r
    /\ \A k \in 0 .. c.cnt - 1 : c.buffer[c.offset + k] = p.upto + k + 1

\* What a flagged connection is known to have.
LEMMA FlaggedFacts ==
  ASSUME IInv, NEW id \in Flagged
  PROVE  /\ id \in Ids /\ cache[id] \in Caches /\ past[id] \in Pasts
         /\ WellFormed(cache[id]) /\ Kept(cache[id], past[id], read[id])
         /\ connect[id].fd \in Fds
         /\ sock[connect[id].fd].avail \in Nat /\ read[id] \in Nat
         /\ read[id] + sock[connect[id].fd].avail =< MaxBytes
<1>1. id \in Ids
  BY DEF Flagged
<1>2. cache[id] \in Caches /\ past[id] \in Pasts /\ WellFormed(cache[id])
  BY <1>1 DEF IInv, TypeOK, Caches, Pasts, WellFormed
<1>3. Kept(cache[id], past[id], read[id])
  BY DEF IInv, StreamKept, Kept
<1>4. connect[id].fd \in Fds
  BY DEF IInv, SocketsHeld
<1>5. sock[connect[id].fd].avail \in Nat /\ read[id] \in Nat
  BY <1>1, <1>4 DEF IInv, TypeOK, Numbers
<1>6. QED
  BY <1>1, <1>2, <1>3, <1>4, <1>5 DEF IInv, Numbered

\* A step that takes n bytes for one connection keeps the invariant if it
\* leaves that connection's cache well formed and its stream kept.
LEMMA OneConnection ==
  ASSUME IInv, NEW id \in Flagged, NEW n \in Nat,
         n =< sock[connect[id].fd].avail, Take(id, n),
         UNCHANGED <<connect, count>>, mode' \in BOOLEAN,
         cache' \in [Ids -> Caches], past' \in [Ids -> Pasts],
         \A i \in Ids \ {id} : cache'[i] = cache[i] /\ past'[i] = past[i],
         WellFormed(cache'[id]), Kept(cache'[id], past'[id], read[id] + n)
  PROVE  IInv'
<1> USE AtSocketAssumption, LwipAssumption DEF AtSocketAssumption, LwipAssumption
<1> DEFINE f == connect[id].fd
<1>1. /\ f \in Fds /\ sock[f].avail \in Nat /\ read[id] \in Nat /\ id \in Ids
      /\ read[id] + sock[f].avail =< MaxBytes
  BY FlaggedFacts
<1>2. /\ sock' = [sock EXCEPT ![f].avail = sock[f].avail - n]
      /\ read' = [read EXCEPT ![id] = read[id] + n]
  BY DEF Take
<1>3. Flagged' = Flagged /\ Flagged \subseteq Ids
  BY DEF Flagged
<1>4. \A i \in Flagged : i # id => connect[i].fd \in Fds /\ connect[i].fd # f
  BY DEF IInv, SocketsHeld
<1> HIDE DEF f
<1>5. /\ sock'[f].avail = sock[f].avail - n
      /\ \A g \in Fds : sock'[g].open = sock[g].open
      /\ \A g \in Fds \ {f} : sock'[g] = sock[g]
  BY <1>1, <1>2 DEF IInv, TypeOK
<1>6. /\ read'[id] = read[id] + n
      /\ \A i \in Ids \ {id} : read'[i] = read[i]
  BY <1>1, <1>2 DEF IInv, TypeOK
<1>7. TypeOK'
  <2>1. sock[f].avail - n \in Numbers /\ read[id] + n \in Numbers
    BY <1>1 DEF f, Numbers
  <2>2. sock' \in [Fds -> [open : BOOLEAN, avail : Numbers, end : Ends]]
    BY <1>1, <1>2, <2>1, ZenonT(40) DEF IInv, TypeOK
  <2>3. read' \in [Ids -> Numbers]
    BY <1>1, <1>2, <2>1 DEF IInv, TypeOK
  <2>4. \A i \in Ids : WellFormed(cache'[i])
    BY DEF IInv, TypeOK, WellFormed
  <2>5. QED
    BY <2>2, <2>3, <2>4 DEF IInv, TypeOK, Caches, Pasts, WellFormed
<1>8. SocketsHeld'
  BY <1>3, <1>5 DEF IInv, SocketsHeld
<1>9. Numbered'
  <2> SUFFICES ASSUME NEW i \in Flagged
               PROVE  read'[i] + sock'[connect[i].fd].avail =< MaxBytes
    BY <1>3 DEF Numbered
  <2>1. CASE i = id
    <3>1. read'[i] = read[id] + n /\ sock'[connect[i].fd].avail = sock[f].avail - n
      BY <2>1, <1>5, <1>6 DEF f
    <3>2. QED
      BY <3>1, <1>1
  <2>2. CASE i # id
    BY <2>2, <1>3, <1>4, <1>5, <1>6 DEF IInv, Numbered
  <2>3. QED
    BY <2>1, <2>2
<1>10. StreamKept'
  <2>1. \A i \in Flagged : Kept(cache'[i], past'[i], read'[i])
    BY <1>3, <1>6, FlaggedFacts
  <2>2. QED
    BY <2>1, <1>3 DEF StreamKept, Kept
<1>11. QED
  BY <1>7, <1>8, <1>9, <1>10 DEF IInv

\* The buffer after a read of n bytes.
LEMMA FillFacts ==
  ASSUME IInv, NEW id \in Flagged, NEW n \in 0 .. CacheSize,
         n =< sock[connect[id].fd].avail
  PROVE  /\ Fill(id, n) \in [Slots -> Numbers]
         /\ \A k \in 0 .. n - 1 : Fill(id, n)[k] = read[id] + k + 1
<1> USE AtSocketAssumption, LwipAssumption DEF AtSocketAssumption, LwipAssumption
<1>1. /\ id \in Ids /\ read[id] \in Nat /\ read[id] + n =< MaxBytes
      /\ cache[id].buffer \in [Slots -> Numbers]
  BY FlaggedFacts DEF Caches
<1>2. \A k \in Slots : k < n => read[id] + k + 1 \in Numbers
  BY <1>1 DEF Slots, Numbers
<1>3. QED
  BY <1>1, <1>2 DEF Fill, Slots

\* The cache after a read of n bytes into an empty cache whose stream is
\* kept: it holds what comes next.
LEMMA CachedFacts ==
  ASSUME IInv, NEW id \in Flagged, NEW n \in 0 .. CacheSize,
         n =< sock[connect[id].fd].avail, ~cache[id].flag
  PROVE  /\ Cached(id, n) \in Caches /\ WellFormed(Cached(id, n))
         /\ Cached(id, n).cnt = n
         /\ Kept(Cached(id, n), past[id], read[id] + n)
<1> USE AtSocketAssumption, LwipAssumption DEF AtSocketAssumption, LwipAssumption
<1>1. /\ cache[id] \in Caches /\ past[id] \in Pasts /\ WellFormed(cache[id])
      /\ Kept(cache[id], past[id], read[id]) /\ read[id] \in Nat
  BY FlaggedFacts
<1>2. cache[id].cnt = 0
  BY <1>1 DEF WellFormed, Caches
<1>3. CASE n = 0
  BY <1>1, <1>2, <1>3 DEF Cached
<1>4. CASE n # 0
  <2> DEFINE c == [flag |-> TRUE, offset |-> 0, cnt |-> n, buffer |-> Fill(id, n)]
  <2>1. Cached(id, n) = c
    BY <1>4 DEF Cached
  <2>2. c \in Caches
    BY FillFacts DEF Caches
  <2>3. WellFormed(c) /\ c.cnt = n
    BY <1>4 DEF WellFormed
  <2>4. ~past[id].lost /\ ~past[id].mixed => ~past[id].wrong /\ past[id].upto = read[id]
    BY <1>1, <1>2 DEF Kept, Pasts
  <2>5. \A k \in 0 .. n - 1 : c.buffer[c.offset + k] = read[id] + k + 1
    BY FillFacts
  <2>6. Kept(c, past[id], read[id] + n)
    <3> HIDE DEF c
    <3>1. QED
      BY <2>3, <2>4, <2>5, <1>1 DEF Kept, Pasts
  <2>7. QED
    BY <2>1, <2>2, <2>3, <2>6
<1>5. QED
  BY <1>3, <1>4

\* n bytes at most are taken, as many as wait or fit.
LEMMA TakenFacts ==
  ASSUME IInv, NEW id \in Flagged
  PROVE  /\ Taken(id, CacheSize) \in 0 .. CacheSize
         /\ Taken(id, CacheSize) =< sock[connect[id].fd].avail
<1>1. sock[connect[id].fd].avail \in Nat
  BY FlaggedFacts
<1>2. QED
  BY <1>1, AtSocketAssumption DEF Taken, Min2, AtSocketAssumption

\* sockr hands over the next bytes of a cache and keeps those after them.
LEMMA HandOverFacts ==
  ASSUME IInv, NEW id \in Flagged, NEW c \in Caches, WellFormed(c),
         NEW r \in Nat, Kept(c, past[id], r),
         NEW len \in 1 .. CacheSize, HandOver(id, c, len)
  PROVE  /\ cache' \in [Ids -> Caches] /\ past' \in [Ids -> Pasts]
         /\ \A i \in Ids \ {id} : cache'[i] = cache[i] /\ past'[i] = past[i]
         /\ WellFormed(cache'[id]) /\ Kept(cache'[id], past'[id], r)
<1> USE AtSocketAssumption, LwipAssumption DEF AtSocketAssumption, LwipAssumption
<1> DEFINE m == Min2(len, c.cnt)
           b == [k \in 0 .. m - 1 |-> c.buffer[c.offset + k]]
           bad == \E k \in 0 .. m - 1 : b[k] # past[id].upto + k + 1
           w == past[id].wrong \/ bad
           q == m < c.cnt
           d == [c EXCEPT !.cnt = c.cnt - m, !.offset = c.offset + m, !.flag = q]
<1>1. /\ id \in Ids /\ past[id] \in Pasts
      /\ cache \in [Ids -> Caches] /\ past \in [Ids -> Pasts]
  BY FlaggedFacts DEF IInv, TypeOK, Caches, Pasts
<1>2. /\ c.cnt \in 0 .. CacheSize /\ c.offset \in 0 .. CacheSize
      /\ c.offset + c.cnt =< CacheSize /\ c.flag \in BOOLEAN
      /\ c.buffer \in [Slots -> Numbers]
  BY DEF Caches, WellFormed
<1>3. m \in 0 .. c.cnt /\ (c.cnt > 0 => m > 0)
  BY <1>2 DEF Min2
<1>4. cache' = [cache EXCEPT ![id] = d]
  BY DEF HandOver
<1>5. past' = [past EXCEPT ![id].upto = past[id].upto + m,
                           ![id].wrong = w]
  BY DEF HandOver, Handed
<1> HIDE DEF m, b, bad
<1>13. w \in BOOLEAN /\ q \in BOOLEAN
  OBVIOUS
<1>14. (w <=> past[id].wrong \/ bad) /\ (q <=> m < c.cnt)
  OBVIOUS
<1> HIDE DEF w, q
<1>6. /\ d \in Caches /\ d.cnt = c.cnt - m /\ d.offset = c.offset + m
      /\ d.buffer = c.buffer /\ (d.flag <=> m < c.cnt)
  <2>1. c.cnt - m \in 0 .. CacheSize /\ c.offset + m \in 0 .. CacheSize
    BY <1>2, <1>3
  <2>2. QED
    BY <2>1, <1>13, <1>14 DEF Caches
<1>8. /\ past' \in [Ids -> Pasts]
      /\ \A i \in Ids \ {id} : past'[i] = past[i]
      /\ past'[id].upto = past[id].upto + m /\ (past'[id].wrong <=> past[id].wrong \/ bad)
      /\ past'[id].lost = past[id].lost /\ past'[id].mixed = past[id].mixed
  <2>1. past[id].upto + m \in Nat
    BY <1>1, <1>2, <1>3 DEF Pasts
  <2>2. QED
    BY <1>1, <1>5, <1>13, <1>14, <2>1 DEF Pasts
<1> HIDE DEF d
<1>9. /\ cache' \in [Ids -> Caches] /\ cache'[id] = d
      /\ \A i \in Ids \ {id} : cache'[i] = cache[i]
  BY <1>1, <1>4, <1>6
<1>10. WellFormed(d)
  BY <1>2, <1>3, <1>6 DEF WellFormed
<1>11. Kept(d, past'[id], r)
  <2> SUFFICES ASSUME ~past'[id].lost, ~past'[id].mixed
               PROVE  /\ ~past'[id].wrong
                      /\ past'[id].upto + d.cnt = r
                      /\ \A k \in 0 .. d.cnt - 1 :
                           d.buffer[d.offset + k] = past'[id].upto + k + 1
    BY DEF Kept
  <2>1. /\ ~past[id].wrong /\ past[id].upto + c.cnt = r /\ past[id].upto \in Nat
        /\ \A k \in 0 .. c.cnt - 1 : c.buffer[c.offset + k] = past[id].upto + k + 1
    BY <1>1, <1>8 DEF Kept, Pasts
  <2>2. ~bad
    BY <2>1, <1>2, <1>3 DEF bad, b
  <2>3. past'[id].upto + d.cnt = r
    BY <2>1, <1>2, <1>3, <1>6, <1>8
  <2>4. ASSUME NEW k \in 0 .. d.cnt - 1
        PROVE  d.buffer[d.offset + k] = past'[id].upto + k + 1
    <3>1. m + k \in 0 .. c.cnt - 1
      BY <1>2, <1>3, <1>6
    <3>2. c.buffer[c.offset + (m + k)] = past[id].upto + (m + k) + 1
      BY <2>1, <3>1
    <3>3. d.offset + k = c.offset + (m + k)
      BY <1>2, <1>3, <1>6
    <3>4. past[id].upto + (m + k) + 1 = past'[id].upto + k + 1
      BY <2>1, <1>2, <1>3, <1>8
    <3>5. QED
      BY <3>2, <3>3, <3>4, <1>6
  <2>5. QED
    BY <2>1, <2>2, <2>3, <2>4, <1>8
<1>12. QED
  BY <1>8, <1>9, <1>10, <1>11

LEMMA SockqIInv == ASSUME IInv, NEW id \in Ids, Sockq(id) PROVE IInv'
<1>1. PICK n \in 0 .. CacheSize :
        ReadOk(id, n) /\ cache' = [cache EXCEPT ![id] = Cached(id, n)]
  BY DEF Sockq
<1>2. id \in Flagged /\ UNCHANGED <<connect, count, mode, past>>
  BY DEF Sockq, Has, Flagged
<1>3. /\ n =< sock[connect[id].fd].avail /\ n \in Nat /\ Take(id, n) /\ ~cache[id].flag
  BY <1>1, <1>2, TakenFacts, AtSocketAssumption DEF ReadOk, AtSocketAssumption
<1>4. /\ Cached(id, n) \in Caches /\ WellFormed(Cached(id, n))
      /\ Kept(Cached(id, n), past[id], read[id] + n)
  BY <1>2, <1>3, CachedFacts
<1>5. cache \in [Ids -> Caches] /\ past' \in [Ids -> Pasts] /\ mode' \in BOOLEAN
  BY <1>2 DEF IInv, TypeOK, Caches, Pasts
<1>6. /\ cache' \in [Ids -> Caches] /\ cache'[id] = Cached(id, n)
      /\ \A i \in Ids \ {id} : cache'[i] = cache[i] /\ past'[i] = past[i]
  BY <1>1, <1>2, <1>4, <1>5
<1>7. QED
  BY <1>2, <1>3, <1>4, <1>5, <1>6, OneConnection

LEMMA SockrReadIInv == ASSUME IInv, NEW id \in Ids, SockrRead(id) PROVE IInv'
<1>1. PICK n \in 1 .. CacheSize, len \in 1 .. CacheSize :
        ReadOk(id, n) /\ HandOver(id, Cached(id, n), len)
  BY DEF SockrRead
<1>2. id \in Flagged /\ UNCHANGED <<connect, count, mode>> /\ mode' \in BOOLEAN
  BY DEF SockrRead, Has, Flagged, IInv, TypeOK
<1>3. /\ n =< sock[connect[id].fd].avail /\ n \in 0 .. CacheSize /\ n \in Nat
      /\ Take(id, n) /\ ~cache[id].flag
  BY <1>1, <1>2, TakenFacts, AtSocketAssumption DEF ReadOk, AtSocketAssumption
<1>4. /\ Cached(id, n) \in Caches /\ WellFormed(Cached(id, n))
      /\ Kept(Cached(id, n), past[id], read[id] + n) /\ read[id] + n \in Nat
  BY <1>2, <1>3, CachedFacts, FlaggedFacts
<1>5. /\ cache' \in [Ids -> Caches] /\ past' \in [Ids -> Pasts]
      /\ \A i \in Ids \ {id} : cache'[i] = cache[i] /\ past'[i] = past[i]
      /\ WellFormed(cache'[id]) /\ Kept(cache'[id], past'[id], read[id] + n)
  <2> DEFINE c == Cached(id, n)
  <2> HIDE DEF c
  <2>1. c \in Caches /\ WellFormed(c) /\ Kept(c, past[id], read[id] + n) /\ HandOver(id, c, len)
    BY <1>1, <1>4 DEF c
  <2>2. QED
    BY <2>1, <1>1, <1>2, <1>4, HandOverFacts
<1>6. QED
  BY <1>2, <1>3, <1>5, OneConnection

LEMMA SockrCachedIInv == ASSUME IInv, NEW id \in Ids, SockrCached(id) PROVE IInv'
<1>1. PICK len \in 1 .. CacheSize : HandOver(id, cache[id], len)
  BY DEF SockrCached
<1>2. id \in Flagged /\ UNCHANGED <<sock, connect, count, mode, read>> /\ Flagged' = Flagged
  BY DEF SockrCached, Has, Flagged
<1>3. /\ cache[id] \in Caches /\ WellFormed(cache[id])
      /\ Kept(cache[id], past[id], read[id]) /\ read[id] \in Nat
  BY <1>2, FlaggedFacts
<1>4. /\ cache' \in [Ids -> Caches] /\ past' \in [Ids -> Pasts]
      /\ \A i \in Ids \ {id} : cache'[i] = cache[i] /\ past'[i] = past[i]
      /\ WellFormed(cache'[id]) /\ Kept(cache'[id], past'[id], read[id])
  <2> DEFINE c == cache[id]
  <2> HIDE DEF c
  <2>1. c \in Caches /\ WellFormed(c) /\ Kept(c, past[id], read[id]) /\ HandOver(id, c, len)
    BY <1>1, <1>3 DEF c
  <2>2. QED
    BY <2>1, <1>2, <1>3, HandOverFacts
<1>5. TypeOK'
  <2>1. \A i \in Ids : WellFormed(cache'[i])
    BY <1>4 DEF IInv, TypeOK, WellFormed
  <2>2. QED
    BY <1>2, <1>4, <2>1 DEF IInv, TypeOK, Caches, Pasts, WellFormed
<1>6. SocketsHeld' /\ Numbered'
  BY <1>2 DEF IInv, SocketsHeld, Numbered
<1>7. StreamKept'
  <2>1. \A i \in Flagged : Kept(cache'[i], past'[i], read[i])
    BY <1>4, FlaggedFacts
  <2>2. QED
    BY <2>1, <1>2 DEF StreamKept, Kept
<1>8. QED
  BY <1>5, <1>6, <1>7 DEF IInv

LEMMA ReadEndsIInv == ASSUME IInv, NEW id \in Ids, ReadEnds(id) PROVE IInv'
<1>1. PICK n \in 0 .. CacheSize :
        /\ MayEnd(id, n)
        /\ Take(id, n)
        /\ cache' = [cache EXCEPT ![id].buffer = Fill(id, n)]
        /\ past' = [past EXCEPT ![id].lost = past[id].lost \/ n > 0]
  BY DEF ReadEnds
<1>2. /\ id \in Flagged /\ ~cache[id].flag
      /\ UNCHANGED <<connect, count, mode>> /\ mode' \in BOOLEAN
  BY DEF ReadEnds, Has, Flagged, IInv, TypeOK
<1>3. /\ n =< sock[connect[id].fd].avail /\ n \in Nat
  BY <1>1, <1>2, TakenFacts, FlaggedFacts, AtSocketAssumption DEF MayEnd, AtSocketAssumption
<1>4. /\ cache[id] \in Caches /\ past[id] \in Pasts /\ WellFormed(cache[id])
      /\ Kept(cache[id], past[id], read[id]) /\ read[id] \in Nat
  BY <1>2, FlaggedFacts
<1>5. cache \in [Ids -> Caches] /\ past \in [Ids -> Pasts]
  BY DEF IInv, TypeOK, Caches, Pasts
<1>6. Fill(id, n) \in [Slots -> Numbers]
  BY <1>2, <1>3, FillFacts
<1>7. /\ cache' \in [Ids -> Caches]
      /\ cache'[id].cnt = cache[id].cnt /\ cache'[id].offset = cache[id].offset
      /\ cache'[id].flag = cache[id].flag
      /\ \A i \in Ids \ {id} : cache'[i] = cache[i]
  BY <1>1, <1>5, <1>6 DEF Caches
<1>8. /\ past' \in [Ids -> Pasts]
      /\ (past'[id].lost <=> past[id].lost \/ n > 0)
      /\ past'[id].upto = past[id].upto /\ past'[id].wrong = past[id].wrong
      /\ past'[id].mixed = past[id].mixed
      /\ \A i \in Ids \ {id} : past'[i] = past[i]
  BY <1>1, <1>5 DEF Pasts
<1>9. cache[id].cnt = 0
  BY <1>2, <1>4 DEF WellFormed, Caches
<1>10. WellFormed(cache'[id])
  BY <1>4, <1>7 DEF WellFormed
<1>11. Kept(cache'[id], past'[id], read[id] + n)
  BY <1>3, <1>4, <1>7, <1>8, <1>9 DEF Kept, Pasts
<1>12. QED
  BY <1>1, <1>2, <1>3, <1>7, <1>8, <1>10, <1>11, OneConnection

-----------------------------------------------------------------------------
(* Data mode.                                                              *)

LEMMA ModeIInv == ASSUME IInv, EnterMode \/ LeaveMode PROVE IInv'
<1>1. UNCHANGED <<sock, connect, count, cache, read, past>> /\ mode' \in BOOLEAN
  BY DEF EnterMode, LeaveMode
<1>2. QED
  BY <1>1 DEF IInv, TypeOK, SocketsHeld, Numbered, StreamKept, Flagged

LEMMA ModeReceiveIInv == ASSUME IInv, ModeReceive PROVE IInv'
<1> USE AtSocketAssumption, LwipAssumption DEF AtSocketAssumption, LwipAssumption
<1>1. PICK n \in 1 .. CacheSize :
        /\ n = Taken(0, CacheSize)
        /\ Take(0, n)
        /\ cache' = [cache EXCEPT ![0].buffer = Fill(0, n)]
        /\ past' = [past EXCEPT ![0].upto = read[0] + n,
                                ![0].mixed = past[0].mixed \/ cache[0].flag]
        /\ mode' \in BOOLEAN
  BY DEF ModeReceive
<1>2. 0 \in Ids
  BY DEF Ids
<1>3. 0 \in Flagged /\ UNCHANGED <<connect, count>>
  BY <1>2 DEF ModeReceive, Has, Flagged
<1>4. n =< sock[connect[0].fd].avail /\ n \in 0 .. CacheSize /\ n \in Nat
  BY <1>1, <1>3, TakenFacts
<1>5. /\ cache[0] \in Caches /\ past[0] \in Pasts /\ WellFormed(cache[0])
      /\ Kept(cache[0], past[0], read[0]) /\ read[0] \in Nat
  BY <1>3, FlaggedFacts
<1>6. cache \in [Ids -> Caches] /\ past \in [Ids -> Pasts]
  BY DEF IInv, TypeOK, Caches, Pasts
<1>7. Fill(0, n) \in [Slots -> Numbers]
  BY <1>3, <1>4, FillFacts
<1>8. /\ cache' \in [Ids -> Caches]
      /\ cache'[0].cnt = cache[0].cnt /\ cache'[0].offset = cache[0].offset
      /\ cache'[0].flag = cache[0].flag
      /\ \A i \in Ids \ {0} : cache'[i] = cache[i]
  BY <1>1, <1>2, <1>6, <1>7 DEF Caches
<1>9. /\ past' \in [Ids -> Pasts]
      /\ (past'[0].mixed <=> past[0].mixed \/ cache[0].flag)
      /\ past'[0].upto = read[0] + n /\ past'[0].wrong = past[0].wrong
      /\ past'[0].lost = past[0].lost
      /\ \A i \in Ids \ {0} : past'[i] = past[i]
  <2>1. read[0] + n \in Nat /\ cache[0].flag \in BOOLEAN
    BY <1>4, <1>5 DEF Caches
  <2>2. QED
    BY <1>1, <1>2, <1>6, <2>1 DEF Pasts
<1>10. WellFormed(cache'[0])
  BY <1>5, <1>8 DEF WellFormed
<1>11. Kept(cache'[0], past'[0], read[0] + n)
  <2> SUFFICES ASSUME ~past'[0].lost, ~past'[0].mixed
               PROVE  /\ ~past'[0].wrong
                      /\ past'[0].upto + cache'[0].cnt = read[0] + n
                      /\ cache'[0].cnt = 0
    BY <1>8 DEF Kept, Caches
  <2>1. ~cache[0].flag /\ cache[0].cnt = 0
    BY <1>5, <1>9 DEF WellFormed, Caches
  <2>2. ~past[0].wrong
    BY <1>5, <1>9 DEF Kept
  <2>3. QED
    BY <2>1, <2>2, <1>4, <1>5, <1>8, <1>9
<1>12. QED
  BY <1>1, <1>3, <1>4, <1>8, <1>9, <1>10, <1>11, OneConnection

-----------------------------------------------------------------------------
LEMMA NextIInv == ASSUME IInv, [Next]_vars PROVE IInv'
<1>1. CASE UNCHANGED vars
  BY <1>1 DEF vars, IInv, TypeOK, SocketsHeld, Numbered, StreamKept, Flagged
<1>2. ASSUME NEW f \in Fds, Arrive(f) \/ Finish(f) PROVE IInv'
  BY <1>2, ArriveIInv, FinishIInv
<1>3. CASE SockonFails \/ Sockon
  BY <1>3, SockonFailsIInv, SockonIInv
<1>4. ASSUME NEW id \in Ids,
             \/ Disconnect(id) \/ ReadEnds(id) \/ Sockq(id)
             \/ SockrCached(id) \/ SockrRead(id)
      PROVE  IInv'
  BY <1>4, DisconnectIInv, ReadEndsIInv, SockqIInv, SockrCachedIInv, SockrReadIInv
<1>5. CASE EnterMode \/ LeaveMode \/ ModeReceive
  BY <1>5, ModeIInv, ModeReceiveIInv
<1>6. QED
  BY <1>1, <1>2, <1>3, <1>4, <1>5 DEF Next

(* The invariant holds in every state, whatever the commands and whatever  *)
(* the network does.                                                       *)
THEOREM InvCorrect == Spec => []IInv
<1>1. QED
  BY InitIInv, NextIInv, PTL DEF Spec

(* The tables keep their types, and what SOCKR hands over lies in the      *)
(* cache: offset and count stay inside the buffer, and the flag says       *)
(* whether there is anything.                                              *)
THEOREM TypeCorrect == Spec => []TypeOK
<1>1. IInv => TypeOK
  BY DEF IInv
<1>2. QED
  BY <1>1, InvCorrect, PTL

(* The table of connections and lwIP's sockets agree: the count is right,  *)
(* each connection has an open socket of its own, and none is left open.   *)
THEOREM SocketsHeldCorrect == Spec => []SocketsHeld
<1>1. IInv => SocketsHeld
  BY DEF IInv
<1>2. QED
  BY <1>1, InvCorrect, PTL

(* SOCKQ, SOCKR and data mode hand over what a connection received in      *)
(* order and once, but for the two cases StreamKept names.                 *)
THEOREM StreamKeptCorrect == Spec => []StreamKept
<1>1. IInv => StreamKept
  BY DEF IInv
<1>2. QED
  BY <1>1, InvCorrect, PTL

-----------------------------------------------------------------------------
(* The socket server.                                                      *)

Making == {"start", "made", "made_locked"}            \* no socket noted yet
Ended  == {"end", "end_locked", "none"}               \* it gave up, or is not there
Early  == Making \cup {"setup"} \cup Ended            \* it accepts nothing, now or later
SrvPc  == {"none", "start", "made", "setup", "wait", "end"} \cup Busy \cup Locked
Tcp    == enable /\ arg = "tcp"

\* The thread is there for an enabled TCP server only, and the semaphore until
\* SOCKD=0 deletes it.
PlaceInv ==
  /\ at # "idle" => enable
  /\ at \in Closing => (arg = "udp" <=> at = "close_udp")
  /\ srv # "none" => Tcp
  /\ Tcp => (sem = None <=> at = "delete_thread")

\* TokenExact, in the words of PlaceInv; a server that cannot have accepted yet,
\* or will not again, has the token in the semaphore.
TokenInv ==
  /\ Tcp /\ at # "delete_thread" =>
       LET tokens == One(sem = 1) + One(srv \in Busy) + One(net.flag) + One(at = "release")
       IN tokens =< 1 /\ (missed \/ tokens = 1)
  /\ Tcp /\ srv \in Early => ~net.flag /\ sem \in {None, 1}

\* The listening socket is the thread's own, the one noted, and open, until
\* SOCKD=0 closes it.
SockInv ==
  /\ srv \in Making => net.sock = None
  /\ srv \in {"made", "made_locked"} => own.sock \in Fds /\ fd[own.sock] = "listen"
  /\ srv \in {"setup", "wait"} \cup Busy =>
       /\ own.sock \in Fds
       /\ at \notin {"close_conn", "delete_sem", "delete_thread"} =>
            net.sock = own.sock /\ fd[own.sock] = "listen"

\* The connection noted is open until SOCKD=0 closes it, and data mode has no other.
ConnInv ==
  /\ srv \in {"got", "got_locked"} => own.conn \in Fds /\ fd[own.conn] = "conn"
  /\ Tcp /\ net.flag /\ at \notin {"delete_sem", "delete_thread"} =>
       net.conn \in Fds /\ fd[net.conn] = "conn"
  /\ enable /\ arg = "udp" /\ net.flag => net.conn \in Fds /\ fd[net.conn] = "udp"
  /\ Tcp /\ ctrl.flag /\ at \in {"idle", "mode"} =>
       net.flag /\ ctrl.conn = net.conn

\* What SOCKD=0 read is still what the thread noted, or was not noted yet.
NotedInv ==
  /\ at = "close_sock" =>
       /\ srv \in Making => noted.sock = None
       /\ srv \notin Ended => noted.sock \in {None, own.sock}
  /\ at \in {"close_sock", "close_conn"} /\ noted.flag => net.flag /\ noted.conn = net.conn
  /\ at = "close_udp" => noted = net

ServerInv ==
  /\ ServerTypeOK /\ PlaceInv /\ TokenInv /\ SockInv /\ ConnInv /\ NotedInv

\* The invariant is stronger than what the run checks.
LEMMA ServerMeaning == ServerInv => TokenExact /\ ServesOwn /\ ClosesOwn
<1> SUFFICES ASSUME ServerInv PROVE TokenExact /\ ServesOwn /\ ClosesOwn
  OBVIOUS
<1> USE DEF ServerInv, PlaceInv, Tcp
<1>1. TokenExact
  BY DEF TokenExact, TokenInv
<1>2. ServesOwn
  BY DEF ServesOwn, ConnInv
<1>3. ClosesOwn
  <2>1. ASSUME at = "close_sock", noted.sock \in Fds
        PROVE  fd[noted.sock] = "listen" \/ srv \in Ended
    <3>1. noted.sock # None /\ srv \in SrvPc
      BY <2>1, LwipAssumption DEF LwipAssumption, None, ServerTypeOK, SrvPc
    <3>2. srv \notin Ended => srv \in {"setup", "wait"} \cup Busy
      BY <2>1, <3>1 DEF NotedInv, Making, Ended, SrvPc, Busy, Locked
    <3>3. QED
      BY <2>1, <3>1, <3>2 DEF NotedInv, SockInv
  <2>2. ASSUME at \in {"close_sock", "close_conn"}, noted.flag
        PROVE  fd[noted.conn] = "conn"
    <3>1. Tcp /\ net.flag /\ noted.conn = net.conn
      BY <2>2 DEF NotedInv, Closing, ServerTypeOK
    <3>2. QED
      BY <2>2, <3>1 DEF ConnInv
  <2>3. at = "close_udp" /\ noted.flag => fd[noted.conn] = "udp"
    BY DEF NotedInv, ConnInv, Closing
  <2>4. QED
    BY <2>1, <2>2, <2>3 DEF ClosesOwn, Ended
<1>4. QED
  BY <1>1, <1>2, <1>3

LEMMA ServerInitInv == ServerInit => ServerInv
<1> SUFFICES ASSUME ServerInit PROVE ServerInv
  OBVIOUS
<1> USE DEF ServerInit
<1>1. ServerTypeOK
  BY DEF ServerTypeOK, Uses, NoNet, NoCtrl, None, FdNumbers, Locked
<1>2. PlaceInv /\ TokenInv
  BY DEF PlaceInv, TokenInv, Closing, Tcp
<1>3. SockInv /\ ConnInv /\ NotedInv
  BY DEF SockInv, ConnInv, NotedInv, Making, Busy, Tcp
<1>4. QED
  BY <1>1, <1>2, <1>3 DEF ServerInv

\* Each part of the invariant through every step.
LEMMA ServerTypeStep == ServerInv /\ [ServerNext]_serverVars => ServerTypeOK'
<1> SUFFICES ASSUME ServerInv, [ServerNext]_serverVars PROVE ServerTypeOK'
  OBVIOUS
<1> USE LwipAssumption DEF LwipAssumption, ServerInv, ServerTypeOK, FdNumbers, None, Busy, Locked, Closing, Uses, NoNet, NoCtrl, Freed
<1>1. CASE OtherUse
  BY <1>1 DEF OtherUse
<1>2. CASE SockdTcp
  BY <1>2 DEF SockdTcp
<1>3. CASE SockdTcpFails
  BY <1>3 DEF SockdTcpFails
<1>4. CASE SockdUdp
  BY <1>4 DEF SockdUdp
<1>5. CASE SockdUdpFails
  BY <1>5 DEF SockdUdpFails
<1>6. CASE SockdOff
  BY <1>6 DEF SockdOff
<1>7. CASE CloseSock
  BY <1>7 DEF CloseSock
<1>8. CASE CloseConn
  BY <1>8 DEF CloseConn
<1>9. CASE CloseUdp
  <2>1. fd' \in [Fds -> Uses]
    BY <1>9 DEF CloseUdp
  <2>2. UNCHANGED <<arg, net, ctrl, sem, mutex, noted, srv, own, missed, held>>
    BY <1>9 DEF CloseUdp
  <2>3. enable' \in BOOLEAN /\ at' = "idle"
    BY <1>9 DEF CloseUdp
  <2>4. QED
    BY <2>1, <2>2, <2>3
<1>10. CASE SemaphoreDelete
  BY <1>10 DEF SemaphoreDelete
<1>11. CASE ThreadDelete
  <2>1. mutex' \in {"free", "dead"} /\ srv' = "none" /\ at' = "idle"
    BY <1>11 DEF ThreadDelete
  <2>2. held' \in BOOLEAN /\ enable' \in BOOLEAN
    BY <1>11 DEF ThreadDelete
  <2>3. UNCHANGED <<fd, arg, net, ctrl, sem, noted, own, missed>>
    BY <1>11 DEF ThreadDelete
  <2>4. QED
    BY <2>1, <2>2, <2>3
<1>12. CASE ServeMode
  BY <1>12 DEF ServeMode
<1>13. CASE ModeLook
  BY <1>13 DEF ModeLook
<1>14. CASE ServeEnds
  BY <1>14 DEF ServeEnds
<1>15. CASE ModeDisconnect
  <2>1. net' \in [flag : BOOLEAN, sock : FdNumbers \cup {0}, conn : FdNumbers \cup {0}]
    BY <1>15, ZenonT(40) DEF ModeDisconnect
  <2>2. at' \in {"idle", "release"}
    BY <1>15 DEF ModeDisconnect
  <2>3. UNCHANGED <<fd, enable, arg, ctrl, sem, mutex, noted, srv, own, missed, held>>
    BY <1>15 DEF ModeDisconnect
  <2>4. QED
    BY <2>1, <2>2, <2>3
<1>16. CASE ModeRelease
  <2>1. ctrl' \in [flag : BOOLEAN, prot : {"tcp", "udp"}, conn : FdNumbers \cup {0}]
    BY <1>16 DEF ModeRelease
  <2>2. sem' \in {None, 1} /\ at' = "idle"
    BY <1>16 DEF ModeRelease
  <2>3. UNCHANGED <<fd, enable, arg, net, mutex, noted, srv, own, missed, held>>
    BY <1>16 DEF ModeRelease
  <2>4. QED
    BY <2>1, <2>2, <2>3
<1>17. CASE CreateSocket
  BY <1>17 DEF CreateSocket
<1>18. CASE Lock
  BY <1>18 DEF Lock
<1>19. CASE NoteSocket
  BY <1>19 DEF NoteSocket
<1>20. CASE Setup
  BY <1>20 DEF Setup
<1>21. CASE Wait
  BY <1>21 DEF Wait
<1>22. CASE Accept
  <2>1. own' \in [sock : FdNumbers, conn : FdNumbers]
    BY <1>22 DEF Accept
  <2>2. fd' \in [Fds -> Uses]
    BY <1>22 DEF Accept
  <2>3. missed' \in BOOLEAN /\ srv = "accept" /\ srv' \in {"got", "wait"}
    BY <1>22 DEF Accept
  <2>4. UNCHANGED <<enable, arg, net, ctrl, sem, mutex, at, noted, held>>
    BY <1>22 DEF Accept
  <2>5. QED
    BY <2>1, <2>2, <2>3, <2>4
<1>23. CASE NoteConn
  <2>1. net' \in [flag : BOOLEAN, sock : FdNumbers \cup {0}, conn : FdNumbers \cup {0}]
    BY <1>23 DEF NoteConn
  <2>2. mutex' = "free" /\ srv' = "wait"
    BY <1>23 DEF NoteConn
  <2>3. UNCHANGED <<fd, enable, arg, ctrl, sem, at, noted, own, missed, held>>
    BY <1>23 DEF NoteConn
  <2>4. QED
    BY <2>1, <2>2, <2>3
<1>24. CASE GiveUp
  BY <1>24 DEF GiveUp
<1>25. CASE UNCHANGED serverVars
  BY <1>25 DEF serverVars
<1>26. QED
  BY <1>1, <1>2, <1>3, <1>4, <1>5, <1>6, <1>7, <1>8, <1>9, <1>10, <1>11, <1>12, <1>13, <1>14, <1>15, <1>16, <1>17, <1>18, <1>19, <1>20, <1>21, <1>22, <1>23, <1>24, <1>25 DEF ServerNext, Command, ServerTask

LEMMA PlaceStep == ServerInv /\ [ServerNext]_serverVars => PlaceInv'
<1> SUFFICES ASSUME ServerInv, [ServerNext]_serverVars PROVE PlaceInv'
  OBVIOUS
<1> USE LwipAssumption DEF LwipAssumption, ServerInv, ServerTypeOK, FdNumbers, None, Busy, Locked, Closing, PlaceInv, Tcp, Freed
<1>1. CASE OtherUse
  BY <1>1 DEF OtherUse
<1>2. CASE SockdTcp
  BY <1>2 DEF SockdTcp
<1>3. CASE SockdTcpFails
  BY <1>3 DEF SockdTcpFails
<1>4. CASE SockdUdp
  BY <1>4 DEF SockdUdp
<1>5. CASE SockdUdpFails
  BY <1>5 DEF SockdUdpFails
<1>6. CASE SockdOff
  BY <1>6 DEF SockdOff
<1>7. CASE CloseSock
  BY <1>7 DEF CloseSock
<1>8. CASE CloseConn
  BY <1>8 DEF CloseConn
<1>9. CASE CloseUdp
  BY <1>9 DEF CloseUdp
<1>10. CASE SemaphoreDelete
  BY <1>10 DEF SemaphoreDelete
<1>11. CASE ThreadDelete
  BY <1>11 DEF ThreadDelete
<1>12. CASE ServeMode
  BY <1>12 DEF ServeMode
<1>13. CASE ModeLook
  BY <1>13 DEF ModeLook
<1>14. CASE ServeEnds
  BY <1>14 DEF ServeEnds
<1>15. CASE ModeDisconnect
  BY <1>15 DEF ModeDisconnect
<1>16. CASE ModeRelease
  BY <1>16 DEF ModeRelease
<1>17. CASE CreateSocket
  BY <1>17 DEF CreateSocket
<1>18. CASE Lock
  BY <1>18 DEF Lock
<1>19. CASE NoteSocket
  BY <1>19 DEF NoteSocket
<1>20. CASE Setup
  BY <1>20 DEF Setup
<1>21. CASE Wait
  BY <1>21 DEF Wait
<1>22. CASE Accept
  BY <1>22 DEF Accept
<1>23. CASE NoteConn
  BY <1>23 DEF NoteConn
<1>24. CASE GiveUp
  BY <1>24 DEF GiveUp
<1>25. CASE UNCHANGED serverVars
  BY <1>25 DEF serverVars
<1>26. QED
  BY <1>1, <1>2, <1>3, <1>4, <1>5, <1>6, <1>7, <1>8, <1>9, <1>10, <1>11, <1>12, <1>13, <1>14, <1>15, <1>16, <1>17, <1>18, <1>19, <1>20, <1>21, <1>22, <1>23, <1>24, <1>25 DEF ServerNext, Command, ServerTask

LEMMA TokenStep == ServerInv /\ [ServerNext]_serverVars => TokenInv'
<1> SUFFICES ASSUME ServerInv, [ServerNext]_serverVars PROVE TokenInv'
  OBVIOUS
<1> USE LwipAssumption DEF LwipAssumption, ServerInv, ServerTypeOK, FdNumbers, None, Busy, Locked, Closing, PlaceInv, TokenInv, ConnInv, Tcp, One, NoNet, Making, Ended, Early
<1>1. CASE OtherUse
  BY <1>1 DEF OtherUse
<1>2. CASE SockdTcp
  BY <1>2 DEF SockdTcp
<1>3. CASE SockdTcpFails
  BY <1>3 DEF SockdTcpFails
<1>4. CASE SockdUdp
  BY <1>4 DEF SockdUdp
<1>5. CASE SockdUdpFails
  BY <1>5 DEF SockdUdpFails
<1>6. CASE SockdOff
  BY <1>6 DEF SockdOff
<1>7. CASE CloseSock
  BY <1>7 DEF CloseSock
<1>8. CASE CloseConn
  BY <1>8 DEF CloseConn
<1>9. CASE CloseUdp
  BY <1>9 DEF CloseUdp
<1>10. CASE SemaphoreDelete
  BY <1>10 DEF SemaphoreDelete
<1>11. CASE ThreadDelete
  BY <1>11 DEF ThreadDelete
<1>12. CASE ServeMode
  BY <1>12 DEF ServeMode
<1>13. CASE ModeLook
  BY <1>13 DEF ModeLook
<1>14. CASE ServeEnds
  BY <1>14 DEF ServeEnds
<1>15. CASE ModeDisconnect
  <2>1. /\ UNCHANGED <<enable, arg, sem, srv, missed>>
        /\ at = "mode" /\ ctrl.flag
        /\ \/ net'.flag = FALSE /\ at' = "release" /\ ctrl.prot = "tcp"
           \/ net'.flag = net.flag /\ at' = "idle"
    BY <1>15 DEF ModeDisconnect
  <2>2. Tcp => net.flag
    BY <2>1
  <2>3. QED
    BY <2>1, <2>2
<1>16. CASE ModeRelease
  BY <1>16 DEF ModeRelease
<1>17. CASE CreateSocket
  BY <1>17 DEF CreateSocket
<1>18. CASE Lock
  BY <1>18 DEF Lock
<1>19. CASE NoteSocket
  BY <1>19 DEF NoteSocket
<1>20. CASE Setup
  BY <1>20 DEF Setup
<1>21. CASE Wait
  BY <1>21 DEF Wait
<1>22. CASE Accept
  <2>1. srv = "accept" /\ UNCHANGED <<enable, arg, net, sem, at>>
    BY <1>22 DEF Accept
  <2>2. ASSUME NEW f \in Fds, srv' = IF f > 0 THEN "got" ELSE "wait", missed' = (missed \/ f = 0)
        PROVE  (srv' = "got" /\ (missed => missed')) \/ (srv' = "wait" /\ missed')
    <3>1. f > 0 \/ f = 0
      OBVIOUS
    <3>2. CASE f > 0
      BY <2>2, <3>2
    <3>3. CASE f = 0
      BY <2>2, <3>3
    <3>4. QED
      BY <3>1, <3>2, <3>3
  <2>3. (srv' = "got" /\ (missed => missed')) \/ (srv' = "wait" /\ missed')
    BY <1>22, <2>2 DEF Accept
  <2>4. QED
    BY <2>1, <2>3
<1>23. CASE NoteConn
  BY <1>23 DEF NoteConn
<1>24. CASE GiveUp
  BY <1>24 DEF GiveUp
<1>25. CASE UNCHANGED serverVars
  BY <1>25 DEF serverVars
<1>26. QED
  BY <1>1, <1>2, <1>3, <1>4, <1>5, <1>6, <1>7, <1>8, <1>9, <1>10, <1>11, <1>12, <1>13, <1>14, <1>15, <1>16, <1>17, <1>18, <1>19, <1>20, <1>21, <1>22, <1>23, <1>24, <1>25 DEF ServerNext, Command, ServerTask

LEMMA SockStep == ServerInv /\ [ServerNext]_serverVars => SockInv'
<1> SUFFICES ASSUME ServerInv, [ServerNext]_serverVars PROVE SockInv'
  OBVIOUS
<1> USE LwipAssumption DEF LwipAssumption, ServerInv, ServerTypeOK, FdNumbers, None, Busy, Locked, Closing, PlaceInv, TokenInv, SockInv, ConnInv, NotedInv, Tcp, One, NoNet, Making, Ended, Early, Freed, Uses
<1>1. CASE OtherUse
  BY <1>1 DEF OtherUse
<1>2. CASE SockdTcp
  BY <1>2 DEF SockdTcp
<1>3. CASE SockdTcpFails
  BY <1>3 DEF SockdTcpFails
<1>4. CASE SockdUdp
  BY <1>4 DEF SockdUdp
<1>5. CASE SockdUdpFails
  BY <1>5 DEF SockdUdpFails
<1>6. CASE SockdOff
  BY <1>6 DEF SockdOff
<1>7. CASE CloseSock
  BY <1>7 DEF CloseSock
<1>8. CASE CloseConn
  BY <1>8 DEF CloseConn
<1>9. CASE CloseUdp
  BY <1>9 DEF CloseUdp
<1>10. CASE SemaphoreDelete
  BY <1>10 DEF SemaphoreDelete
<1>11. CASE ThreadDelete
  BY <1>11 DEF ThreadDelete
<1>12. CASE ServeMode
  BY <1>12 DEF ServeMode
<1>13. CASE ModeLook
  BY <1>13 DEF ModeLook
<1>14. CASE ServeEnds
  BY <1>14 DEF ServeEnds
<1>15. CASE ModeDisconnect
  <2>1. net'.sock = net.sock /\ UNCHANGED <<fd, srv, own>>
    BY <1>15 DEF ModeDisconnect
  <2>2. at = "mode" /\ at' \in {"idle", "release"}
    BY <1>15 DEF ModeDisconnect
  <2>3. QED
    BY <2>1, <2>2
<1>16. CASE ModeRelease
  BY <1>16 DEF ModeRelease
<1>17. CASE CreateSocket
  BY <1>17 DEF CreateSocket
<1>18. CASE Lock
  BY <1>18 DEF Lock
<1>19. CASE NoteSocket
  BY <1>19 DEF NoteSocket
<1>20. CASE Setup
  BY <1>20 DEF Setup
<1>21. CASE Wait
  BY <1>21 DEF Wait
<1>22. CASE Accept
  <2>1. srv = "accept" /\ srv' \in {"got", "wait"} /\ UNCHANGED <<net, at>>
    BY <1>22 DEF Accept
  <2>2. own'.sock = own.sock /\ (fd[own.sock] = "listen" => fd'[own.sock] = "listen")
    BY <1>22, <2>1 DEF Accept
  <2>3. QED
    BY <2>1, <2>2
<1>23. CASE NoteConn
  BY <1>23 DEF NoteConn
<1>24. CASE GiveUp
  BY <1>24 DEF GiveUp
<1>25. CASE UNCHANGED serverVars
  BY <1>25 DEF serverVars
<1>26. QED
  BY <1>1, <1>2, <1>3, <1>4, <1>5, <1>6, <1>7, <1>8, <1>9, <1>10, <1>11, <1>12, <1>13, <1>14, <1>15, <1>16, <1>17, <1>18, <1>19, <1>20, <1>21, <1>22, <1>23, <1>24, <1>25 DEF ServerNext, Command, ServerTask

LEMMA ConnStep == ServerInv /\ [ServerNext]_serverVars => ConnInv'
<1> SUFFICES ASSUME ServerInv, [ServerNext]_serverVars PROVE ConnInv'
  OBVIOUS
<1> USE LwipAssumption DEF LwipAssumption, ServerInv, ServerTypeOK, FdNumbers, None, Busy, Locked, Closing, PlaceInv, TokenInv, SockInv, ConnInv, NotedInv, Tcp, One, NoNet, NoCtrl, Making, Ended, Early, Freed, Uses, MayDisconnect
<1>1. CASE OtherUse
  BY <1>1 DEF OtherUse
<1>2. CASE SockdTcp
  BY <1>2 DEF SockdTcp
<1>3. CASE SockdTcpFails
  BY <1>3 DEF SockdTcpFails
<1>4. CASE SockdUdp
  BY <1>4 DEF SockdUdp
<1>5. CASE SockdUdpFails
  BY <1>5 DEF SockdUdpFails
<1>6. CASE SockdOff
  BY <1>6 DEF SockdOff
<1>7. CASE CloseSock
  BY <1>7 DEF CloseSock
<1>8. CASE CloseConn
  BY <1>8 DEF CloseConn
<1>9. CASE CloseUdp
  BY <1>9 DEF CloseUdp
<1>10. CASE SemaphoreDelete
  BY <1>10 DEF SemaphoreDelete
<1>11. CASE ThreadDelete
  BY <1>11 DEF ThreadDelete
<1>12. CASE ServeMode
  BY <1>12 DEF ServeMode
<1>13. CASE ModeLook
  BY <1>13 DEF ModeLook
<1>14. CASE ServeEnds
  BY <1>14 DEF ServeEnds
<1>15. CASE ModeDisconnect
  BY <1>15, ZenonT(40) DEF ModeDisconnect
<1>16. CASE ModeRelease
  BY <1>16 DEF ModeRelease
<1>17. CASE CreateSocket
  BY <1>17 DEF CreateSocket
<1>18. CASE Lock
  BY <1>18 DEF Lock
<1>19. CASE NoteSocket
  BY <1>19 DEF NoteSocket
<1>20. CASE Setup
  BY <1>20 DEF Setup
<1>21. CASE Wait
  BY <1>21 DEF Wait
<1>22. CASE Accept
  BY <1>22 DEF Accept
<1>23. CASE NoteConn
  BY <1>23 DEF NoteConn
<1>24. CASE GiveUp
  BY <1>24 DEF GiveUp
<1>25. CASE UNCHANGED serverVars
  BY <1>25 DEF serverVars
<1>26. QED
  BY <1>1, <1>2, <1>3, <1>4, <1>5, <1>6, <1>7, <1>8, <1>9, <1>10, <1>11, <1>12, <1>13, <1>14, <1>15, <1>16, <1>17, <1>18, <1>19, <1>20, <1>21, <1>22, <1>23, <1>24, <1>25 DEF ServerNext, Command, ServerTask

LEMMA NotedStep == ServerInv /\ [ServerNext]_serverVars => NotedInv'
<1> SUFFICES ASSUME ServerInv, [ServerNext]_serverVars PROVE NotedInv'
  OBVIOUS
<1> USE LwipAssumption DEF LwipAssumption, ServerInv, ServerTypeOK, FdNumbers, None, Busy, Locked, Closing, PlaceInv, TokenInv, SockInv, ConnInv, NotedInv, Tcp, One, NoNet, Making, Ended, Early
<1>1. CASE OtherUse
  BY <1>1 DEF OtherUse
<1>2. CASE SockdTcp
  BY <1>2 DEF SockdTcp
<1>3. CASE SockdTcpFails
  BY <1>3 DEF SockdTcpFails
<1>4. CASE SockdUdp
  BY <1>4 DEF SockdUdp
<1>5. CASE SockdUdpFails
  BY <1>5 DEF SockdUdpFails
<1>6. CASE SockdOff
  BY <1>6 DEF SockdOff
<1>7. CASE CloseSock
  BY <1>7 DEF CloseSock
<1>8. CASE CloseConn
  BY <1>8 DEF CloseConn
<1>9. CASE CloseUdp
  BY <1>9 DEF CloseUdp
<1>10. CASE SemaphoreDelete
  BY <1>10 DEF SemaphoreDelete
<1>11. CASE ThreadDelete
  BY <1>11 DEF ThreadDelete
<1>12. CASE ServeMode
  BY <1>12 DEF ServeMode
<1>13. CASE ModeLook
  BY <1>13 DEF ModeLook
<1>14. CASE ServeEnds
  BY <1>14 DEF ServeEnds
<1>15. CASE ModeDisconnect
  BY <1>15 DEF ModeDisconnect
<1>16. CASE ModeRelease
  BY <1>16 DEF ModeRelease
<1>17. CASE CreateSocket
  BY <1>17 DEF CreateSocket
<1>18. CASE Lock
  BY <1>18 DEF Lock
<1>19. CASE NoteSocket
  BY <1>19 DEF NoteSocket
<1>20. CASE Setup
  BY <1>20 DEF Setup
<1>21. CASE Wait
  BY <1>21 DEF Wait
<1>22. CASE Accept
  BY <1>22 DEF Accept
<1>23. CASE NoteConn
  BY <1>23 DEF NoteConn
<1>24. CASE GiveUp
  BY <1>24 DEF GiveUp
<1>25. CASE UNCHANGED serverVars
  BY <1>25 DEF serverVars
<1>26. QED
  BY <1>1, <1>2, <1>3, <1>4, <1>5, <1>6, <1>7, <1>8, <1>9, <1>10, <1>11, <1>12, <1>13, <1>14, <1>15, <1>16, <1>17, <1>18, <1>19, <1>20, <1>21, <1>22, <1>23, <1>24, <1>25 DEF ServerNext, Command, ServerTask

LEMMA ServerInvSpec == ServerSpec => []ServerInv
<1>1. ServerInv /\ [ServerNext]_serverVars => ServerInv'
  BY ServerTypeStep, PlaceStep, TokenStep, SockStep, ConnStep, NotedStep DEF ServerInv
<1>2. QED
  BY ServerInitInv, <1>1, PTL DEF ServerSpec

\* Every variable of the server stays in its type, and the lock is with the thread
\* at the three places between server_mutex_lock and server_mutex_unlock only.
THEOREM ServerTypeCorrect == ServerSpec => []ServerTypeOK
BY ServerInvSpec, PTL DEF ServerInv

\* The token to accept is never doubled, and is lost by an accept that fails only:
\* wherever the thread is when data mode or SOCKD runs.
THEOREM TokenCorrect == ServerSpec => []TokenExact
BY ServerInvSpec, ServerMeaning, PTL

\* Data mode serves the connection accepted last, and never a number that is
\* another socket's by now.
THEOREM ServesCorrect == ServerSpec => []ServesOwn
BY ServerInvSpec, ServerMeaning, PTL

\* SOCKD=0 closes the server's sockets and no other, though it closes what it
\* read before.
THEOREM ClosesCorrect == ServerSpec => []ClosesOwn
BY ServerInvSpec, ServerMeaning, PTL

=============================================================================
