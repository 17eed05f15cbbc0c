------------------------------ MODULE AtParser -------------------------------
(***************************************************************************)
(* The reader of AT commands (src/atcmd): a byte queue over serial_read    *)
(* (at_queue.c), the loop that collects a line and runs it (at_parse), and *)
(* AT+S.SOCKW, which takes the bytes after its line for the socket         *)
(* (at_sockw).                                                             *)
(*                                                                         *)
(* What the host sends is chosen at the start: a script of commands, each  *)
(* with the length and the end of its line and with the bytes that follow  *)
(* it.  A byte is known by where in the script it is, so that the text of  *)
(* a line is itself only if it is whole.                                   *)
(***************************************************************************)
EXTENDS Integers, Sequences, SequencesExt

CONSTANTS CMD_CACHE_MAX_LEN,
          BufferSize,  \* AT_SOCKET_BUFFER_SIZE
          WinSize,     \* the bytes asked of serial_read
          Scripts      \* bound: what the host may send

\* A line, how it ends, and how many bytes for a socket follow it.
Cmds == [len : Nat \ {0}, end : {"lf", "cr", "crlf"}, data : Nat]

\* Only a line of SOCKW, which is longer than a byte, is followed by bytes.
ASSUME AtParserAssumption ==
  /\ CMD_CACHE_MAX_LEN \in Nat \ {0, 1} /\ BufferSize \in Nat \ {0}
  /\ WinSize \in Nat \ {0}
  /\ Scripts \subseteq Seq({c \in Cmds : c.data > 0 => c.len > 1})

VARIABLES
  script,  \* what the host sends, a command at each place
  wire,    \* the bytes it has yet to send
  queue,   \* at_queue
  cache,   \* cache, as long as its cnt
  flag,    \* at_parse: a line has ended
  at,      \* the thread is in at_parse, or in at_sockw
  left,    \* at_sockw: the bytes not written yet
  buf,     \* at_socket_buf, as far as at_sockw has filled it
  ran,     \* history: the commands that were run
  tails,   \* history: the commands of which another part was run
  cut,     \* history: the commands whose line end was dropped
  wrote    \* history: the bytes each command handed to the socket

parser == <<script, wire, queue, cache, flag, at, left, buf, ran, tails, cut, wrote>>

Items == 1 .. Len(script)

Byte(i, part, n) == [item |-> i, part |-> part, n |-> n]
Run(i, part, n)  == [k \in 1 .. n |-> Byte(i, part, k)]

\* The bytes of command i, c.
Text(i, c) == Run(i, "char", c.len)
End(i, c)  == CASE c.end = "lf"   -> <<Byte(i, "lf", 1)>>
                [] c.end = "cr"   -> <<Byte(i, "cr", 1)>>
                [] c.end = "crlf" -> <<Byte(i, "cr", 1), Byte(i, "lf", 2)>>
Data(i, c) == Run(i, "data", c.data)
Sent(s)    == FlattenSeq([i \in 1 .. Len(s) |-> Text(i, s[i]) \o End(i, s[i]) \o Data(i, s[i])])

ParserInit ==
  /\ script \in Scripts /\ wire = Sent(script)
  /\ queue = <<>> /\ cache = <<>> /\ flag = FALSE
  /\ at = "parse" /\ left = 0 /\ buf = <<>>
  /\ ran = <<>> /\ tails = {} /\ cut = {}
  /\ wrote = [i \in Items |-> <<>>]

-----------------------------------------------------------------------------
(* The byte queue.  Only an empty queue asks serial_read, which has some   *)
(* of the bytes sent or, after a while, none.  A line of WinSize fits.     *)

Reads(q, w) ==
  IF q # <<>> THEN {[queue |-> q, wire |-> w]}
  ELSE {[queue |-> SubSeq(w, 1, n), wire |-> SubSeq(w, n + 1, Len(w))] :
          n \in {k \in 0 .. Len(w) : k =< WinSize}}

-----------------------------------------------------------------------------
(* at_parse.  A byte makes of the cache and the flag new ones; go, if the  *)
(* loop comes as far as the test of the flag.                              *)

Discarded(fl) == [cache |-> <<>>, flag |-> fl, go |-> FALSE]

\* Mutant of Put: one byte too many.
PutOver(c, b, fl) ==
  IF Len(c) =< CMD_CACHE_MAX_LEN
  THEN [cache |-> Append(c, b), flag |-> fl, go |-> TRUE]
  ELSE Discarded(fl)

Put(c, b, fl) ==
  IF Len(c) < CMD_CACHE_MAX_LEN
  THEN [cache |-> Append(c, b), flag |-> fl, go |-> TRUE]
  ELSE Discarded(fl)

\* A line feed is put twice: here and behind the branches.
PutLf(c, b, fl) ==
  IF Len(c) < CMD_CACHE_MAX_LEN THEN Put(Append(c, b), b, TRUE) ELSE Discarded(fl)

\* A carriage return is put with no look at the room, and the next byte, if
\* there is one, with it.  What a carriage return behind a full cache is
\* written over is not modelled.
PutCr(c, b, next, fl) ==
  IF next.part = "lf" THEN PutLf(Append(c, b), next, fl) ELSE Put(Append(c, b), next, TRUE)

\* The line in the cache, and the command that is this line.
IsEnd(b)   == b.part \in {"lf", "cr"}
Line(c)    == IF \E b \in ToSet(c) : IsEnd(b) THEN SubSeq(c, 1, SelectInSeq(c, IsEnd) - 1) ELSE c
Whole(c)   == {i \in Items : Line(c) = Text(i, script[i])}

\* Mutant of ParseCmd: the flag is left set.
ParseCmdFlag(c) ==
  /\ ran' = ran \o SetToSeq(Whole(c))
  /\ cache' = <<>> /\ flag' = TRUE
  /\ UNCHANGED <<at, left, buf, tails>>

\* at_parse_cmd.  A part of a line, or bytes meant for a socket, are no
\* command, or one that is not modelled.
ParseCmd(c) ==
  /\ ran' = ran \o SetToSeq(Whole(c))
  /\ IF \E i \in Whole(c) : script[i].data > 0
     THEN /\ at' = "write" /\ buf' = <<>>
          /\ left' = script[CHOOSE i \in Whole(c) : TRUE].data
     ELSE UNCHANGED <<at, left, buf>>
  /\ tails' = tails \cup {c[k].item : k \in {k \in 1 .. Len(Line(c)) : Whole(c) = {}
                                                      /\ c[k].part = "char"}}
  /\ cache' = <<>> /\ flag' = FALSE

NoCmd(s) ==
  /\ cache' = s.cache /\ flag' = s.flag
  /\ UNCHANGED <<at, left, buf, ran, tails>>

\* The end of the loop, after a byte b.
Loop(s, b) ==
  /\ cut' = IF IsEnd(b) /\ ~s.go THEN cut \cup {b.item} ELSE cut
  /\ IF s.go /\ s.flag THEN ParseCmd(s.cache) ELSE NoCmd(s)
  /\ UNCHANGED <<script, wrote>>

Got(r, b) == r.queue # <<>> /\ b = Head(r.queue)

ParseByte ==
  /\ at = "parse"
  /\ \E r \in Reads(queue, wire) : \E b \in ToSet(r.queue) :
       /\ Got(r, b) /\ ~IsEnd(b)
       /\ queue' = Tail(r.queue) /\ wire' = r.wire
       /\ Loop(Put(cache, b, flag), b)

ParseLf ==
  /\ at = "parse"
  /\ \E r \in Reads(queue, wire) : \E b \in ToSet(r.queue) :
       /\ Got(r, b) /\ b.part = "lf"
       /\ queue' = Tail(r.queue) /\ wire' = r.wire
       /\ Loop(PutLf(cache, b, flag), b)

\* The byte after a carriage return is looked at and left in the queue, the
\* line feed of the same end too.  With none, the carriage return is put
\* twice.
ParseCr ==
  /\ at = "parse"
  /\ \E r \in Reads(queue, wire) : \E b \in ToSet(r.queue) :
       /\ Got(r, b) /\ b.part = "cr"
       /\ \E p \in Reads(Tail(r.queue), r.wire) :
            /\ queue' = p.queue /\ wire' = p.wire
            /\ Loop(PutCr(cache, b, IF p.queue = <<>> THEN b ELSE Head(p.queue), flag), b)

\* No byte comes; what is in the cache is run if the flag was left set.
ParseNone ==
  /\ at = "parse" /\ queue = <<>> /\ flag
  /\ ParseCmd(cache)
  /\ UNCHANGED <<script, wire, queue, cut, wrote>>

-----------------------------------------------------------------------------
(* at_sockw, of the command run last.                                      *)

Chunk == IF left < BufferSize THEN left ELSE BufferSize

\* It asks for a byte until there is one.
WriteByte ==
  /\ at = "write" /\ Len(buf) < Chunk
  /\ \E r \in Reads(queue, wire) :
       /\ r.queue # <<>>
       /\ queue' = Tail(r.queue) /\ wire' = r.wire
       /\ buf' = Append(buf, Head(r.queue))
  /\ UNCHANGED <<script, cache, flag, at, left, ran, tails, cut, wrote>>

WriteChunk ==
  /\ at = "write" /\ Len(buf) = Chunk
  /\ wrote' = [wrote EXCEPT ![Last(ran)] = @ \o buf]
  /\ left' = left - Len(buf) /\ buf' = <<>>
  /\ at' = IF left' = 0 THEN "parse" ELSE "write"
  /\ UNCHANGED <<script, wire, queue, cache, flag, ran, tails, cut>>

\* Mutant of SockwFails: at_sockw goes on with the next chunk.
SockwFailsOn ==
  /\ at = "write" /\ Len(buf) = Chunk
  /\ left' = left - Len(buf) /\ buf' = <<>>
  /\ at' = IF left' = 0 THEN "parse" ELSE "write"
  /\ UNCHANGED <<script, wire, queue, cache, flag, ran, tails, cut, wrote>>

\* The callback fails.  The bytes still to come are left to at_parse.
SockwFails ==
  /\ at = "write" /\ Len(buf) = Chunk
  /\ at' = "parse" /\ left' = 0 /\ buf' = <<>>
  /\ UNCHANGED <<script, wire, queue, cache, flag, ran, tails, cut, wrote>>

-----------------------------------------------------------------------------
ParserNext ==
  \/ ParseByte \/ ParseLf \/ ParseCr \/ ParseNone
  \/ WriteByte \/ WriteChunk \/ SockwFails

ParserSpec == ParserInit /\ [][ParserNext]_parser

-----------------------------------------------------------------------------
Bytes == [item : Items, part : {"char", "lf", "cr", "data"}, n : Nat]

ParserTypeOK ==
  /\ wire \in Seq(Bytes) /\ queue \in Seq(Bytes) /\ Len(queue) =< WinSize
  /\ cache \in Seq(Bytes) /\ Len(cache) =< CMD_CACHE_MAX_LEN
  /\ flag \in BOOLEAN /\ (flag => cache = <<>>)
  /\ at \in {"parse", "write"} /\ (at = "write" <=> left > 0)
  /\ left \in Nat /\ buf \in Seq(Bytes) /\ Len(buf) =< Chunk
  /\ ran \in Seq(Items) /\ tails \subseteq Items /\ cut \subseteq Items
  /\ wrote \in [Items -> Seq(Bytes)]

\* A line that leaves room for its end as often as that is put.
Fits(i) == script[i].len + Len(End(i, script[i])) + 1 =< CMD_CACHE_MAX_LEN

\* All of command i is taken, but for what follows its line.
Read(i) ==
  LET rest == ToSet(queue) \cup ToSet(wire)
  IN \A b \in rest : b.item = i => b.part = "data"

(* Commands are run in the order they were sent, and once, and one bad line *)
(* costs the next one at most: a command that fits is run if the line       *)
(* before it came to its end with room and had no bytes for a socket,       *)
(* whatever came before: lines too long, bytes left by a write that failed  *)
(* or shifted by a line feed.                                               *)
RunAgain ==
  /\ \A j, k \in DOMAIN ran : j < k => ran[j] < ran[k]
  /\ \A i \in Items :
       /\ Fits(i) /\ Read(i)
       /\ i > 1 => script[i - 1].data = 0 /\ i - 1 \notin cut
       => i \in ToSet(ran)

(* SOCKW hands over the bytes that follow its line, in order, through any  *)
(* number of chunks.  Not so behind a line that ends with both characters, *)
(* see DataFollows.                                                        *)
DataWritten ==
  \A i \in Items : script[i].end # "crlf" => IsPrefix(wrote[i], Data(i, script[i]))

-----------------------------------------------------------------------------
(* What a comment and the help say, and the code does not keep (README, 5). *)

(* A line that is too long is discarded.  The code drops what it has of it *)
(* and runs the rest as a line of its own.                                 *)
LongDiscarded == \A i \in Items : ~Fits(i) => i \notin tails

(* The bytes after the line of SOCKW are those for the socket.  The code   *)
(* looks twice at the line feed behind a carriage return and takes it      *)
(* never: it becomes the first byte written.                               *)
DataFollows == \A i \in Items : IsPrefix(wrote[i], Data(i, script[i]))
=============================================================================
