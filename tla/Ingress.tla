------------------------------ MODULE Ingress ------------------------------
(***************************************************************************)
(* The TCP ingress of one shard (gw/ingress_tcp.cc) with the length framer *)
(* of each connection (gw/length_framer.cc).  A peer sends frames, four    *)
(* bytes of length and a payload each; TCP hands them over in chunks cut   *)
(* anywhere; serve feeds every chunk to the framer, takes the whole frames *)
(* out of it and awaits on_payload for each.                               *)
(*                                                                         *)
(* The framer's _buf always holds a stretch of the byte stream, as append  *)
(* and erase(0, n) are all that is done to it: it is the bytes from from   *)
(* up to, not including, to.  on_payload is a place in the shard's FIFO    *)
(* semaphore, and then a write that resolves or throws (SinkSwap).         *)
(***************************************************************************)
EXTENDS Naturals, Sequences, FiniteSets

CONSTANTS Conn,     \* connections of one shard
          Stream,   \* what a peer may send: sequences of frames [at, len]
          Cap,      \* k_max_payload
          Word,     \* 2^32, the number of values of std::uint32_t
          MaxChunk  \* bytes that one read returns, at most

Frame == [at : Nat, len : Nat]
EndOf(f) == f.at + 4 + f.len
EndOfStream(s) == IF s = <<>> THEN 0 ELSE EndOf(s[Len(s)])

\* The frames of a stream follow each other, with any length that four bytes can
\* declare.  A read returns less than k_max_payload, and that is far below 2^32.
ASSUME IngressAssumption ==
  /\ Cap \in Nat /\ MaxChunk \in Nat /\ MaxChunk <= Cap + 4
  /\ Word \in Nat /\ Cap + 4 < Word
  /\ \A s \in Stream :
       /\ s \in Seq(Frame)
       /\ \A i \in DOMAIN s : s[i].len < Word
       /\ s # <<>> => s[1].at = 0
       /\ \A i, j \in DOMAIN s : /\ i < j => EndOf(s[i]) <= s[j].at
                                 /\ j = i + 1 => EndOf(s[i]) = s[j].at

VARIABLES
  pc,        \* where the coroutine of each connection is
  sent,      \* what its peer sends
  from, to,  \* the bytes in the framer's _buf
  handed,    \* the payloads passed to on_payload, up to the first that Wraps
  queue,     \* connections inside on_payload, the one that writes first
  running,   \* _running
  accepting  \* accept_loop has not ended

vars == <<pc, sent, from, to, handed, queue, running, accepting>>

\* What read_be_u32 may find in the first four bytes of the buffer: the length of
\* the frame that starts there; bytes that are no header give any length.
Declared(c) ==
  LET here == {i \in DOMAIN sent[c] : sent[c][i].at = from[c]}
  IN IF here = {} THEN 0..(Word - 1) ELSE {sent[c][i].len : i \in here}

\* 4 + length, in 32 bits.
Framed(len) == (4 + len) % Word

\* 4 + length does not fit 32 bits.
Wraps(f) == 4 + f.len >= Word

\* A payload was passed on whose length wraps: it is not what the peer sent, and
\* the buffer need not start with a header any more.
Astray(c) == \E k \in DOMAIN handed[c] : Wraps(handed[c][k])

\* try_extract finds a frame that declares len: its length field and, as far as
\* 4 + length tells, all of its payload.
HasFrame(c, len) ==
  /\ to[c] - from[c] >= 4
  /\ to[c] - from[c] >= Framed(len)

-----------------------------------------------------------------------------
(* accept_loop *)

\* The kernel completes a handshake: the connection waits to be accepted.
Connects(c) ==
  /\ running /\ pc[c] = "idle"
  /\ pc' = [pc EXCEPT ![c] = "backlog"]
  /\ UNCHANGED <<sent, from, to, handed, queue, running, accepting>>

\* The connection is served in the background.
Accepts(c) ==
  /\ accepting /\ pc[c] = "backlog"
  /\ pc' = [pc EXCEPT ![c] = "reading"]
  /\ UNCHANGED <<sent, from, to, handed, queue, running, accepting>>

\* accept fails, for want of file descriptors: a line in the log, and the loop
\* is over.
AcceptFails ==
  /\ accepting
  /\ accepting' = FALSE
  /\ UNCHANGED <<pc, sent, from, to, handed, queue, running>>

\* stop: abort_accept ends the loop; connections go on.
Stops ==
  /\ running
  /\ running' = FALSE /\ accepting' = FALSE
  /\ UNCHANGED <<pc, sent, from, to, handed, queue>>

-----------------------------------------------------------------------------
(* serve, and the framer *)

\* Mutant of Reads: the size is not checked.
ReadsUnchecked(c) ==
  /\ pc[c] = "reading"
  /\ \E n \in 1..MaxChunk :
       /\ to[c] + n <= EndOfStream(sent[c])
       /\ to' = [to EXCEPT ![c] = @ + n]
  /\ pc' = [pc EXCEPT ![c] = "draining"]
  /\ UNCHANGED <<sent, from, handed, queue, running, accepting>>

\* A chunk is fed.  If the length at the front is there and above the cap, the
\* connection is closed.
Reads(c) ==
  /\ pc[c] = "reading"
  /\ \E n \in 1..MaxChunk, len \in Declared(c) :
       /\ to[c] + n <= EndOfStream(sent[c])
       /\ to' = [to EXCEPT ![c] = @ + n]
       /\ LET large == to[c] + n - from[c] >= 4 /\ len > Cap
          IN pc' = [pc EXCEPT ![c] = IF large THEN "poisoned" ELSE "draining"]
  /\ UNCHANGED <<sent, from, handed, queue, running, accepting>>

\* The peer has closed the connection, or it is reset; a frame that is not
\* complete is dropped.
Ends(c) ==
  /\ pc[c] = "reading"
  /\ pc' = [pc EXCEPT ![c] = "closed"]
  /\ UNCHANGED <<sent, from, to, handed, queue, running, accepting>>

\* The payload that goes to on_payload.
Hands(c, len) ==
  /\ handed' = IF Astray(c) THEN handed
                ELSE [handed EXCEPT ![c] = Append(@, [at |-> from[c], len |-> len])]
  /\ queue' = Append(queue, c)
  /\ pc' = [pc EXCEPT ![c] = "handling"]

\* Mutant of Extracts: the payload is erased from the buffer, its header is not.
ExtractsPayloadOnly(c) ==
  /\ pc[c] = "draining"
  /\ \E len \in Declared(c) :
       /\ HasFrame(c, len) /\ Hands(c, len)
       /\ from' = [from EXCEPT ![c] = @ + Framed(len) - 4]
  /\ UNCHANGED <<sent, to, running, accepting>>

\* Header and payload leave the buffer, the payload goes to on_payload.  When the
\* length wraps, the copy has read past the buffer, and 0 to 3 bytes leave it.
Extracts(c) ==
  /\ pc[c] = "draining"
  /\ \E len \in Declared(c) :
       /\ HasFrame(c, len) /\ Hands(c, len)
       /\ from' = [from EXCEPT ![c] = @ + Framed(len)]
  /\ UNCHANGED <<sent, to, running, accepting>>

\* When the length wraps, it is more than the shard can allocate, which ends the
\* connection, or the copy faults, which ends the process.
CopyFails(c) ==
  /\ pc[c] = "draining"
  /\ \E len \in Declared(c) : HasFrame(c, len) /\ 4 + len >= Word
  /\ \/ pc' = [pc EXCEPT ![c] = "closed"] /\ UNCHANGED <<queue, running, accepting>>
     \/ /\ pc' = [d \in Conn |-> "closed"]
        /\ queue' = <<>> /\ running' = FALSE /\ accepting' = FALSE
  /\ UNCHANGED <<sent, from, to, handed>>

\* No whole frame is left: the next chunk is awaited.
Drained(c) ==
  /\ pc[c] = "draining"
  /\ \E len \in Declared(c) : ~HasFrame(c, len)
  /\ pc' = [pc EXCEPT ![c] = "reading"]
  /\ UNCHANGED <<sent, from, to, handed, queue, running, accepting>>

\* Mutant of Handles: one frame is extracted per chunk.
HandlesThenReads(c) ==
  /\ queue # <<>> /\ Head(queue) = c
  /\ queue' = Tail(queue)
  /\ pc' = [pc EXCEPT ![c] = "reading"]
  /\ UNCHANGED <<sent, from, to, handed, running, accepting>>

\* Mutant of Handles: an exception skips the release of the semaphore.
HandlesLeaks(c) ==
  /\ queue # <<>> /\ Head(queue) = c /\ pc[c] = "handling"
  /\ \/ pc' = [pc EXCEPT ![c] = "draining"] /\ queue' = Tail(queue)
     \/ pc' = [pc EXCEPT ![c] = "closed"] /\ UNCHANGED queue
  /\ UNCHANGED <<sent, from, to, handed, running, accepting>>

\* on_payload resolves, and the next frame is extracted, or it throws, and the
\* connection is closed with whatever it has buffered.
Handles(c) ==
  /\ queue # <<>> /\ Head(queue) = c
  /\ queue' = Tail(queue)
  /\ \E next \in {"draining", "closed"} : pc' = [pc EXCEPT ![c] = next]
  /\ UNCHANGED <<sent, from, to, handed, running, accepting>>

\* Nothing is under way in the shard: it waits for its peers.
Quiet == (\A c \in Conn : pc[c] \notin {"draining", "handling"}) /\ UNCHANGED vars

-----------------------------------------------------------------------------
Init ==
  /\ pc = [c \in Conn |-> "idle"]
  /\ sent \in [Conn -> Stream]
  /\ from = [c \in Conn |-> 0] /\ to = [c \in Conn |-> 0]
  /\ handed = [c \in Conn |-> <<>>] /\ queue = <<>>
  /\ running = TRUE /\ accepting = TRUE

ServeStep(c) == Extracts(c) \/ CopyFails(c) \/ Drained(c) \/ Handles(c)

Next ==
  \/ \E c \in Conn : Connects(c) \/ Accepts(c) \/ Reads(c) \/ Ends(c) \/ ServeStep(c)
  \/ AcceptFails \/ Stops \/ Quiet

\* The reactor runs every ready coroutine, and a write resolves or throws; no
\* peer has to send, and accept need not succeed.
Fairness == \A c \in Conn : WF_vars(ServeStep(c))

Spec == Init /\ [][Next]_vars
FairSpec == Spec /\ Fairness

-----------------------------------------------------------------------------
(* Properties *)

\* The variables keep their types.
TypeOK ==
  /\ pc \in [Conn -> {"idle", "backlog", "reading", "draining", "handling",
                      "closed", "poisoned"}]
  /\ sent \in [Conn -> Stream]
  /\ from \in [Conn -> Nat] /\ to \in [Conn -> Nat]
  /\ handed \in [Conn -> Seq(Frame)] /\ queue \in Seq(Conn)
  /\ \A c \in Conn : from[c] <= to[c] /\ to[c] <= EndOfStream(sent[c])
  /\ running \in BOOLEAN /\ accepting \in BOOLEAN

\* However TCP cuts the stream, the payloads passed on are those that were sent,
\* whole, in order, each once, up to a frame whose length wraps.
WholeFrames ==
  \A c \in Conn :
    /\ Len(handed[c]) <= Len(sent[c])
    /\ \A k \in DOMAIN handed[c] :
         /\ handed[c][k] = sent[c][k]
         /\ Wraps(handed[c][k]) => k = Len(handed[c])
         /\ Wraps(handed[c][k]) \/ EndOf(handed[c][k]) <= to[c]

\* A connection passes on no payload above the cap, although the framer checks a
\* length only when a chunk is fed, unless its length wraps; and it is closed for
\* its size only when the frame at the front is above the cap.
CapExact ==
  \A c \in Conn :
    /\ \A k \in DOMAIN handed[c] : handed[c][k].len <= Cap \/ Wraps(handed[c][k])
    /\ pc[c] = "poisoned" => Astray(c) \/ \E k \in DOMAIN sent[c] :
         k = Len(handed[c]) + 1 /\ sent[c][k].len > Cap

\* A connection waits for on_payload with one payload at a time, so that the
\* payloads of a connection cannot pass each other in the shard's queue.
OneInFlight ==
  /\ \A c \in Conn : pc[c] = "handling" <=> \E i \in DOMAIN queue : queue[i] = c
  /\ \A i, j \in DOMAIN queue : queue[i] = queue[j] => i = j

\* Frames that have been read completely are passed on without waiting for the
\* peer to send more, unless the connection is closed or a length wraps first.
FramesFlow ==
  \A c \in Conn :
    LET waiting == \E k \in DOMAIN sent[c] : k > Len(handed[c]) /\ to[c] >= EndOf(sent[c][k])
    IN waiting ~> (~waiting \/ pc[c] \in {"closed", "poisoned"} \/ Astray(c))

\* Until a length wraps, the buffer starts with the first frame f that was not
\* passed on.  It holds no whole frame while a chunk is awaited; after that, what
\* follows f came in one chunk, and f was not too large if it is whole.
BufferOK ==
  \A c \in Conn : ~Astray(c) =>
    LET n == Len(handed[c])  f == sent[c][n + 1] IN
    /\ n = Len(sent[c]) => from[c] = EndOfStream(sent[c])
    /\ n < Len(sent[c]) =>
         /\ from[c] = f.at
         /\ pc[c] \in {"idle", "backlog", "reading"} => to[c] < EndOf(f)
         /\ pc[c] \in {"draining", "handling"} =>
              to[c] < EndOf(f) + MaxChunk /\ (to[c] >= EndOf(f) => f.len <= Cap)

\* The inductive invariant behind the safety properties.
IInv == TypeOK /\ WholeFrames /\ CapExact /\ OneInFlight /\ BufferOK

\* The README describes GET /readyz as "All shards have sink + ingress up", and
\* is_ready looks at pointers that are set once: while a shard is ready, and not
\* stopped, it accepts connections.
ReadyMeansAccepting == running => accepting
=============================================================================
