--------------------------- MODULE Ingress_proofs ---------------------------
(* Theorems about Ingress, for any connections, any streams, with any        *)
(* lengths that four bytes declare, and any way TCP may cut them.            *)
EXTENDS Ingress, TLAPS

-----------------------------------------------------------------------------
(* Streams *)

\* A stream is a sequence of frames whose fields are numbers.
LEMMA StreamType ==
  ASSUME NEW s \in Stream
  PROVE  /\ s \in Seq(Frame) /\ Len(s) \in Nat /\ DOMAIN s = 1..Len(s)
         /\ \A k \in 1..Len(s) : s[k] \in Frame /\ s[k].at \in Nat /\ s[k].len \in Nat
                                 /\ s[k].len < Word
         /\ EndOfStream(s) \in Nat
<1>1. s \in Seq(Frame)
  BY IngressAssumption
<1>2. Len(s) \in Nat /\ DOMAIN s = 1..Len(s)
  BY <1>1
<1>3. \A k \in 1..Len(s) : s[k] \in Frame /\ s[k].at \in Nat /\ s[k].len \in Nat
  <2>1. \A k \in 1..Len(s) : s[k] \in Frame
    BY <1>1
  <2>2. \A f \in Frame : f.at \in Nat /\ f.len \in Nat
    BY DEF Frame
  <2> QED BY <2>1, <2>2
<1>4. EndOfStream(s) \in Nat
  <2>1. CASE s = <<>>
    BY <2>1 DEF EndOfStream
  <2>2. CASE s # <<>>
    <3>1. Len(s) \in 1..Len(s)
      BY <1>1, <1>2, <2>2
    <3> QED BY <2>2, <3>1, <1>3 DEF EndOfStream, EndOf
  <2> QED BY <2>1, <2>2
<1>5. \A k \in 1..Len(s) : s[k].len < Word
  BY <1>2, IngressAssumption
<1> QED BY <1>1, <1>2, <1>3, <1>4, <1>5

\* Two frames of a stream start at different places.
LEMMA FramesApart ==
  ASSUME NEW s \in Stream, NEW j \in 1..Len(s), NEW k \in 1..Len(s), s[j].at = s[k].at
  PROVE  j = k
<1>1. \A a, b \in 1..Len(s) : a < b => s[a].at < s[b].at
  <2> TAKE a, b \in 1..Len(s)
  <2>1. /\ s[a].at \in Nat /\ s[a].len \in Nat /\ s[b].at \in Nat
        /\ a < b => EndOf(s[a]) <= s[b].at
    BY StreamType, IngressAssumption
  <2> QED BY <2>1 DEF EndOf
<1>2. s[j].at \in Nat /\ s[k].at \in Nat /\ Len(s) \in Nat
  BY StreamType
<1> QED BY <1>1, <1>2

\* A frame is followed by the next one, or by the end of the stream.
LEMMA FrameFollows ==
  ASSUME NEW s \in Stream, NEW k \in 1..Len(s)
  PROVE  IF k = Len(s) THEN EndOf(s[k]) = EndOfStream(s) ELSE EndOf(s[k]) = s[k + 1].at
<1>1. Len(s) \in Nat /\ DOMAIN s = 1..Len(s) /\ s # <<>>
  BY StreamType
<1>2. CASE k = Len(s)
  BY <1>1, <1>2 DEF EndOfStream
<1>3. CASE k # Len(s)
  <2>1. k + 1 \in DOMAIN s /\ k \in DOMAIN s /\ k < k + 1
    <3> DEFINE n == Len(s)
    <3>1. n \in Nat /\ k \in 1..n /\ DOMAIN s = 1..n
      BY <1>1
    <3>2. k # n
      BY <1>3
    <3> HIDE DEF n
    <3>3. k + 1 \in 1..n /\ k < k + 1
      BY <3>1, <3>2
    <3> QED BY <3>1, <3>3
  <2>2. \A i, j \in DOMAIN s : i < j => (j = i + 1 => EndOf(s[i]) = s[j].at)
    BY IngressAssumption
  <2>3. EndOf(s[k]) = s[k + 1].at
    BY <2>1, <2>2
  <2> QED BY <1>3, <2>3
<1> QED BY <1>2, <1>3

-----------------------------------------------------------------------------
(* The front of the buffer *)

\* The sum of 32 bits is the sum, or less.
LEMMA FramedIs ==
  ASSUME NEW len \in Nat
  PROVE  /\ Framed(len) \in Nat /\ Framed(len) <= 4 + len
         /\ 4 + len < Word => Framed(len) = 4 + len
<1>1. Word \in Nat /\ Word > 0
  BY IngressAssumption
<1>2. \A n \in Nat, w \in Nat \ {0} : n % w \in Nat /\ n % w <= n /\ (n < w => n % w = n)
  <2> TAKE n \in Nat, w \in Nat \ {0}
  <2> DEFINE q == n \div w
             m == n % w
  <2>1. q \in Nat /\ m \in Nat /\ m < w /\ n = w * q + m
    OBVIOUS
  <2> HIDE DEF q, m
  <2>2. w * q \in Nat /\ (q # 0 => w * q >= w)
    BY <2>1
  <2>3. q = 0 => w * q = 0
    BY <2>1
  <2>4. m <= n /\ (n < w => m = n)
    BY <2>1, <2>2, <2>3
  <2> QED BY <2>1, <2>4 DEF m
<1>3. 4 + len \in Nat /\ Word \in Nat \ {0}
  BY <1>1
<1> QED BY <1>2, <1>3 DEF Framed

\* The numbers of a connection.
LEMMA Numbers ==
  ASSUME IInv, NEW c \in Conn
  PROVE  /\ sent[c] \in Stream /\ Len(sent[c]) \in Nat
         /\ Len(handed[c]) \in Nat /\ Len(handed[c]) <= Len(sent[c])
         /\ handed[c] \in Seq(Frame) /\ DOMAIN handed[c] = 1..Len(handed[c])
         /\ from[c] \in Nat /\ to[c] \in Nat /\ from[c] <= to[c]
         /\ to[c] <= EndOfStream(sent[c]) /\ EndOfStream(sent[c]) \in Nat
BY StreamType DEF IInv, TypeOK, WholeFrames

\* A declared length is a number of four bytes.
LEMMA DeclaredType ==
  ASSUME IInv, NEW c \in Conn, NEW len \in Declared(c)
  PROVE  len \in Nat /\ len < Word
<1> DEFINE here == {i \in DOMAIN sent[c] : sent[c][i].at = from[c]}
<1>1. CASE here = {}
  <2>1. len \in 0..(Word - 1) /\ Word \in Nat
    BY <1>1, IngressAssumption DEF Declared
  <2> QED BY <2>1
<1>2. CASE here # {}
  <2>1. PICK i \in DOMAIN sent[c] : len = sent[c][i].len
    BY <1>2 DEF Declared
  <2> QED BY <2>1, Numbers, StreamType
<1> QED BY <1>1, <1>2

\* While frames are left and no length has wrapped, the buffer starts with the
\* next one, and what the framer reads there is its length.
LEMMA Front ==
  ASSUME IInv, NEW c \in Conn, ~Astray(c), Len(handed[c]) < Len(sent[c])
  PROVE  LET f == sent[c][Len(handed[c]) + 1] IN
         /\ Len(handed[c]) + 1 \in 1..Len(sent[c])
         /\ f \in Frame /\ f.at \in Nat /\ f.len \in Nat /\ f.len < Word
         /\ from[c] = f.at /\ Declared(c) = {f.len}
         /\ HasFrame(c, f.len) => Wraps(f) \/ to[c] >= EndOf(f)
         /\ ~HasFrame(c, f.len) => to[c] < EndOf(f)
<1> DEFINE k == Len(handed[c]) + 1
           f == sent[c][k]
           here == {i \in DOMAIN sent[c] : sent[c][i].at = from[c]}
<1>1. k \in 1..Len(sent[c]) /\ DOMAIN sent[c] = 1..Len(sent[c])
  BY Numbers, StreamType
<1>2. f \in Frame /\ f.at \in Nat /\ f.len \in Nat /\ f.len < Word
  BY <1>1, Numbers, StreamType
<1>3. from[c] = f.at
  BY <1>1 DEF IInv, BufferOK
<1>4. \A i \in 1..Len(sent[c]) : sent[c][i].at = f.at => i = k
  BY <1>1, Numbers, FramesApart
<1>5. Declared(c) = {f.len}
  <2>1. here = {k}
    BY <1>1, <1>3, <1>4
  <2>2. Declared(c) = {sent[c][i].len : i \in here}
    BY <2>1 DEF Declared
  <2> QED BY <2>1, <2>2
<1>6. /\ HasFrame(c, f.len) => Wraps(f) \/ to[c] >= EndOf(f)
      /\ ~HasFrame(c, f.len) => to[c] < EndOf(f)
  <2> HIDE DEF k, f, here
  <2>1. from[c] \in Nat /\ to[c] \in Nat /\ from[c] <= to[c] /\ Word \in Nat
    BY Numbers, IngressAssumption
  <2>2. EndOf(f) = from[c] + 4 + f.len
    BY <1>3 DEF EndOf
  <2>3. /\ Framed(f.len) \in Nat /\ Framed(f.len) <= 4 + f.len
        /\ 4 + f.len < Word => Framed(f.len) = 4 + f.len
    BY <1>2, FramedIs
  <2> QED BY <1>2, <2>1, <2>2, <2>3 DEF HasFrame, Wraps
<1> HIDE DEF k, f, here
<1> QED BY <1>1, <1>2, <1>3, <1>5, <1>6 DEF k, f

\* When no frame is left and no length has wrapped, the buffer is empty.
LEMMA NoFront ==
  ASSUME IInv, NEW c \in Conn, ~Astray(c), Len(handed[c]) = Len(sent[c])
  PROVE  from[c] = to[c] /\ to[c] = EndOfStream(sent[c]) /\ \A len : ~HasFrame(c, len)
<1>1. from[c] = EndOfStream(sent[c])
  BY DEF IInv, BufferOK
<1>2. from[c] = to[c] /\ to[c] - from[c] = 0
  BY <1>1, Numbers
<1> QED BY <1>1, <1>2 DEF HasFrame

-----------------------------------------------------------------------------
(* The invariant *)

\* What the invariant says of one connection, without the queue.
OneOK(c) ==
  LET n == Len(handed[c])  f == sent[c][n + 1] IN
  /\ from[c] <= to[c] /\ to[c] <= EndOfStream(sent[c])
  /\ n <= Len(sent[c])
  /\ \A k \in DOMAIN handed[c] :
       /\ handed[c][k] = sent[c][k]
       /\ Wraps(handed[c][k]) => k = Len(handed[c])
       /\ Wraps(handed[c][k]) \/ EndOf(handed[c][k]) <= to[c]
  /\ \A k \in DOMAIN handed[c] : handed[c][k].len <= Cap \/ Wraps(handed[c][k])
  /\ pc[c] = "poisoned" => Astray(c) \/ \E k \in DOMAIN sent[c] :
       k = n + 1 /\ sent[c][k].len > Cap
  /\ ~Astray(c) =>
       /\ n = Len(sent[c]) => from[c] = EndOfStream(sent[c])
       /\ n < Len(sent[c]) =>
            /\ from[c] = f.at
            /\ pc[c] \in {"idle", "backlog", "reading"} => to[c] < EndOf(f)
            /\ pc[c] \in {"draining", "handling"} =>
                 to[c] < EndOf(f) + MaxChunk /\ (to[c] >= EndOf(f) => f.len <= Cap)

Shape ==
  /\ pc \in [Conn -> {"idle", "backlog", "reading", "draining", "handling",
                      "closed", "poisoned"}]
  /\ sent \in [Conn -> Stream]
  /\ from \in [Conn -> Nat] /\ to \in [Conn -> Nat]
  /\ handed \in [Conn -> Seq(Frame)] /\ queue \in Seq(Conn)
  /\ running \in BOOLEAN /\ accepting \in BOOLEAN

LEMMA InvByConn == IInv <=> Shape /\ OneInFlight /\ \A c \in Conn : OneOK(c)
BY DEF IInv, TypeOK, WholeFrames, CapExact, BufferOK, Shape, OneOK

\* A step that changes the variables of one connection only.
LEMMA OneConn ==
  ASSUME IInv, NEW c \in Conn, Shape', OneInFlight', sent' = sent,
         \A d \in Conn \ {c} : /\ pc'[d] = pc[d] /\ from'[d] = from[d]
                               /\ to'[d] = to[d] /\ handed'[d] = handed[d],
         OneOK(c)'
  PROVE  IInv'
<1>1. ASSUME NEW d \in Conn PROVE OneOK(d)'
  <2>1. CASE d = c
    BY <2>1
  <2>2. CASE d # c
    <3>1. OneOK(d)
      BY InvByConn
    <3>2. /\ pc'[d] = pc[d] /\ from'[d] = from[d] /\ to'[d] = to[d]
          /\ handed'[d] = handed[d] /\ sent'[d] = sent[d]
      BY <2>2
    <3>3. Astray(d)' <=> Astray(d)
      BY <3>2 DEF Astray, Wraps
    <3> QED BY <3>1, <3>2, <3>3 DEF OneOK, Wraps
  <2> QED BY <2>1, <2>2
<1>2. Shape' /\ OneInFlight' /\ \A d \in Conn : OneOK(d)'
  BY <1>1
<1> QED BY <1>2 DEF IInv, TypeOK, WholeFrames, CapExact, BufferOK, Shape, OneOK

\* Once a length has wrapped, what was passed on is settled.
LEMMA AstrayOK ==
  ASSUME IInv, NEW c \in Conn, Astray(c), handed'[c] = handed[c], sent' = sent,
         from'[c] <= to'[c], to'[c] <= EndOfStream(sent[c]),
         to'[c] \in Nat, to[c] <= to'[c]
  PROVE  OneOK(c)' /\ Astray(c)'
<1>1. Astray(c)'
  BY DEF Astray, Wraps
<1>2. OneOK(c) /\ to[c] \in Nat /\ DOMAIN handed[c] = 1..Len(handed[c])
  BY InvByConn, Numbers
<1>3. \A k \in DOMAIN handed[c] : EndOf(handed[c][k]) \in Nat
  <2>1. \A k \in DOMAIN handed[c] : handed[c][k] \in Frame
    BY <1>2, Numbers
  <2>2. \A f \in Frame : EndOf(f) \in Nat
    BY DEF Frame, EndOf
  <2> QED BY <2>1, <2>2
<1>4. ASSUME NEW k \in DOMAIN handed[c], Wraps(handed[c][k]) \/ EndOf(handed[c][k]) <= to[c]
      PROVE  Wraps(handed[c][k]) \/ EndOf(handed[c][k]) <= to'[c]
  BY <1>2, <1>3, <1>4
<1> QED BY <1>1, <1>2, <1>4 DEF OneOK, Wraps

\* The queue is untouched, and no coroutine enters or leaves on_payload.
LEMMA QueueSame ==
  ASSUME IInv, NEW c \in Conn, NEW next, pc' = [pc EXCEPT ![c] = next],
         pc[c] # "handling", next # "handling", queue' = queue
  PROVE  OneInFlight'
BY DEF IInv, TypeOK, OneInFlight

\* The invariant holds initially.
LEMMA InitIInv == Init => IInv
<1> SUFFICES ASSUME Init PROVE IInv
  OBVIOUS
<1>1. Shape
  BY DEF Init, Shape
<1>2. OneInFlight
  BY DEF Init, OneInFlight
<1>3. ASSUME NEW c \in Conn PROVE OneOK(c)
  <2>1. sent[c] \in Stream /\ from[c] = 0 /\ to[c] = 0 /\ handed[c] = <<>> /\ pc[c] = "idle"
    BY DEF Init
  <2>2. Len(sent[c]) \in Nat /\ EndOfStream(sent[c]) \in Nat
    BY <2>1, StreamType
  <2>3. Len(sent[c]) = 0 => EndOfStream(sent[c]) = 0
    BY <2>1, StreamType DEF EndOfStream
  <2>4. 0 < Len(sent[c]) => sent[c][1].at = 0 /\ EndOf(sent[c][1]) > 0
    BY <2>1, <2>2, StreamType, IngressAssumption DEF EndOf
  <2>5. Len(handed[c]) = 0 /\ DOMAIN handed[c] = {}
    BY <2>1
  <2> QED BY <2>1, <2>2, <2>3, <2>4, <2>5 DEF OneOK, Astray
<1> QED BY <1>1, <1>2, <1>3, InvByConn

-----------------------------------------------------------------------------
(* One step of one connection *)

\* The step before and after a read: the program counter moves, the bytes stay.
LEMMA MovesIInv ==
  ASSUME IInv, NEW c \in Conn, Connects(c) \/ Accepts(c) \/ Ends(c)
  PROVE  IInv'
<1>1. PICK next \in {"backlog", "reading", "closed"} :
        /\ pc' = [pc EXCEPT ![c] = next]
        /\ pc[c] \in {"idle", "backlog", "reading"}
        /\ UNCHANGED <<sent, from, to, handed, queue, running, accepting>>
  BY DEF Connects, Accepts, Ends
<1>2. Shape' /\ pc'[c] = next
  BY <1>1, InvByConn DEF Shape
<1>3. OneInFlight'
  BY <1>1, QueueSame
<1>4. OneOK(c)'
  BY <1>1, <1>2, InvByConn DEF OneOK, Astray, Wraps
<1>5. \A d \in Conn \ {c} : pc'[d] = pc[d]
  BY <1>1, InvByConn DEF Shape
<1> QED BY <1>1, <1>2, <1>3, <1>4, <1>5, OneConn

\* A fed chunk lies behind the front frame, which the framer checks.
LEMMA ReadsIInv ==
  ASSUME IInv, NEW c \in Conn, Reads(c)
  PROVE  IInv'
<1>1. PICK n \in 1..MaxChunk, len \in Declared(c) :
        /\ to[c] + n <= EndOfStream(sent[c])
        /\ to' = [to EXCEPT ![c] = @ + n]
        /\ LET large == to[c] + n - from[c] >= 4 /\ len > Cap
           IN pc' = [pc EXCEPT ![c] = IF large THEN "poisoned" ELSE "draining"]
  BY DEF Reads
<1>2. /\ pc[c] = "reading" /\ UNCHANGED <<sent, from, handed, queue, running, accepting>>
  BY DEF Reads
<1>3. n \in Nat /\ n > 0 /\ n <= MaxChunk /\ MaxChunk \in Nat /\ Cap \in Nat
  BY IngressAssumption
<1>4. to'[c] = to[c] + n /\ to'[c] \in Nat /\ \A d \in Conn \ {c} : to'[d] = to[d]
  BY <1>1, <1>3, InvByConn DEF Shape
<1> DEFINE large == to[c] + n - from[c] >= 4 /\ len > Cap
           next == IF large THEN "poisoned" ELSE "draining"
<1>5. pc' = [pc EXCEPT ![c] = next]
  BY <1>1
<1>6. next \in {"poisoned", "draining"}
  OBVIOUS
<1> HIDE DEF next
<1>7. pc'[c] = next /\ \A d \in Conn \ {c} : pc'[d] = pc[d]
  BY <1>5, InvByConn DEF Shape
<1>8. Shape'
  <2>1. to' \in [Conn -> Nat]
    BY <1>1, <1>3, InvByConn DEF Shape
  <2>2. pc' \in [Conn -> {"idle", "backlog", "reading", "draining", "handling",
                         "closed", "poisoned"}]
    BY <1>5, <1>6, InvByConn DEF Shape
  <2> QED BY <1>2, <2>1, <2>2, InvByConn DEF Shape
<1>9. OneInFlight'
  BY <1>2, <1>5, <1>6, QueueSame
<1>10. CASE ~Astray(c)
  <2> DEFINE k == Len(handed[c]) + 1
             f == sent[c][k]
  <2>1. Len(handed[c]) < Len(sent[c])
    <3>1. Len(handed[c]) # Len(sent[c])
      BY <1>1, <1>3, <1>10, NoFront, Numbers
    <3> QED BY <3>1, Numbers
  <2>2. /\ k \in 1..Len(sent[c]) /\ f.at \in Nat /\ f.len \in Nat
        /\ from[c] = f.at /\ len = f.len
    BY <1>10, <2>1, Front
  <2>3. to[c] < EndOf(f) /\ OneOK(c)
    BY <1>2, <1>10, <2>1, InvByConn DEF OneOK
  <2> HIDE DEF k, f
  <2>9. EndOf(f) = f.at + 4 + f.len /\ EndOf(f) \in Nat
    BY <2>2 DEF EndOf
  <2>4. to'[c] < EndOf(f) + MaxChunk
    <3>1. to[c] \in Nat /\ to[c] < EndOf(f)
      BY <2>3, Numbers
    <3> QED BY <1>3, <1>4, <2>9, <3>1
  <2>5. next = "poisoned" => k \in DOMAIN sent[c] /\ f.len > Cap
    BY <2>2, Numbers, StreamType DEF next, k, f
  <2>6. next = "draining" /\ to'[c] >= EndOf(f) => f.len <= Cap
    <3> SUFFICES ASSUME next = "draining", to'[c] >= EndOf(f) PROVE f.len <= Cap
      OBVIOUS
    <3>1. to[c] + n - from[c] >= 4
      <4>1. to[c] \in Nat /\ from[c] \in Nat /\ from[c] = f.at /\ f.len \in Nat
        BY <2>2, Numbers
      <4>2. to[c] + n >= from[c] + 4 + f.len
        BY <1>4, <2>9, <4>1
      <4> QED BY <1>3, <4>1, <4>2
    <3>2. ~(f.len > Cap)
      BY <2>2, <3>1 DEF next
    <3> QED BY <1>3, <2>2, <3>2
  <2>7. from[c] <= to'[c] /\ to'[c] <= EndOfStream(sent[c])
    BY <1>1, <1>3, <1>4, Numbers
  <2>8. ASSUME NEW i \in DOMAIN handed[c], Wraps(handed[c][i]) \/ EndOf(handed[c][i]) <= to[c]
        PROVE  Wraps(handed[c][i]) \/ EndOf(handed[c][i]) <= to'[c]
    <3>1. handed[c][i] \in Frame
      BY Numbers
    <3>2. EndOf(handed[c][i]) \in Nat
      BY <3>1 DEF Frame, EndOf
    <3>3. to[c] \in Nat /\ to[c] <= to'[c]
      BY <1>3, <1>4, Numbers
    <3> QED BY <1>4, <2>8, <3>2, <3>3
  <2>10. Astray(c)' <=> Astray(c)
    BY <1>2 DEF Astray, Wraps
  <2>11. OneOK(c)'
    BY <1>2, <1>6, <1>7, <2>1, <2>3, <2>4, <2>5, <2>6, <2>7, <2>8, <2>10 DEF OneOK, Wraps, k, f
  <2> QED BY <1>2, <1>4, <1>7, <1>8, <1>9, <2>11, OneConn
<1>11. CASE Astray(c)
  <2>1. from[c] <= to'[c] /\ to'[c] <= EndOfStream(sent[c]) /\ to[c] <= to'[c]
    BY <1>1, <1>3, <1>4, Numbers
  <2>2. OneOK(c)'
    BY <1>2, <1>4, <1>11, <2>1, AstrayOK
  <2> QED BY <1>2, <1>4, <1>7, <1>8, <1>9, <2>2, OneConn
<1> QED BY <1>10, <1>11

LEMMA DrainedIInv ==
  ASSUME IInv, NEW c \in Conn, Drained(c)
  PROVE  IInv'
<1>1. /\ pc[c] = "draining" /\ pc' = [pc EXCEPT ![c] = "reading"]
      /\ \E len \in Declared(c) : ~HasFrame(c, len)
      /\ UNCHANGED <<sent, from, to, handed, queue, running, accepting>>
  BY DEF Drained
<1>2. Shape' /\ pc'[c] = "reading" /\ \A d \in Conn \ {c} : pc'[d] = pc[d]
  BY <1>1, InvByConn DEF Shape
<1>3. OneInFlight'
  BY <1>1, QueueSame
<1>4. ~Astray(c) /\ Len(handed[c]) < Len(sent[c])
        => to[c] < EndOf(sent[c][Len(handed[c]) + 1])
  BY <1>1, Front
<1>5. OneOK(c)'
  BY <1>1, <1>2, <1>4, InvByConn DEF OneOK, Astray, Wraps
<1> QED BY <1>1, <1>2, <1>3, <1>5, OneConn

\* A connection takes its place in the queue once.
LEMMA HandsOneInFlight ==
  ASSUME IInv, NEW c \in Conn, pc[c] = "draining", queue' = Append(queue, c),
         pc' = [pc EXCEPT ![c] = "handling"]
  PROVE  OneInFlight' /\ queue' \in Seq(Conn)
<1>1. OneInFlight /\ queue \in Seq(Conn) /\ queue' \in Seq(Conn)
  BY InvByConn DEF Shape
<1>2. pc'[c] = "handling" /\ \A d \in Conn \ {c} : pc'[d] = pc[d]
  BY InvByConn DEF Shape
<1>3. /\ Len(queue) \in Nat /\ DOMAIN queue = 1..Len(queue)
      /\ DOMAIN queue' = 1..(Len(queue) + 1)
      /\ \A i \in 1..Len(queue) : queue'[i] = queue[i] /\ queue[i] # c
      /\ queue'[Len(queue) + 1] = c
  BY <1>1 DEF OneInFlight
<1>4. ASSUME NEW d \in Conn
      PROVE  pc'[d] = "handling" <=> \E i \in DOMAIN queue' : queue'[i] = d
  <2>1. CASE d = c
    BY <1>2, <1>3, <2>1
  <2>2. CASE d # c
    BY <1>1, <1>2, <1>3, <2>2 DEF OneInFlight
  <2> QED BY <2>1, <2>2
<1>5. \A i, j \in DOMAIN queue' : queue'[i] = queue'[j] => i = j
  BY <1>1, <1>3 DEF OneInFlight
<1> QED BY <1>1, <1>4, <1>5 DEF OneInFlight

\* The frame at the front is the next one of the stream.  Either its length wraps,
\* or it is whole and not too large, and the one behind it, if that is whole,
\* came in one chunk.
LEMMA ExtractsIInv ==
  ASSUME IInv, NEW c \in Conn, Extracts(c)
  PROVE  IInv'
<1>1. PICK len \in Declared(c) :
        /\ HasFrame(c, len) /\ Hands(c, len)
        /\ from' = [from EXCEPT ![c] = @ + Framed(len)]
  BY DEF Extracts
<1>2. /\ pc[c] = "draining" /\ UNCHANGED <<sent, to, running, accepting>>
      /\ queue' = Append(queue, c) /\ pc' = [pc EXCEPT ![c] = "handling"]
      /\ handed' = IF Astray(c) THEN handed
                    ELSE [handed EXCEPT ![c] = Append(@, [at |-> from[c], len |-> len])]
  BY <1>1 DEF Extracts, Hands
<1>3. /\ len \in Nat /\ Framed(len) \in Nat /\ Framed(len) <= 4 + len
      /\ 4 + len < Word => Framed(len) = 4 + len
  BY DeclaredType, FramedIs
<1>4. from'[c] = from[c] + Framed(len) /\ from'[c] \in Nat /\ from'[c] <= to'[c]
  <2>1. from'[c] = from[c] + Framed(len) /\ to'[c] = to[c]
    BY <1>1, <1>2, InvByConn DEF Shape
  <2> QED BY <1>1, <1>3, <2>1, Numbers DEF HasFrame
<1>5. OneInFlight' /\ queue' \in Seq(Conn)
  BY <1>2, HandsOneInFlight
<1>6. Shape'
  <2>1. handed' \in [Conn -> Seq(Frame)]
    <3>1. [at |-> from[c], len |-> len] \in Frame
      BY <1>3, Numbers DEF Frame
    <3> QED BY <1>2, <3>1, InvByConn DEF Shape
  <2>2. from' \in [Conn -> Nat]
    BY <1>1, <1>3, Numbers, InvByConn DEF Shape
  <2>3. pc' \in [Conn -> {"idle", "backlog", "reading", "draining", "handling",
                         "closed", "poisoned"}]
    BY <1>2, InvByConn DEF Shape
  <2> QED BY <1>2, <1>5, <2>1, <2>2, <2>3, InvByConn DEF Shape
<1>7. /\ pc'[c] = "handling"
      /\ \A d \in Conn \ {c} : /\ pc'[d] = pc[d] /\ from'[d] = from[d]
                                /\ to'[d] = to[d] /\ handed'[d] = handed[d]
  BY <1>1, <1>2, InvByConn DEF Shape
<1>8. CASE Astray(c)
  <2>1. /\ handed'[c] = handed[c] /\ to'[c] = to[c] /\ to[c] \in Nat
        /\ to'[c] <= EndOfStream(sent[c]) /\ to[c] <= to'[c]
    BY <1>2, <1>8, Numbers
  <2>2. OneOK(c)'
    BY <1>2, <1>4, <1>8, <2>1, AstrayOK
  <2> QED BY <1>2, <1>5, <1>6, <1>7, <2>2, OneConn
<1>9. CASE ~Astray(c)
  <2> DEFINE n == Len(handed[c])
             k == n + 1
             f == sent[c][k]
             g == sent[c][k + 1]
  <2>1. n < Len(sent[c])
    <3>1. n # Len(sent[c])
      BY <1>1, <1>9, NoFront
    <3> QED BY <3>1, Numbers
  <2>2. /\ k \in 1..Len(sent[c]) /\ f \in Frame /\ f.at \in Nat /\ f.len \in Nat
        /\ from[c] = f.at /\ len = f.len /\ (Wraps(f) \/ to[c] >= EndOf(f))
    BY <1>1, <1>9, <2>1, Front
  <2>3. [at |-> f.at, len |-> f.len] = f
    BY <2>2 DEF Frame
  <2>4. handed'[c] = Append(handed[c], f)
    BY <1>2, <1>9, <2>2, <2>3, InvByConn DEF Shape
  <2>5. OneOK(c) /\ to[c] < EndOf(f) + MaxChunk /\ (to[c] >= EndOf(f) => f.len <= Cap)
    BY <1>2, <1>9, <2>1, InvByConn DEF OneOK
  <2>6. EndOf(f) \in Nat /\ EndOf(f) = from[c] + 4 + len /\ (Wraps(f) <=> 4 + len >= Word)
    BY <2>2 DEF EndOf, Wraps
  <2> HIDE DEF f, g
  <2>7. /\ Len(handed'[c]) = k /\ DOMAIN handed'[c] = 1..k /\ k \in Nat /\ n \in Nat
        /\ handed'[c][k] = f /\ \A i \in 1..n : handed'[c][i] = handed[c][i]
        /\ DOMAIN handed[c] = 1..n
    BY <2>2, <2>4, Numbers
  <2>8. ASSUME NEW i \in DOMAIN handed'[c]
        PROVE  /\ handed'[c][i] = sent[c][i]
               /\ Wraps(handed'[c][i]) => i = k
               /\ Wraps(handed'[c][i]) \/ EndOf(handed'[c][i]) <= to[c]
               /\ Wraps(handed'[c][i]) \/ handed'[c][i].len <= Cap
    <3>1. CASE i = k
      BY <2>2, <2>5, <2>6, <2>7, <3>1, Numbers DEF f
    <3>2. CASE i # k
      <4>1. i \in 1..n
        BY <2>7, <3>2
      <4>2. ~Wraps(handed[c][i])
        BY <1>9, <2>7, <4>1 DEF Astray
      <4> QED BY <2>5, <2>7, <4>1, <4>2 DEF OneOK
    <3> QED BY <3>1, <3>2
  <2>9. CASE Wraps(f)
    <3>1. Astray(c)'
      <4>1. Wraps(handed'[c][k]) /\ k \in DOMAIN handed'[c]
        BY <2>2, <2>7, <2>9
      <4> QED BY <4>1 DEF Astray, Wraps
    <3>2. to'[c] <= EndOfStream(sent[c]) /\ k <= Len(sent[c])
      BY <1>2, <2>2, Numbers
    <3>3. OneOK(c)'
      BY <1>2, <1>4, <2>7, <2>8, <3>1, <3>2 DEF OneOK, Wraps
    <3> QED BY <1>2, <1>5, <1>6, <1>7, <3>3, OneConn
  <2>10. CASE ~Wraps(f)
    <3>1. to[c] >= EndOf(f) /\ from'[c] = EndOf(f)
      <4>1. 4 + len < Word
        BY <1>3, <2>6, <2>10, IngressAssumption
      <4> QED BY <1>3, <1>4, <2>2, <2>6, <2>10, <4>1, Numbers
    <3>2. IF k = Len(sent[c]) THEN EndOf(f) = EndOfStream(sent[c]) ELSE EndOf(f) = g.at
      BY <2>2, Numbers, FrameFollows DEF f, g
    <3>3. k < Len(sent[c]) => g.at \in Nat /\ g.len \in Nat /\ EndOf(f) = g.at
      <4> SUFFICES ASSUME k < Len(sent[c])
                   PROVE  g.at \in Nat /\ g.len \in Nat /\ EndOf(f) = g.at
        OBVIOUS
      <4>1. k + 1 \in 1..Len(sent[c]) /\ k # Len(sent[c])
        BY <2>7, Numbers
      <4> QED BY <3>2, <4>1, Numbers, StreamType DEF g
    <3>4. k < Len(sent[c]) => /\ to[c] < EndOf(g) + MaxChunk
                              /\ to[c] >= EndOf(g) => g.len <= Cap
      <4>1. MaxChunk \in Nat /\ Cap \in Nat /\ MaxChunk <= Cap + 4 /\ to[c] \in Nat
        BY IngressAssumption, Numbers
      <4>2. k < Len(sent[c]) => EndOf(g) = EndOf(f) + 4 + g.len
        BY <3>3 DEF EndOf
      <4> HIDE DEF k
      <4> QED BY <2>5, <2>6, <3>3, <4>1, <4>2
    <3>5. to'[c] <= EndOfStream(sent[c]) /\ k <= Len(sent[c])
      BY <1>2, <2>2, Numbers
    <3>6. OneOK(c)'
      BY <1>2, <1>4, <1>7, <2>7, <2>8, <3>1, <3>2, <3>3, <3>4, <3>5 DEF OneOK, Wraps, f, g
    <3> QED BY <1>2, <1>5, <1>6, <1>7, <3>6, OneConn
  <2> QED BY <2>9, <2>10
<1> QED BY <1>8, <1>9

\* The connection is closed, or every one of them is.
LEMMA CopyFailsIInv ==
  ASSUME IInv, NEW c \in Conn, CopyFails(c)
  PROVE  IInv'
<1>1. /\ pc[c] = "draining" /\ UNCHANGED <<sent, from, to, handed>>
      /\ \/ pc' = [pc EXCEPT ![c] = "closed"] /\ UNCHANGED <<queue, running, accepting>>
         \/ /\ pc' = [d \in Conn |-> "closed"]
            /\ queue' = <<>> /\ running' = FALSE /\ accepting' = FALSE
  BY DEF CopyFails
<1>2. Shape'
  <2>1. CASE pc' = [pc EXCEPT ![c] = "closed"] /\ UNCHANGED <<queue, running, accepting>>
    BY <1>1, <2>1, InvByConn DEF Shape
  <2>2. CASE /\ pc' = [d \in Conn |-> "closed"]
             /\ queue' = <<>> /\ running' = FALSE /\ accepting' = FALSE
    <3>1. queue' \in Seq(Conn)
      BY <2>2
    <3> QED BY <1>1, <2>2, <3>1, InvByConn DEF Shape
  <2> QED BY <1>1, <2>1, <2>2
<1>3. OneInFlight'
  <2>1. CASE pc' = [pc EXCEPT ![c] = "closed"] /\ queue' = queue
    BY <1>1, <2>1, QueueSame
  <2>2. CASE pc' = [d \in Conn |-> "closed"] /\ queue' = <<>>
    BY <2>2 DEF OneInFlight
  <2> QED BY <1>1, <2>1, <2>2
<1>4. ASSUME NEW d \in Conn PROVE OneOK(d)'
  <2>1. pc'[d] = pc[d] \/ pc'[d] = "closed"
    <3>1. CASE pc' = [pc EXCEPT ![c] = "closed"]
      BY <3>1, InvByConn DEF Shape
    <3>2. CASE pc' = [e \in Conn |-> "closed"]
      BY <3>2
    <3> QED BY <1>1, <3>1, <3>2
  <2>2. OneOK(d)
    BY InvByConn
  <2> QED BY <1>1, <2>1, <2>2 DEF OneOK, Astray, Wraps
<1> QED BY <1>2, <1>3, <1>4 DEF IInv, TypeOK, WholeFrames, CapExact, BufferOK, Shape, OneOK

\* The one that leaves the queue is the first, and was nowhere else in it.
LEMMA HandlesIInv ==
  ASSUME IInv, NEW c \in Conn, Handles(c)
  PROVE  IInv'
<1>1. PICK next \in {"draining", "closed"} : pc' = [pc EXCEPT ![c] = next]
  BY DEF Handles
<1>2. /\ queue # <<>> /\ Head(queue) = c /\ queue' = Tail(queue)
      /\ UNCHANGED <<sent, from, to, handed, running, accepting>>
  BY DEF Handles
<1>3. OneInFlight /\ queue \in Seq(Conn)
  BY InvByConn DEF Shape
<1>4. /\ Len(queue) \in Nat /\ Len(queue) > 0 /\ DOMAIN queue = 1..Len(queue)
      /\ DOMAIN queue' = 1..(Len(queue) - 1) /\ queue[1] = c
      /\ \A i \in 1..(Len(queue) - 1) : queue'[i] = queue[i + 1]
  BY <1>2, <1>3
<1>5. pc[c] = "handling"
  BY <1>3, <1>4 DEF OneInFlight
<1>6. Shape' /\ pc'[c] = next /\ \A d \in Conn \ {c} : pc'[d] = pc[d]
  BY <1>1, <1>2, InvByConn DEF Shape
<1>7. OneInFlight'
  <2>1. \A i, j \in DOMAIN queue : queue[i] = queue[j] => i = j
    BY <1>3 DEF OneInFlight
  <2>2. \A i \in DOMAIN queue' : i \in Nat /\ i + 1 \in DOMAIN queue /\ i + 1 # 1
    BY <1>4
  <2>3. \A i, j \in DOMAIN queue' : queue'[i] = queue'[j] => i = j
    BY <1>4, <2>1, <2>2
  <2>4. \A i \in DOMAIN queue' : queue'[i] # c
    <3> TAKE i \in DOMAIN queue'
    <3>1. queue'[i] = queue[i + 1] /\ 1 \in DOMAIN queue
      BY <1>4
    <3> QED BY <1>4, <2>1, <2>2, <3>1
  <2>5. ASSUME NEW d \in Conn, d # c
        PROVE  pc'[d] = "handling" <=> \E i \in DOMAIN queue' : queue'[i] = d
    <3>1. pc[d] = "handling" <=> \E i \in DOMAIN queue : queue[i] = d
      BY <1>3 DEF OneInFlight
    <3>2. \A i \in DOMAIN queue : i = 1 \/ (i - 1 \in DOMAIN queue' /\ queue'[i - 1] = queue[i])
      BY <1>4
    <3>3. (\E i \in DOMAIN queue : queue[i] = d) <=> \E i \in DOMAIN queue' : queue'[i] = d
      BY <1>4, <2>2, <2>5, <3>2
    <3> QED BY <1>6, <2>5, <3>1, <3>3
  <2> QED BY <1>1, <1>6, <2>3, <2>4, <2>5 DEF OneInFlight
<1>8. OneOK(c)'
  BY <1>1, <1>2, <1>5, <1>6, InvByConn DEF OneOK, Astray, Wraps
<1> QED BY <1>2, <1>6, <1>7, <1>8, OneConn

-----------------------------------------------------------------------------
(* The theorems *)

\* Every step preserves the invariant.
LEMMA NextIInv == IInv /\ [Next]_vars => IInv'
<1> SUFFICES ASSUME IInv, [Next]_vars PROVE IInv'
  OBVIOUS
<1>1. ASSUME NEW c \in Conn,
             Connects(c) \/ Accepts(c) \/ Reads(c) \/ Ends(c) \/ ServeStep(c)
      PROVE  IInv'
  BY <1>1, MovesIInv, ReadsIInv, ExtractsIInv, CopyFailsIInv, DrainedIInv, HandlesIInv DEF ServeStep
<1>2. CASE AcceptFails \/ Stops
  <2>1. UNCHANGED <<pc, sent, from, to, handed, queue>>
    BY <1>2 DEF AcceptFails, Stops
  <2>2. running' \in BOOLEAN /\ accepting' \in BOOLEAN
    BY <1>2, InvByConn DEF AcceptFails, Stops, Shape
  <2> QED BY <2>1, <2>2 DEF IInv, TypeOK, WholeFrames, CapExact, OneInFlight, BufferOK, Astray, Wraps
<1>3. CASE UNCHANGED vars
  BY <1>3 DEF vars, IInv, TypeOK, WholeFrames, CapExact, OneInFlight, BufferOK, Astray, Wraps
<1> QED BY <1>1, <1>2, <1>3 DEF Next, Quiet

LEMMA Inductive == Spec => []IInv
BY InitIInv, NextIInv, PTL DEF Spec

\* The variables keep their types; the framer never erases more than it has.
THEOREM TypeCorrect == Spec => []TypeOK
<1>1. IInv => TypeOK
  BY DEF IInv
<1> QED BY <1>1, Inductive, PTL

\* For any stream, however TCP cuts it, the framer passes on the frames that were
\* sent, whole, in order, each once, until one declares a length that 4 + length
\* wraps.
THEOREM FramesWhole == Spec => []WholeFrames
<1>1. IInv => WholeFrames
  BY DEF IInv
<1> QED BY <1>1, Inductive, PTL

\* As long as a read returns at most four bytes more than the cap, the check that
\* feed makes is enough for the cap to hold, for every length that 4 + length does
\* not wrap, and it never closes wrongly.
THEOREM CapHolds == Spec => []CapExact
<1>1. IInv => CapExact
  BY DEF IInv
<1> QED BY <1>1, Inductive, PTL

\* A connection is in the shard's queue at most once.
THEOREM OneAtATime == Spec => []OneInFlight
<1>1. IInv => OneInFlight
  BY DEF IInv
<1> QED BY <1>1, Inductive, PTL
=============================================================================
