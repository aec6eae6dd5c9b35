--------------------------- MODULE RemoteStore_proofs ---------------------------
(***************************************************************************)
(* Theorems about RemoteStore for any accounts, any set of refused writes, *)
(* any length of the pipeline and any bounds.                              *)
(***************************************************************************)
EXTENDS RemoteStore, SequenceTheorems, WellFoundedInduction, TLAPS

-----------------------------------------------------------------------------
(***************************************************************************)
(* The inductive invariant, in five parts.                                 *)
(***************************************************************************)

\* Batch numbers grow along a queue and stay below the next one.
Ordered(q) == \A i, j \in DOMAIN q : i < j => q[i].id < q[j].id
Below(q, n) == \A i \in DOMAIN q : q[i].id < n
Numbered == \A u \in Account : Ordered(disk[u]) /\ Below(disk[u], nextId)

\* A pipeline that is a front of a queue.
FrontOf(pipeline, q) == \E k \in 0..Len(q) : k <= MaxPending /\ pipeline = SubSeq(q, 1, k)

\* What the pipeline of a queue is when it is as long as it may be.
FullFront(q) == SubSeq(q, 1, Min({Len(q), MaxPending}))

\* A stream with something to write is started, and its idle timer runs only
\* when all is written; the handshake is that of the open call.
Serving(s) ==
    /\ s.idle => s.pipeline = <<>> /\ CanWrite(s)
    /\ s.pipeline = <<>> /\ IsStarted(s) => CanWrite(s)
Served(s) ==
    /\ Serving(s)
    /\ s.pipeline # <<>> => IsStarted(s)
    /\ s.handshake => s.state = "Open"

\* What the answers and the messages on a call are the front of, or all of.
Due(s) == IF s.handshake THEN s.pipeline ELSE <<HANDSHAKE>>
Carried(s) ==
    /\ s.state # "Open" => s.sent = <<>> /\ s.results = <<>> /\ s.ended = "no"
    /\ s.state = "Open" =>
           \E rest \in Seq(Message) :
               s.results \o rest = Due(s) /\ (s.ended = "no" => rest = s.sent)

WriteInv ==
    /\ TypeOK
    /\ Numbered
    /\ rs.pipeline = FullFront(disk[user])
    /\ Served(rs)
    /\ Carried(rs)

-----------------------------------------------------------------------------
(***************************************************************************)
(* Maximum and minimum.                                                    *)
(***************************************************************************)

LEMMA MaxExists ==
    ASSUME NEW n \in Nat, NEW S \in SUBSET (0..n), S # {}
    PROVE  Max(S) \in S /\ \A y \in S : y <= Max(S)
<1> DEFINE Bound == {k \in Nat : \A y \in S : y <= k}
<1>1. Bound \subseteq Nat /\ Bound # {}
  <2>1. n \in Bound
    OBVIOUS
  <2> QED
    BY <2>1
<1>2. PICK k \in Bound : \A y \in Bound : ~(<<y, k>> \in OpToRel(<, Nat))
  <2> HIDE DEF Bound
  <2> QED
    BY <1>1, NatLessThanWellFounded, WFMin
<1>3. \A y \in Bound : ~(y < k)
  BY <1>2 DEF OpToRel
<1>4. k \in S
  <2> SUFFICES ASSUME k \notin S PROVE FALSE
    OBVIOUS
  <2>1. \A y \in S : y \in Nat /\ y <= k - 1
    OBVIOUS
  <2>2. k - 1 \in Bound
    <3>1. PICK y \in S : TRUE
      OBVIOUS
    <3> QED
      BY <2>1, <3>1
  <2> QED
    BY <2>2, <1>3
<1>5. \E x \in S : \A y \in S : x >= y
  BY <1>4
<1> QED
  BY <1>5 DEF Max

LEMMA MinOfTwo ==
    ASSUME NEW a \in Int, NEW b \in Int
    PROVE  Min({a, b}) = IF a <= b THEN a ELSE b
<1> DEFINE m == IF a <= b THEN a ELSE b
<1>1. m \in {a, b} /\ \A y \in {a, b} : m <= y
  OBVIOUS
<1>2. \A x \in {a, b} : (\A y \in {a, b} : x <= y) => x = m
  OBVIOUS
<1> QED
  BY <1>1, <1>2 DEF Min

-----------------------------------------------------------------------------
(***************************************************************************)
(* Queues.                                                                 *)
(***************************************************************************)

LEMMA UpToType ==
    ASSUME NEW T, NEW q \in Seq(T), NEW id
    PROVE  UpTo(q, id) \in 0..Len(q)
<1> DEFINE S == {i \in DOMAIN q : q[i].id <= id} \cup {0}
<1>1. Len(q) \in Nat /\ S \in SUBSET (0..Len(q)) /\ S # {}
  OBVIOUS
<1>2. Max(S) \in S
  <2> HIDE DEF S
  <2> QED
    BY <1>1, MaxExists
<1> QED
  BY <1>1, <1>2 DEF UpTo

\* In an ordered queue the batches up to a batch's number are those before it.
LEMMA UpToPlace ==
    ASSUME NEW q \in Seq(StoredBatch), Ordered(q), NEW k \in 0..Len(q)
    PROVE  UpTo(q, IF k = 0 THEN 0 ELSE q[k].id) = k
<1> DEFINE id == IF k = 0 THEN 0 ELSE q[k].id
           S == {i \in DOMAIN q : q[i].id <= id} \cup {0}
<1>1. Len(q) \in Nat /\ DOMAIN q = 1..Len(q) /\ \A i \in 1..Len(q) : q[i].id \in Nat \ {0}
  <2>1. \A i \in 1..Len(q) : q[i] \in StoredBatch
    BY ElementOfSeq
  <2> QED
    BY <2>1 DEF StoredBatch
<1>2. S = 0..k
  BY <1>1 DEF Ordered
<1>3. Max(0..k) \in 0..k /\ \A y \in 0..k : y <= Max(0..k)
  <2> HIDE DEF S, id
  <2>1. Len(q) \in Nat
    BY <1>1
  <2>2. k \in Nat
    BY <2>1
  <2>3. 0..k \in SUBSET (0..k)
    OBVIOUS
  <2>4. 0 \in 0..k
    BY <2>2
  <2> QED
    BY <2>2, <2>3, <2>4, MaxExists
<1>4. Max(0..k) = k
  BY <1>3, <1>1
<1> QED
  BY <1>2, <1>4 DEF UpTo

\* A front of an ordered queue and what is fresh after it make the full front.
LEMMA FreshFills ==
    ASSUME NEW q \in Seq(StoredBatch), Ordered(q), NEW p, FrontOf(p, q)
    PROVE  /\ p \in Seq(StoredBatch)
           /\ Fresh(p, q) \in Seq(StoredBatch)
           /\ p \o Fresh(p, q) = FullFront(q)
           /\ Len(FullFront(q)) <= MaxPending
           /\ FullFront(q) \in Seq(StoredBatch)
           /\ FullFront(q) = <<>> <=> q = <<>>
<1>1. PICK k \in 0..Len(q) : k <= MaxPending /\ p = SubSeq(q, 1, k)
  BY DEF FrontOf
<1>2. /\ MaxPending \in Nat \ {0}
      /\ Len(q) \in Nat /\ k \in Nat
      /\ \A i \in 1..Len(q) : q[i] \in StoredBatch
  BY RemoteStoreAssumption, ElementOfSeq
<1>3. /\ p \in Seq(StoredBatch) /\ Len(p) = k
      /\ \A i \in 1..k : p[i] = q[i]
  BY <1>1, <1>2, SubSeqProperties
<1>4. LastId(p) = IF k = 0 THEN 0 ELSE q[k].id
  <2>1. CASE k = 0
    BY <2>1, <1>3, EmptySeq DEF LastId
  <2>2. CASE k # 0
    <3>1. p # <<>> /\ Last(p) = q[k]
      BY <2>2, <1>2, <1>3, EmptySeq DEF Last
    <3> QED
      BY <3>1, <2>2 DEF LastId
  <2> QED
    BY <2>1, <2>2
<1>5. UpTo(q, LastId(p)) = k
  BY <1>4, UpToPlace
<1> DEFINE m == IF Len(q) <= MaxPending THEN Len(q) ELSE MaxPending
<1>6. Min({Len(q), MaxPending}) = m
  BY <1>2, MinOfTwo
<1>7. Min({Len(q), k + MaxPending - Len(p)}) = m
  BY <1>2, <1>3, <1>6
<1>8. Fresh(p, q) = SubSeq(q, k + 1, m) /\ FullFront(q) = SubSeq(q, 1, m)
  BY <1>5, <1>6, <1>7 DEF Fresh, FullFront
<1>9. m \in k..Len(q) /\ m <= MaxPending /\ (m = 0 <=> Len(q) = 0)
  BY <1>1, <1>2
<1>10. p \o Fresh(p, q) = FullFront(q)
  <2>1. 1 \in 1..Len(q) + 1 /\ k \in 1 - 1..Len(q)
    BY <1>2
  <2> HIDE DEF m
  <2> QED
    BY <1>1, <1>8, <1>9, <2>1, ConcatAdjacentSubSeq
<1>11. Fresh(p, q) \in Seq(StoredBatch)
  <2>1. \A i \in k + 1..m : q[i] \in StoredBatch
    BY <1>2, <1>9
  <2>2. k + 1 \in Int /\ m \in Int
    BY <1>2, <1>9
  <2> HIDE DEF m
  <2> QED
    BY <1>8, <2>1, <2>2, SubSeqProperties
<1>12. FullFront(q) \in Seq(StoredBatch) /\ Len(FullFront(q)) = m
  <2>1. \A i \in 1..m : q[i] \in StoredBatch
    BY <1>2, <1>9
  <2>2. 1 \in Int /\ m \in Nat
    BY <1>2, <1>9
  <2> HIDE DEF m
  <2> QED
    BY <1>8, <2>1, <2>2, SubSeqProperties
<1> HIDE DEF m
<1>13. FullFront(q) = <<>> <=> q = <<>>
  BY <1>9, <1>12, EmptySeq
<1> QED
  BY <1>3, <1>9, <1>10, <1>11, <1>12, <1>13

-----------------------------------------------------------------------------
(***************************************************************************)
(* The operations of the stream.                                           *)
(***************************************************************************)

AuthTyped == known \in [user : Account, counter : Nat] /\ authUser \in Account

\* The token request of a stream that starts now.
RequestOf(s) == [closes |-> s.closes, counter |-> known.counter, user |-> authUser]

\* A step of the stream that asks for nothing, or for one token.
Unasked(s, r) ==
    r.requests = s.requests /\ (r.state = "Starting" <=> s.state = "Starting")
Asked(s, r) ==
    /\ s.state # "Starting" /\ r.state = "Starting"
    /\ r.requests = s.requests \cup {RequestOf(s)}

\* r is s, or s on its way to a call.
Launched(s, r) ==
    \/ r = s
    \/ /\ ShouldStartWriteStream(s)
       /\ \/ r = [s EXCEPT !.state = "Backoff"]
          \/ r = [s EXCEPT !.state = "Starting", !.requests = @ \cup {RequestOf(s)}]

LEMMA MessageTypes ==
    /\ HANDSHAKE \in Message
    /\ StoredBatch \subseteq Message
BY RemoteStoreAssumption DEF HANDSHAKE, Message, StoredBatch, Write

LEMMA RequestType ==
    ASSUME AuthTyped, NEW s \in Stream
    PROVE  RequestOf(s) \in Request
BY DEF AuthTyped, RequestOf, Request, Stream

LEMMA StartLaunches ==
    ASSUME NEW s \in Stream
    PROVE  /\ Launched(s, StartIfNeeded(s))
           /\ s.pipeline # <<>> => IsStarted(StartIfNeeded(s))
<1>1. CASE ~ShouldStartWriteStream(s)
  BY <1>1 DEF StartIfNeeded, Launched, ShouldStartWriteStream
<1>2. CASE ShouldStartWriteStream(s) /\ s.state = "Error"
  BY <1>2 DEF StartIfNeeded, Start, Launched, ShouldStartWriteStream, IsStarted, Stream
<1>3. CASE ShouldStartWriteStream(s) /\ s.state # "Error"
  BY <1>3 DEF StartIfNeeded, Start, Launched, ShouldStartWriteStream, IsStarted, Stream,
              RequestCredentials, RequestOf
<1> QED
  BY <1>1, <1>2, <1>3

LEMMA LaunchedKeeps ==
    ASSUME AuthTyped, NEW s \in Stream, NEW r, Launched(s, r)
    PROVE  /\ r \in Stream
           /\ r.pipeline = s.pipeline /\ r.closes = s.closes /\ r.handshake = s.handshake
           /\ r.idle = s.idle /\ r.as = s.as /\ r.sent = s.sent
           /\ r.results = s.results /\ r.ended = s.ended
           /\ r.state = "Open" <=> s.state = "Open"
           /\ Unasked(s, r) \/ Asked(s, r)
           /\ Serving(s) => Serving(r)
           /\ Carried(s) => Carried(r)
<1>1. CASE r = s
  BY <1>1 DEF Unasked
<1>2. CASE ShouldStartWriteStream(s) /\ r = [s EXCEPT !.state = "Backoff"]
  BY <1>2 DEF ShouldStartWriteStream, IsStarted, Stream, Unasked, Serving, Carried, CanWrite
<1>3. CASE /\ ShouldStartWriteStream(s)
           /\ r = [s EXCEPT !.state = "Starting", !.requests = @ \cup {RequestOf(s)}]
  BY <1>3, RequestType DEF ShouldStartWriteStream, IsStarted, Stream, Asked, Serving, Carried, CanWrite
<1> QED
  BY <1>1, <1>2, <1>3 DEF Launched

LEMMA MessagesAssociate ==
    ASSUME NEW a \in Seq(Message), NEW b \in Seq(Message), NEW c \in Seq(Message)
    PROVE  a \o (b \o c) = (a \o b) \o c
<1> DEFINE T == Message
<1> HIDE DEF T
<1>1. a \in Seq(T) /\ b \in Seq(T) /\ c \in Seq(T)
  BY DEF T
<1> QED
  BY <1>1, ConcatAssociative

\* Batches that join a pipeline join a whole call behind what is due on it.
LEMMA AddedKeeps ==
    ASSUME NEW s \in Stream, NEW f \in Seq(StoredBatch), Serving(s), Carried(s)
    PROVE  LET r == AddToWritePipeline(s, f)
           IN  /\ r \in Stream
               /\ r.pipeline = s.pipeline \o f
               /\ r.state = s.state /\ r.closes = s.closes /\ r.handshake = s.handshake
               /\ r.requests = s.requests
               /\ r.idle => r.pipeline = <<>> /\ CanWrite(r)
               /\ Carried(r)
<1> DEFINE t == [s EXCEPT !.pipeline = @ \o f]
           r == AddToWritePipeline(s, f)
<1>1. f \in Seq(Message) /\ s.pipeline \o f \in Seq(Message) /\ s.sent \o f \in Seq(Message)
  <2>1. f \in Seq(Message)
    BY MessageTypes, SeqMonotonic
  <2>2. s.pipeline \in Seq(Message) /\ s.sent \in Seq(Message)
    BY DEF Stream
  <2> QED
    BY <2>1, <2>2, ConcatProperties
<1>2. /\ t \in Stream /\ t.pipeline = s.pipeline \o f /\ t.state = s.state
      /\ t.closes = s.closes /\ t.handshake = s.handshake /\ t.requests = s.requests
      /\ t.idle = s.idle /\ t.sent = s.sent /\ t.results = s.results /\ t.ended = s.ended
      /\ CanWrite(t) <=> CanWrite(s)
  BY <1>1 DEF Stream, CanWrite
<1>3. CASE f = <<>>
  <2>1. s.pipeline \o f = s.pipeline
    BY <1>3, ConcatEmptySeq DEF Stream
  <2>2. t = s
    BY <2>1 DEF Stream
  <2>3. r = s
    BY <2>2, <1>3 DEF AddToWritePipeline, Send
  <2> QED
    BY <2>1, <2>3 DEF Serving
<1>4. CASE f # <<>> /\ ~CanWrite(s)
  <2>1. r = t
    BY <1>2, <1>4 DEF AddToWritePipeline
  <2>2. ~s.idle
    BY <1>4 DEF Serving
  <2>3. Due(t) = Due(s) \/ s.state # "Open"
    BY <1>2, <1>4 DEF Due, CanWrite
  <2>4. Carried(t)
    BY <1>2, <2>3 DEF Carried
  <2> QED
    BY <1>2, <2>1, <2>2, <2>4
<1>5. CASE f # <<>> /\ CanWrite(s)
  <2>1. r = [t EXCEPT !.sent = @ \o f, !.idle = FALSE]
    BY <1>2, <1>5 DEF AddToWritePipeline, Send
  <2>2. /\ r \in Stream /\ r.pipeline = t.pipeline /\ r.state = t.state
        /\ r.closes = t.closes /\ r.handshake = t.handshake /\ r.requests = t.requests
        /\ ~r.idle /\ r.sent = s.sent \o f /\ r.results = t.results /\ r.ended = t.ended
    BY <1>1, <1>2, <2>1 DEF Stream
  <2>3. s.state = "Open" /\ s.handshake /\ Due(s) = s.pipeline /\ Due(r) = s.pipeline \o f
    BY <1>2, <1>5, <2>2 DEF CanWrite, Due
  <2>4. PICK rest \in Seq(Message) :
            s.results \o rest = s.pipeline /\ (s.ended = "no" => rest = s.sent)
    BY <2>3 DEF Carried
  <2>5. s.results \o (rest \o f) = s.pipeline \o f /\ rest \o f \in Seq(Message)
    <3>1. s.results \in Seq(Message)
      BY DEF Stream
    <3>2. (s.results \o rest) \o f = s.results \o (rest \o f)
      BY <1>1, <2>4, <3>1, MessagesAssociate
    <3>3. rest \o f \in Seq(Message)
      BY <1>1, <2>4, ConcatProperties
    <3> QED
      BY <2>4, <3>2, <3>3
  <2>6. r.results \o (rest \o f) = Due(r) /\ (r.ended = "no" => rest \o f = r.sent)
    BY <1>2, <2>2, <2>3, <2>4, <2>5
  <2>7. Carried(r)
    <3> HIDE DEF r, t
    <3>1. r.state = "Open"
      BY <1>2, <2>2, <2>3
    <3> QED
      BY <2>5, <2>6, <3>1 DEF Carried
  <2> QED
    BY <1>2, <2>2, <2>7
<1> QED
  BY <1>3, <1>4, <1>5

LEMMA MarkedKeeps ==
    ASSUME NEW s \in Stream, Carried(s)
    PROVE  /\ MarkIdle(s) \in Stream
           /\ MarkIdle(s).pipeline = s.pipeline /\ MarkIdle(s).state = s.state
           /\ MarkIdle(s).closes = s.closes /\ MarkIdle(s).handshake = s.handshake
           /\ MarkIdle(s).requests = s.requests
           /\ MarkIdle(s).idle = (s.idle \/ s.state = "Open")
           /\ Carried(MarkIdle(s))
BY DEF MarkIdle, Stream, Carried, Due

\* Filling the pipeline leaves nothing to do undone.
LEMMA FillServes ==
    ASSUME AuthTyped, NEW s \in Stream, NEW q \in Seq(StoredBatch), Ordered(q),
           FrontOf(s.pipeline, q), Serving(s), Carried(s)
    PROVE  LET r == FillWritePipeline(s, q)
           IN  /\ r \in Stream
               /\ r.pipeline = FullFront(q)
               /\ r.closes = s.closes /\ r.handshake = s.handshake
               /\ r.state = "Open" <=> s.state = "Open"
               /\ Unasked(s, r) \/ Asked(s, r)
               /\ r.pipeline # <<>> => IsStarted(r)
               /\ Serving(r) /\ Carried(r)
<1> DEFINE f == Fresh(s.pipeline, q)
           t == AddToWritePipeline(s, f)
           m == IF t.pipeline = <<>> THEN MarkIdle(t) ELSE t
           r == FillWritePipeline(s, q)
<1>1. f \in Seq(StoredBatch) /\ s.pipeline \o f = FullFront(q)
  BY FreshFills
<1>2. r = StartIfNeeded(m)
  BY DEF FillWritePipeline
<1> HIDE DEF f, r
<1>3. /\ t \in Stream
      /\ t.pipeline = FullFront(q)
      /\ t.state = s.state /\ t.closes = s.closes /\ t.handshake = s.handshake
      /\ t.requests = s.requests
      /\ t.idle => t.pipeline = <<>> /\ CanWrite(t)
      /\ Carried(t)
  BY <1>1, AddedKeeps
<1>4. t.pipeline = <<>> /\ IsStarted(t) => CanWrite(t)
  <2> SUFFICES ASSUME t.pipeline = <<>>, IsStarted(t) PROVE CanWrite(t)
    OBVIOUS
  <2>1. s.pipeline = <<>>
    <3>1. s.pipeline \in Seq(Message) /\ f \in Seq(Message)
      BY <1>1, MessageTypes, SeqMonotonic DEF Stream
    <3> QED
      BY <3>1, <1>1, <1>3, ConcatEqualIffEmpty
  <2> QED
    BY <2>1, <1>3 DEF Serving, IsStarted, CanWrite
<1> HIDE DEF t
<1>5. /\ m \in Stream
      /\ m.pipeline = FullFront(q)
      /\ m.state = s.state /\ m.closes = s.closes /\ m.handshake = s.handshake
      /\ m.requests = s.requests
      /\ Serving(m) /\ Carried(m)
  <2>1. CASE t.pipeline # <<>>
    BY <2>1, <1>3, <1>4 DEF Serving
  <2>2. CASE t.pipeline = <<>>
    <3>1. m = MarkIdle(t)
      BY <2>2
    <3>2. m.idle => m.pipeline = <<>> /\ CanWrite(m)
      BY <3>1, <2>2, <1>3, <1>4, MarkedKeeps DEF CanWrite, IsStarted
    <3> HIDE DEF m
    <3> QED
      BY <3>1, <3>2, <2>2, <1>3, <1>4, MarkedKeeps DEF Serving, CanWrite, IsStarted
  <2> QED
    BY <2>1, <2>2
<1> HIDE DEF m
<1>6. Launched(m, r) /\ (m.pipeline # <<>> => IsStarted(r))
  BY <1>2, <1>5, StartLaunches
<1>7. /\ r \in Stream
      /\ r.pipeline = m.pipeline /\ r.closes = m.closes /\ r.handshake = m.handshake
      /\ r.state = "Open" <=> m.state = "Open"
      /\ Unasked(m, r) \/ Asked(m, r)
      /\ Serving(r) /\ Carried(r)
  BY <1>5, <1>6, LaunchedKeeps
<1>8. Unasked(s, r) \/ Asked(s, r)
  BY <1>5, <1>7 DEF Unasked, Asked, RequestOf
<1> QED
  BY <1>5, <1>6, <1>7, <1>8 DEF r

\* What an operation does to the count of closes and to the token requests: it
\* goes on with the present call, or gives it up, and may ask for one token.
TokenStep(s, r) ==
    \/ r.closes = s.closes /\ (Unasked(s, r) \/ Asked(s, r))
    \/ /\ r.closes = s.closes + 1
       /\ \/ r.requests = s.requests /\ r.state # "Starting"
          \/ r.requests = s.requests \cup {RequestOf(r)} /\ r.state = "Starting"

LEMMA ClosedKeeps ==
    ASSUME NEW s \in Stream, NEW state \in {"Initial", "Error"}
    PROVE  LET c == Closed(s, state)
           IN  /\ c \in Stream
               /\ c.pipeline = s.pipeline /\ c.state = state /\ c.closes = s.closes + 1
               /\ c.handshake = s.handshake /\ c.requests = s.requests
               /\ ~IsStarted(c) /\ Serving(c) /\ Carried(c)
<1> DEFINE c == Closed(s, state)
<1>1. <<>> \in Seq(Message)
  BY EmptySeq
<1>2. s.closes + 1 \in Nat
  BY DEF Stream
<1>3. c \in Stream
  BY <1>1, <1>2 DEF Closed, Stream
<1>4. /\ c.pipeline = s.pipeline /\ c.state = state /\ c.closes = s.closes + 1
      /\ c.handshake = s.handshake /\ c.requests = s.requests
      /\ ~c.idle /\ c.sent = <<>> /\ c.results = <<>> /\ c.ended = "no"
  BY DEF Closed, Stream
<1> HIDE DEF c
<1>5. ~IsStarted(c) /\ Serving(c) /\ Carried(c)
  BY <1>4 DEF IsStarted, Serving, Carried
<1> QED
  BY <1>3, <1>4, <1>5 DEF c

LEMMA NotifiedKeeps ==
    ASSUME NEW s \in Stream, s.state # "Open", Serving(s), Carried(s)
    PROVE  LET n == Notified(s)
           IN  /\ n \in Stream
               /\ n.pipeline = s.pipeline /\ n.state = s.state /\ n.closes = s.closes
               /\ ~n.handshake /\ n.requests = s.requests
               /\ Serving(n) /\ Carried(n)
BY DEF Notified, Stream, IsStarted, Serving, Carried, CanWrite

\* Stopped and emptied, and filled again: a change of user, or an idle stop.
LEMMA StopKeeps ==
    ASSUME NEW s \in Stream, Served(s), Carried(s)
    PROVE  LET r == Stop(s)
           IN  /\ r \in Stream
               /\ r.pipeline = s.pipeline /\ ~IsStarted(r) /\ ~r.handshake
               /\ r.requests = s.requests
               /\ (r.closes = s.closes /\ r.state = s.state) \/ r.closes = s.closes + 1
               /\ Serving(r) /\ Carried(r)
<1>1. CASE IsStarted(s)
  <2> DEFINE c == Closed(s, "Initial")
  <2>1. /\ c \in Stream
        /\ c.pipeline = s.pipeline /\ c.state = "Initial" /\ c.closes = s.closes + 1
        /\ c.requests = s.requests /\ Serving(c) /\ Carried(c)
    BY ClosedKeeps
  <2>2. Stop(s) = Notified(c)
    BY <1>1 DEF Stop
  <2> HIDE DEF c
  <2> QED
    BY <2>1, <2>2, NotifiedKeeps DEF IsStarted
<1>2. CASE ~IsStarted(s)
  BY <1>2 DEF Stop, Served, IsStarted
<1> QED
  BY <1>1, <1>2

LEMMA RestartServes ==
    ASSUME AuthTyped, NEW s \in Stream, Served(s), Carried(s),
           NEW q \in Seq(StoredBatch), Ordered(q)
    PROVE  LET r == Restart(s, q)
           IN  /\ r \in Stream
               /\ r.pipeline = FullFront(q)
               /\ Served(r) /\ Carried(r)
               /\ TokenStep(s, r)
<1> DEFINE t == Stop(s)
           e == [t EXCEPT !.pipeline = <<>>]
           r == FillWritePipeline(e, q)
<1>1. /\ t \in Stream /\ ~IsStarted(t) /\ ~t.handshake
      /\ t.requests = s.requests
      /\ (t.closes = s.closes /\ t.state = s.state) \/ t.closes = s.closes + 1
      /\ Serving(t) /\ Carried(t)
  BY StopKeeps
<1> HIDE DEF t
<1>2. /\ e \in Stream /\ e.pipeline = <<>> /\ e.state = t.state /\ e.closes = t.closes
      /\ ~e.handshake /\ e.requests = t.requests
      /\ ~IsStarted(e) /\ Serving(e) /\ Carried(e)
  BY <1>1, EmptySeq DEF Stream, IsStarted, Serving, Carried, CanWrite
<1>3. FrontOf(e.pipeline, q)
  <2>1. SubSeq(q, 1, 0) = <<>> /\ 0 \in 0..Len(q) /\ 0 <= MaxPending
    BY SubSeqEmpty, RemoteStoreAssumption
  <2> QED
    BY <2>1, <1>2 DEF FrontOf
<1> HIDE DEF e
<1>4. /\ r \in Stream
      /\ r.pipeline = FullFront(q)
      /\ r.closes = e.closes /\ r.handshake = e.handshake
      /\ Unasked(e, r) \/ Asked(e, r)
      /\ r.pipeline # <<>> => IsStarted(r)
      /\ Serving(r) /\ Carried(r)
  BY <1>2, <1>3, FillServes
<1>5. r = Restart(s, q)
  BY DEF Restart, e, t
<1> HIDE DEF r
<1>6. Served(r)
  BY <1>2, <1>4 DEF Served
<1>7. TokenStep(s, r)
  <2>1. CASE t.closes = s.closes /\ t.state = s.state
    BY <2>1, <1>1, <1>2, <1>4 DEF TokenStep, Unasked, Asked, RequestOf, IsStarted
  <2>2. CASE t.closes = s.closes + 1
    BY <2>2, <1>1, <1>2, <1>4 DEF TokenStep, Unasked, Asked, RequestOf, IsStarted
  <2> QED
    BY <1>1, <2>1, <2>2
<1> QED
  BY <1>4, <1>5, <1>6, <1>7

\* An error leaves the pipeline to the next call.
LEMMA ErrorServes ==
    ASSUME AuthTyped, NEW s \in Stream
    PROVE  LET r == ClosedByError(s)
           IN  /\ r \in Stream
               /\ r.pipeline = s.pipeline
               /\ Served(r) /\ Carried(r)
               /\ TokenStep(s, r) /\ r.closes = s.closes + 1
<1> DEFINE c == Closed(s, "Error")
           t == StartIfNeeded(c)
           r == Notified(t)
<1>1. /\ c \in Stream
      /\ c.pipeline = s.pipeline /\ c.state = "Error" /\ c.closes = s.closes + 1
      /\ c.requests = s.requests /\ Serving(c) /\ Carried(c)
  BY ClosedKeeps
<1> HIDE DEF c
<1>2. Launched(c, t) /\ (c.pipeline # <<>> => IsStarted(t))
  BY <1>1, StartLaunches
<1>3. /\ t \in Stream
      /\ t.pipeline = c.pipeline /\ t.closes = c.closes
      /\ t.state # "Open"
      /\ Unasked(c, t) \/ Asked(c, t)
      /\ Serving(t) /\ Carried(t)
  BY <1>1, <1>2, LaunchedKeeps
<1> HIDE DEF t
<1>4. /\ r \in Stream
      /\ r.pipeline = t.pipeline /\ r.state = t.state /\ r.closes = t.closes
      /\ ~r.handshake /\ r.requests = t.requests
      /\ Serving(r) /\ Carried(r)
  BY <1>3, NotifiedKeeps
<1>5. r = ClosedByError(s)
  BY DEF ClosedByError, t, c
<1> HIDE DEF r
<1>6. Served(r)
  BY <1>1, <1>2, <1>3, <1>4 DEF Served, IsStarted
<1>7. TokenStep(s, r)
  BY <1>1, <1>3, <1>4 DEF TokenStep, Unasked, Asked, RequestOf
<1> QED
  BY <1>1, <1>3, <1>4, <1>5, <1>6, <1>7

\* A refusal costs the head of the pipeline, and the rest goes on.
LEMMA RefusalServes ==
    ASSUME AuthTyped, NEW s \in Stream, s.pipeline # <<>>,
           NEW q \in Seq(StoredBatch), Ordered(q), FrontOf(Tail(s.pipeline), q)
    PROVE  LET r == ClosedByRefusal(s, q)
           IN  /\ r \in Stream
               /\ r.pipeline = FullFront(q)
               /\ Served(r) /\ Carried(r)
               /\ TokenStep(s, r)
<1> DEFINE c == Closed(s, "Initial")
           e == [c EXCEPT !.pipeline = Tail(@)]
           f == FillWritePipeline(e, q)
           t == StartIfNeeded(f)
           r == Notified(t)
<1>1. /\ c \in Stream
      /\ c.pipeline = s.pipeline /\ c.state = "Initial" /\ c.closes = s.closes + 1
      /\ c.requests = s.requests /\ Serving(c) /\ Carried(c)
  BY ClosedKeeps
<1> HIDE DEF c
<1>2. Tail(c.pipeline) \in Seq(Message)
  BY <1>1, HeadTailProperties DEF Stream
<1>3. /\ e \in Stream /\ e.pipeline = Tail(s.pipeline)
      /\ e.state = "Initial" /\ e.closes = s.closes + 1 /\ e.requests = s.requests
      /\ Serving(e) /\ Carried(e)
  BY <1>1, <1>2 DEF Stream, Serving, Carried, CanWrite, IsStarted
<1> HIDE DEF e
<1>4. /\ f \in Stream
      /\ f.pipeline = FullFront(q)
      /\ f.closes = e.closes
      /\ f.state # "Open"
      /\ Unasked(e, f) \/ Asked(e, f)
      /\ f.pipeline # <<>> => IsStarted(f)
      /\ Serving(f) /\ Carried(f)
  BY <1>3, FillServes
<1> HIDE DEF f
<1>5. t = f
  BY <1>4 DEF StartIfNeeded, ShouldStartWriteStream
<1>6. /\ r \in Stream
      /\ r.pipeline = f.pipeline /\ r.state = f.state /\ r.closes = f.closes
      /\ ~r.handshake /\ r.requests = f.requests
      /\ Serving(r) /\ Carried(r)
  BY <1>4, <1>5, NotifiedKeeps
<1>7. r = ClosedByRefusal(s, q)
  BY DEF ClosedByRefusal, f, e, c
<1> HIDE DEF r
<1>8. Served(r)
  BY <1>4, <1>6 DEF Served, IsStarted
<1>9. TokenStep(s, r)
  BY <1>3, <1>4, <1>6 DEF TokenStep, Unasked, Asked, RequestOf
<1> QED
  BY <1>4, <1>6, <1>7, <1>8, <1>9

\* The call is open, and the handshake all that is on it.
LEMMA OpenedServes ==
    ASSUME NEW s \in Stream, s.state = "Starting", Served(s), Carried(s), NEW u \in Account
    PROVE  LET r == Opened(s, u)
           IN  /\ r \in Stream
               /\ r.pipeline = s.pipeline /\ r.state = "Open"
               /\ r.closes = s.closes /\ r.requests = s.requests
               /\ Served(r) /\ Carried(r)
<1> DEFINE r == Opened(s, u)
<1>1. <<HANDSHAKE>> \in Seq(Message) /\ <<HANDSHAKE>> # <<>>
  BY MessageTypes
<1>2. s.sent = <<>> /\ s.results = <<>> /\ s.ended = "no" /\ ~s.handshake
  BY DEF Carried, Served
<1>3. s.pipeline # <<>>
  BY <1>2 DEF Served, Serving, IsStarted, CanWrite
<1>4. <<>> \o <<HANDSHAKE>> = <<HANDSHAKE>>
  BY <1>1, ConcatEmptySeq
<1>5. /\ r \in Stream
      /\ r.pipeline = s.pipeline /\ r.state = "Open" /\ ~r.idle /\ ~r.handshake
      /\ r.closes = s.closes /\ r.requests = s.requests
      /\ r.sent = <<HANDSHAKE>> /\ r.results = <<>> /\ r.ended = "no"
  BY <1>1, <1>2, <1>4 DEF Opened, Send, Stream
<1> HIDE DEF r
<1>6. Served(r)
  BY <1>3, <1>5 DEF Served, Serving, IsStarted
<1>7. Carried(r)
  <2>1. r.results \o <<HANDSHAKE>> = Due(r)
    BY <1>4, <1>5 DEF Due
  <2> QED
    BY <1>1, <1>5, <2>1 DEF Carried
<1> QED
  BY <1>5, <1>6, <1>7 DEF r

-----------------------------------------------------------------------------
(***************************************************************************)
(* What goes up and down the call.                                         *)
(***************************************************************************)

LEMMA TailOfConcat ==
    ASSUME NEW T, NEW a \in Seq(T), NEW b \in Seq(T), a # <<>>
    PROVE  a \o b # <<>> /\ Tail(a) \o b = Tail(a \o b)
<1>1. /\ Len(a) \in Nat \ {0} /\ Len(b) \in Nat
      /\ Tail(a) \in Seq(T) /\ Len(Tail(a)) = Len(a) - 1
      /\ \A i \in 1..Len(a) - 1 : Tail(a)[i] = a[i + 1]
  BY HeadTailProperties, EmptySeq
<1>2. /\ a \o b \in Seq(T) /\ Len(a \o b) = Len(a) + Len(b)
      /\ \A i \in 1..Len(a) + Len(b) :
             (a \o b)[i] = IF i <= Len(a) THEN a[i] ELSE b[i - Len(a)]
  BY ConcatProperties
<1>3. a \o b # <<>>
  BY <1>1, <1>2, EmptySeq
<1>4. /\ Tail(a \o b) \in Seq(T) /\ Len(Tail(a \o b)) = Len(a) + Len(b) - 1
      /\ \A i \in 1..Len(a) + Len(b) - 1 : Tail(a \o b)[i] = (a \o b)[i + 1]
  BY <1>1, <1>2, <1>3, HeadTailProperties
<1>5. /\ Tail(a) \o b \in Seq(T) /\ Len(Tail(a) \o b) = Len(a) - 1 + Len(b)
      /\ \A i \in 1..Len(a) - 1 + Len(b) :
             (Tail(a) \o b)[i] = IF i <= Len(a) - 1 THEN Tail(a)[i] ELSE b[i - (Len(a) - 1)]
  BY <1>1, ConcatProperties
<1>6. \A i \in 1..Len(a) - 1 + Len(b) : (Tail(a) \o b)[i] = Tail(a \o b)[i]
  <2> SUFFICES ASSUME NEW i \in 1..Len(a) - 1 + Len(b)
               PROVE  (Tail(a) \o b)[i] = Tail(a \o b)[i]
    OBVIOUS
  <2>1. Tail(a \o b)[i] = IF i + 1 <= Len(a) THEN a[i + 1] ELSE b[i + 1 - Len(a)]
    BY <1>1, <1>2, <1>4
  <2>2. CASE i + 1 <= Len(a)
    BY <2>1, <2>2, <1>1, <1>5
  <2>3. CASE ~(i + 1 <= Len(a))
    <3>1. i - (Len(a) - 1) = i + 1 - Len(a)
      BY <1>1
    <3> QED
      BY <2>1, <2>3, <3>1, <1>1, <1>5
  <2> QED
    BY <2>2, <2>3
<1>7. Len(Tail(a) \o b) = Len(Tail(a \o b))
  BY <1>1, <1>4, <1>5
<1> QED
  BY <1>3, <1>4, <1>5, <1>6, <1>7, SeqEqual

\* A message that the other end has read is due no longer, and its answer is.
LEMMA ReadAndAnswered ==
    ASSUME NEW T, NEW a \in Seq(T), NEW b \in Seq(T), b # <<>>
    PROVE  Append(a, Head(b)) \o Tail(b) = a \o b
<1>1. Head(b) \in T /\ Tail(b) \in Seq(T) /\ b = <<Head(b)>> \o Tail(b)
  BY HeadTailProperties
<1>2. <<Head(b)>> \in Seq(T) /\ Append(a, Head(b)) = a \o <<Head(b)>>
  BY <1>1, AppendIsConcat
<1>3. (a \o <<Head(b)>>) \o Tail(b) = a \o (<<Head(b)>> \o Tail(b))
  BY <1>1, <1>2, ConcatAssociative
<1> QED
  BY <1>1, <1>2, <1>3

LEMMA FrontAndRest ==
    ASSUME NEW T, NEW a \in Seq(T), NEW k \in 0..Len(a)
    PROVE  /\ SubSeq(a, 1, k) \in Seq(T)
           /\ \E rest \in Seq(T) : SubSeq(a, 1, k) \o rest = a
<1>1. Len(a) \in Nat /\ \A i \in 1..Len(a) : a[i] \in T
  BY ElementOfSeq
<1>2. /\ SubSeq(a, 1, k) \in Seq(T)
      /\ SubSeq(a, k + 1, Len(a)) \in Seq(T)
  BY <1>1, SubSeqProperties
<1>3. SubSeq(a, 1, k) \o SubSeq(a, k + 1, Len(a)) = SubSeq(a, 1, Len(a))
  <2>1. 1 \in 1..Len(a) + 1 /\ k \in 1 - 1..Len(a) /\ Len(a) \in k..Len(a)
    BY <1>1
  <2> QED
    BY <2>1, ConcatAdjacentSubSeq
<1>4. SubSeq(a, 1, Len(a)) = a
  BY SubSeqFull
<1> QED
  BY <1>2, <1>3, <1>4

LEMMA HandshakeServes ==
    ASSUME NEW s \in Stream, s.results # <<>>, ~s.handshake, Served(s), Carried(s)
    PROVE  LET r == HandshakeCompleted(s)
           IN  /\ r \in Stream
               /\ r.pipeline = s.pipeline /\ r.state = s.state
               /\ r.closes = s.closes /\ r.requests = s.requests
               /\ Served(r) /\ Carried(r)
<1> DEFINE e == [s EXCEPT !.handshake = TRUE, !.results = Tail(@)]
           r == Send(e, s.pipeline)
<1>1. s.state = "Open" /\ ~s.idle /\ s.pipeline # <<>>
  BY DEF Carried, Served, Serving, CanWrite, IsStarted
<1>2. /\ s.results \in Seq(Message) /\ s.pipeline \in Seq(Message) /\ s.sent \in Seq(Message)
      /\ <<HANDSHAKE>> \in Seq(Message) /\ Len(<<HANDSHAKE>>) = 1
      /\ Tail(<<HANDSHAKE>>) = <<>>
  BY MessageTypes DEF Stream
<1>3. PICK rest \in Seq(Message) :
          s.results \o rest = <<HANDSHAKE>> /\ (s.ended = "no" => rest = s.sent)
  BY <1>1 DEF Carried, Due
<1>4. Tail(s.results) \o rest = <<>> /\ Tail(s.results) \in Seq(Message)
  <2>1. Tail(s.results) \o rest = Tail(s.results \o rest)
    BY <1>2, <1>3, TailOfConcat
  <2>2. Tail(s.results) \in Seq(Message)
    BY <1>2, HeadTailProperties
  <2> QED
    BY <1>2, <1>3, <2>1, <2>2
<1>5. Tail(s.results) = <<>> /\ rest = <<>>
  BY <1>3, <1>4, ConcatEqualIffEmpty
<1>6. s.sent \o s.pipeline \in Seq(Message)
  BY <1>2, ConcatProperties
<1>7. r = [s EXCEPT !.handshake = TRUE, !.results = <<>>,
                    !.sent = @ \o s.pipeline, !.idle = FALSE]
  BY <1>1, <1>5 DEF Send, Stream
<1>8. /\ r \in Stream
      /\ r.pipeline = s.pipeline /\ r.state = "Open" /\ r.handshake /\ ~r.idle
      /\ r.closes = s.closes /\ r.requests = s.requests
      /\ r.results = <<>> /\ r.sent = s.sent \o s.pipeline /\ r.ended = s.ended
  BY <1>1, <1>2, <1>5, <1>6, <1>7 DEF Stream
<1>9. r = HandshakeCompleted(s)
  BY DEF HandshakeCompleted
<1> HIDE DEF r
<1>10. Served(r)
  BY <1>8 DEF Served, Serving, IsStarted, CanWrite
<1>11. Carried(r)
  <2>1. r.results \o s.pipeline = Due(r)
    BY <1>2, <1>8, ConcatEmptySeq DEF Due
  <2>2. s.ended = "no" => s.pipeline = r.sent
    BY <1>2, <1>3, <1>5, <1>8, ConcatEmptySeq
  <2> QED
    BY <1>2, <1>8, <2>1, <2>2 DEF Carried
<1> QED
  BY <1>1, <1>8, <1>9, <1>10, <1>11

\* An answer to a write is about the head of the pipeline, which leaves it.
LEMMA AnswerServes ==
    ASSUME NEW s \in Stream, s.results # <<>>, s.handshake, Served(s), Carried(s)
    PROVE  LET e == [s EXCEPT !.pipeline = Tail(@), !.results = Tail(@)]
           IN  /\ s.pipeline # <<>>
               /\ e \in Stream
               /\ e.pipeline = Tail(s.pipeline) /\ e.state = s.state /\ e.handshake
               /\ e.closes = s.closes /\ e.requests = s.requests
               /\ Serving(e) /\ Carried(e) /\ s.state = "Open"
<1> DEFINE e == [s EXCEPT !.pipeline = Tail(@), !.results = Tail(@)]
<1>1. s.state = "Open" /\ s.results \in Seq(Message) /\ s.pipeline \in Seq(Message)
  BY DEF Carried, Stream
<1>2. PICK rest \in Seq(Message) :
          s.results \o rest = s.pipeline /\ (s.ended = "no" => rest = s.sent)
  BY <1>1 DEF Carried, Due
<1>3. s.pipeline # <<>> /\ Tail(s.results) \o rest = Tail(s.pipeline)
  <2>1. /\ s.results \o rest # <<>>
        /\ Tail(s.results) \o rest = Tail(s.results \o rest)
    BY <1>1, <1>2, TailOfConcat
  <2> QED
    BY <1>2, <2>1
<1>4. Tail(s.results) \in Seq(Message) /\ Tail(s.pipeline) \in Seq(Message)
  BY <1>1, <1>3, HeadTailProperties
<1>5. /\ e \in Stream
      /\ e.pipeline = Tail(s.pipeline) /\ e.state = s.state /\ e.handshake
      /\ e.closes = s.closes /\ e.requests = s.requests /\ e.idle = s.idle
      /\ e.results = Tail(s.results) /\ e.sent = s.sent /\ e.ended = s.ended
  BY <1>4 DEF Stream
<1> HIDE DEF e
<1>6. Serving(e)
  BY <1>1, <1>3, <1>5 DEF Served, Serving, IsStarted, CanWrite
<1>7. Carried(e)
  <2>1. e.results \o rest = Due(e) /\ (e.ended = "no" => rest = e.sent)
    BY <1>2, <1>3, <1>5 DEF Due
  <2> QED
    BY <1>1, <1>2, <1>5, <2>1 DEF Carried
<1> QED
  BY <1>1, <1>3, <1>5, <1>6, <1>7 DEF e

\* The other end reads a message and answers it.
LEMMA ServedKeeps ==
    ASSUME NEW s \in Stream, s.ended = "no", s.sent # <<>>, Served(s), Carried(s),
           NEW r, \/ r = [s EXCEPT !.sent = Tail(@), !.results = Append(@, Head(s.sent))]
                  \/ r = [s EXCEPT !.sent = Tail(@), !.ended = "permanent"]
    PROVE  /\ r \in Stream
           /\ r.pipeline = s.pipeline /\ r.state = s.state
           /\ r.closes = s.closes /\ r.requests = s.requests
           /\ Served(r) /\ Carried(r)
<1>1. s.state = "Open" /\ s.results \in Seq(Message) /\ s.sent \in Seq(Message)
  BY DEF Carried, Stream
<1>2. s.results \o s.sent = Due(s)
  BY <1>1 DEF Carried
<1>3. Head(s.sent) \in Message /\ Tail(s.sent) \in Seq(Message)
  BY <1>1, HeadTailProperties
<1>4. CASE r = [s EXCEPT !.sent = Tail(@), !.results = Append(@, Head(s.sent))]
  <2>1. Append(s.results, Head(s.sent)) \in Seq(Message)
    BY <1>1, <1>3, AppendProperties
  <2>2. /\ r \in Stream
        /\ r.pipeline = s.pipeline /\ r.state = s.state /\ r.handshake = s.handshake
        /\ r.closes = s.closes /\ r.requests = s.requests /\ r.idle = s.idle
        /\ r.results = Append(s.results, Head(s.sent)) /\ r.sent = Tail(s.sent)
    BY <1>3, <1>4, <2>1 DEF Stream
  <2>3. r.results \o r.sent = Due(r) /\ r.sent \in Seq(Message)
    <3>1. Append(s.results, Head(s.sent)) \o Tail(s.sent) = s.results \o s.sent
      BY <1>1, ReadAndAnswered
    <3> QED
      BY <1>2, <1>3, <2>2, <3>1 DEF Due
  <2>4. Carried(r)
    BY <1>1, <2>2, <2>3 DEF Carried
  <2> QED
    BY <2>2, <2>4 DEF Served, Serving, IsStarted, CanWrite
<1>5. CASE r = [s EXCEPT !.sent = Tail(@), !.ended = "permanent"]
  <2>1. /\ r \in Stream
        /\ r.pipeline = s.pipeline /\ r.state = s.state /\ r.handshake = s.handshake
        /\ r.closes = s.closes /\ r.requests = s.requests /\ r.idle = s.idle
        /\ r.results = s.results /\ r.ended # "no"
    BY <1>3, <1>5 DEF Stream
  <2>2. r.results \o s.sent = Due(r)
    BY <1>2, <2>1 DEF Due
  <2>3. Carried(r)
    BY <1>1, <2>1, <2>2 DEF Carried
  <2> QED
    BY <2>1, <2>3 DEF Served, Serving, IsStarted, CanWrite
<1> QED
  BY <1>4, <1>5

\* The call breaks, and the last answers with it.
LEMMA BrokenKeeps ==
    ASSUME NEW s \in Stream, s.state = "Open", Served(s), Carried(s),
           NEW k \in 0..Len(s.results), NEW r,
           r = [s EXCEPT !.ended = "transient", !.sent = <<>>, !.results = SubSeq(@, 1, k)]
    PROVE  /\ r \in Stream
           /\ r.pipeline = s.pipeline /\ r.state = s.state
           /\ r.closes = s.closes /\ r.requests = s.requests
           /\ Served(r) /\ Carried(r)
<1>1. s.results \in Seq(Message) /\ <<>> \in Seq(Message)
  BY EmptySeq DEF Stream
<1>2. PICK rest \in Seq(Message) : s.results \o rest = Due(s)
  BY DEF Carried
<1>3. PICK lost \in Seq(Message) : SubSeq(s.results, 1, k) \o lost = s.results
  BY <1>1, FrontAndRest
<1>4. SubSeq(s.results, 1, k) \in Seq(Message)
  BY <1>1, FrontAndRest
<1>5. /\ r \in Stream
      /\ r.pipeline = s.pipeline /\ r.state = s.state /\ r.handshake = s.handshake
      /\ r.closes = s.closes /\ r.requests = s.requests /\ r.idle = s.idle
      /\ r.results = SubSeq(s.results, 1, k) /\ r.ended # "no"
  BY <1>1, <1>4 DEF Stream
<1>6. r.results \o (lost \o rest) = Due(r)
  <2>1. SubSeq(s.results, 1, k) \o (lost \o rest) = (SubSeq(s.results, 1, k) \o lost) \o rest
    BY <1>2, <1>3, <1>4, MessagesAssociate
  <2> QED
    BY <1>2, <1>3, <1>5, <2>1 DEF Due
<1>7. lost \o rest \in Seq(Message)
  BY <1>2, <1>3, ConcatProperties
<1>8. Carried(r)
  BY <1>5, <1>6, <1>7 DEF Carried
<1> QED
  BY <1>5, <1>8 DEF Served, Serving, IsStarted, CanWrite

-----------------------------------------------------------------------------
(***************************************************************************)
(* What happens to a queue.                                                *)
(***************************************************************************)

LEMMA QueueFacts ==
    ASSUME NEW q \in Seq(StoredBatch)
    PROVE  /\ Len(q) \in Nat /\ DOMAIN q = 1..Len(q)
           /\ \A i \in 1..Len(q) :
                 q[i] \in StoredBatch /\ q[i].id \in Nat \ {0} /\ q[i].write \in Write
<1>1. \A i \in 1..Len(q) : q[i] \in StoredBatch
  BY ElementOfSeq
<1> QED
  BY <1>1 DEF StoredBatch

LEMMA TailQueue ==
    ASSUME NEW q \in Seq(StoredBatch), q # <<>>, Ordered(q)
    PROVE  /\ Tail(q) \in Seq(StoredBatch) /\ Ordered(Tail(q))
           /\ \A n : Below(q, n) => Below(Tail(q), n)
           /\ Head(q) = q[1] /\ Len(Tail(q)) = Len(q) - 1 /\ Len(q) >= 1
           /\ \A i \in 1..Len(q) - 1 : Tail(q)[i] = q[i + 1]
<1>1. /\ Tail(q) \in Seq(StoredBatch) /\ Len(Tail(q)) = Len(q) - 1
      /\ \A i \in 1..Len(q) - 1 : Tail(q)[i] = q[i + 1]
      /\ Len(q) \in Nat \ {0} /\ Head(q) = q[1]
  BY HeadTailProperties, EmptySeq
<1>2. DOMAIN q = 1..Len(q) /\ DOMAIN Tail(q) = 1..Len(q) - 1
  BY <1>1, LenProperties
<1>3. Ordered(Tail(q))
  BY <1>1, <1>2 DEF Ordered
<1>4. \A n : Below(q, n) => Below(Tail(q), n)
  BY <1>1, <1>2 DEF Below
<1> QED
  BY <1>1, <1>3, <1>4

\* The head of the pipeline is the front of the queue, and leaves it.
LEMMA AnsweredQueue ==
    ASSUME NEW q \in Seq(StoredBatch), Ordered(q), FullFront(q) # <<>>
    PROVE  /\ q # <<>> /\ Head(FullFront(q)) = Head(q) /\ Head(q) \in StoredBatch
           /\ Without(q, Head(q).id) = Tail(q)
           /\ FrontOf(Tail(FullFront(q)), Tail(q))
<1> DEFINE m == IF Len(q) <= MaxPending THEN Len(q) ELSE MaxPending
           p == SubSeq(q, 1, m)
<1>1. /\ Len(q) \in Nat /\ DOMAIN q = 1..Len(q) /\ MaxPending \in Nat \ {0}
      /\ \A i \in 1..Len(q) : q[i] \in StoredBatch /\ q[i].id \in Nat
  BY QueueFacts, RemoteStoreAssumption
<1>2. FullFront(q) = p
  <2>1. Len(q) \in Int /\ MaxPending \in Int
    BY <1>1
  <2>2. Min({Len(q), MaxPending}) = m
    BY <2>1, MinOfTwo
  <2> HIDE DEF m
  <2> QED
    BY <2>2 DEF FullFront
<1>3. q # <<>> /\ Len(q) >= 1
  <2>1. q # <<>>
    <3>1. q = <<>> => m = 0
      BY <1>1, EmptySeq
    <3> HIDE DEF m
    <3>2. SubSeq(q, 1, 0) = <<>>
      BY SubSeqEmpty
    <3> QED
      BY <1>2, <3>1, <3>2
  <2> QED
    BY <1>1, <2>1, EmptySeq
<1>4. m \in 1..Len(q) /\ m <= MaxPending
  BY <1>1, <1>3
<1> HIDE DEF m
<1>5. Head(p) = q[1] /\ Tail(p) = SubSeq(q, 2, m)
  <2>1. 1 \in 1..Len(q)
    BY <1>1, <1>3
  <2> QED
    BY <1>4, <2>1, HeadTailOfSubSeq
<1>6. /\ Tail(q) = SubSeq(q, 2, Len(q)) /\ Head(q) = q[1]
      /\ Tail(q) \in Seq(StoredBatch) /\ Len(Tail(q)) = Len(q) - 1
  BY <1>3, TailIsSubSeq, TailQueue
<1>7. Without(q, Head(q).id) = Tail(q)
  <2>1. \A i \in DOMAIN q : q[i].id = q[1].id <=> i = 1
    BY <1>1, <1>3 DEF Ordered
  <2>2. (CHOOSE i \in DOMAIN q : q[i].id = q[1].id) = 1
    BY <1>1, <1>3, <2>1
  <2>3. RemoveAt(q, 1) = SubSeq(q, 1, 0) \o SubSeq(q, 2, Len(q))
    BY DEF RemoveAt
  <2>4. SubSeq(q, 1, 0) = <<>>
    BY SubSeqEmpty
  <2> QED
    BY <1>6, <2>2, <2>3, <2>4, ConcatEmptySeq DEF Without
<1>8. Tail(p) = SubSeq(Tail(q), 1, m - 1)
  <2>1. CASE m = 1
    BY <2>1, <1>5, SubSeqEmpty
  <2>2. CASE m # 1
    <3>1. /\ 2 \in 1..Len(q) /\ Len(q) \in 1..Len(q)
          /\ 1 \in 1..Len(q) - 2 + 1 /\ m - 1 \in 1..Len(q) - 2 + 1
          /\ 2 + 1 - 1 = 2 /\ 2 + (m - 1) - 1 = m
      BY <2>2, <1>1, <1>4
    <3>2. SubSeq(SubSeq(q, 2, Len(q)), 1, m - 1) = SubSeq(q, 2 + 1 - 1, 2 + (m - 1) - 1)
      BY <3>1, <1>6, SubSeqOfSubSeq
    <3> QED
      BY <3>1, <3>2, <1>5, <1>6
  <2> QED
    BY <2>1, <2>2
<1>9. m - 1 \in 0..Len(Tail(q)) /\ m - 1 <= MaxPending
  BY <1>1, <1>4, <1>6
<1>10. FrontOf(Tail(p), Tail(q))
  BY <1>8, <1>9 DEF FrontOf
<1>11. Head(q) \in StoredBatch
  BY <1>1, <1>3, <1>6
<1> HIDE DEF p
<1> QED
  BY <1>2, <1>3, <1>5, <1>6, <1>7, <1>10, <1>11

\* A new batch goes to the end of the queue, and leaves the fronts as they are.
LEMMA StoredQueue ==
    ASSUME NEW q \in Seq(StoredBatch), Ordered(q), NEW b \in StoredBatch, Below(q, b.id)
    PROVE  /\ Append(q, b) \in Seq(StoredBatch)
           /\ Ordered(Append(q, b)) /\ Below(Append(q, b), b.id + 1)
           /\ FrontOf(FullFront(q), Append(q, b))
<1> DEFINE a == Append(q, b)
           m == IF Len(q) <= MaxPending THEN Len(q) ELSE MaxPending
<1>1. /\ Len(q) \in Nat /\ DOMAIN q = 1..Len(q) /\ MaxPending \in Nat \ {0}
      /\ b.id \in Nat
      /\ \A i \in 1..Len(q) : q[i].id \in Nat
  BY QueueFacts, RemoteStoreAssumption DEF StoredBatch
<1>2. /\ a \in Seq(StoredBatch) /\ Len(a) = Len(q) + 1
      /\ \A i \in 1..Len(q) : a[i] = q[i]
      /\ a[Len(q) + 1] = b
      /\ DOMAIN a = 1..Len(q) + 1
  BY AppendProperties, LenProperties
<1> HIDE DEF a
<1>3. Ordered(a) /\ Below(a, b.id + 1)
  <2>1. \A i \in 1..Len(q) : a[i].id < b.id /\ a[i].id \in Nat
    BY <1>1, <1>2 DEF Below
  <2>2. \A i, j \in 1..Len(q) : i < j => a[i].id < a[j].id
    BY <1>1, <1>2 DEF Ordered
  <2>3. \A i \in DOMAIN a : i \in 1..Len(q) \/ i = Len(q) + 1
    BY <1>1, <1>2
  <2>4. Ordered(a)
    <3> SUFFICES ASSUME NEW i \in DOMAIN a, NEW j \in DOMAIN a, i < j
                 PROVE  a[i].id < a[j].id
      BY DEF Ordered
    <3>1. i \in 1..Len(q)
      BY <1>1, <1>2
    <3> QED
      BY <1>2, <2>1, <2>2, <2>3, <3>1
  <2>5. Below(a, b.id + 1)
    BY <1>1, <1>2, <2>1, <2>3 DEF Below
  <2> QED
    BY <2>4, <2>5
<1>4. FullFront(q) = SubSeq(q, 1, m)
  BY <1>1, MinOfTwo DEF FullFront
<1>5. m \in 0..Len(q) /\ m <= MaxPending
  BY <1>1
<1> HIDE DEF m
<1>6. SubSeq(q, 1, m) = SubSeq(a, 1, m)
  <2>1. CASE m = 0
    BY <2>1, SubSeqEmpty
  <2>2. CASE m # 0
    <3>1. 1 \in 1..Len(q) /\ m \in 1..Len(q)
      BY <2>2, <1>1, <1>5
    <3>2. a = q \o <<b>> /\ <<b>> \in Seq(StoredBatch)
      BY AppendIsConcat DEF a
    <3> QED
      BY <3>1, <3>2, SubSeqOfConcat1
  <2> QED
    BY <2>1, <2>2
<1>7. FrontOf(FullFront(q), a)
  BY <1>1, <1>2, <1>4, <1>5, <1>6 DEF FrontOf
<1> QED
  BY <1>2, <1>3, <1>7 DEF a

\* The number that LoadNextBatchIdFromDb finds is beyond every batch on disk.
LEMMA NextIdIsNew ==
    ASSUME NEW d \in [Account -> Seq(StoredBatch)], NEW n \in Nat,
           \A u \in Account : Below(d[u], n)
    PROVE  /\ NextIdFromDb(d) \in Nat \ {0}
           /\ \A u \in Account : Below(d[u], NextIdFromDb(d))
<1> DEFINE S == Ids(d) \cup {0}
<1>1. \A u \in Account : \A i \in DOMAIN d[u] :
          d[u][i].id \in Nat /\ d[u][i].id < n /\ d[u][i].id \in Ids(d)
  <2> SUFFICES ASSUME NEW u \in Account, NEW i \in DOMAIN d[u]
               PROVE  d[u][i].id \in Nat /\ d[u][i].id < n /\ d[u][i].id \in Ids(d)
    OBVIOUS
  <2>1. d[u] \in Seq(StoredBatch)
    OBVIOUS
  <2>2. d[u][i].id \in Nat
    BY <2>1, QueueFacts
  <2>3. d[u][i].id < n
    BY DEF Below
  <2>4. d[u][i] \in Range(d[u])
    BY DEF Range
  <2> QED
    BY <2>2, <2>3, <2>4 DEF Ids
<1>2. \A k \in Ids(d) : k \in 0..n
  <2> SUFFICES ASSUME NEW k \in Ids(d) PROVE k \in 0..n
    OBVIOUS
  <2>1. PICK u \in Account : \E b \in Range(d[u]) : k = b.id
    BY DEF Ids
  <2>2. PICK i \in DOMAIN d[u] : k = d[u][i].id
    BY <2>1 DEF Range
  <2> QED
    BY <1>1, <2>1, <2>2
<1>3. S \in SUBSET (0..n) /\ S # {}
  BY <1>2
<1>4. Max(S) \in S /\ \A y \in S : y <= Max(S)
  <2> HIDE DEF S
  <2> QED
    BY <1>3, MaxExists
<1>5. NextIdFromDb(d) = Max(S) + 1 /\ Max(S) \in Nat
  <2>1. NextIdFromDb(d) = Max(S) + 1
    BY DEF NextIdFromDb
  <2> HIDE DEF S
  <2>2. Max(S) \in 0..n
    BY <1>3, <1>4
  <2> QED
    BY <2>1, <2>2
<1>6. \A u \in Account : Below(d[u], NextIdFromDb(d))
  <2> SUFFICES ASSUME NEW u \in Account, NEW i \in DOMAIN d[u]
               PROVE  d[u][i].id < NextIdFromDb(d)
    BY DEF Below
  <2>1. d[u][i].id \in S /\ d[u][i].id \in Nat
    BY <1>1
  <2> HIDE DEF S
  <2> QED
    BY <1>4, <1>5, <2>1
<1> QED
  <2> HIDE DEF S
  <2> QED
    BY <1>5, <1>6

-----------------------------------------------------------------------------
(***************************************************************************)
(* Every step keeps the invariant, and is one token step of the stream.    *)
(***************************************************************************)

MainMessage ==
    Notice \cup [kind : {"token"}, closes : Nat, counter : Nat, user : Account \cup {Failed}]
WorkMessage ==
    Notice \cup [kind : {"write"}, write : Write]
        \cup [kind : {"token"}, closes : Nat, user : Account \cup {Failed}]

LEMMA WriteFacts ==
    ASSUME WriteInv
    PROVE  /\ AuthTyped /\ rs \in Stream /\ user \in Account
           /\ disk \in [Account -> Seq(StoredBatch)] /\ nextId \in Nat \ {0}
           /\ \A u \in Account : Ordered(disk[u]) /\ Below(disk[u], nextId)
           /\ rs.pipeline = FullFront(disk[user])
           /\ main \in Seq(MainMessage) /\ work \in Seq(WorkMessage)
           /\ Served(rs) /\ Carried(rs)
BY DEF WriteInv, TypeOK, AuthTyped, Numbered, MainMessage, WorkMessage

\* The limit on the pipeline comes with its being a front.
LEMMA FrontIsLimited ==
    ASSUME NEW q \in Seq(StoredBatch), Ordered(q)
    PROVE  Len(FullFront(q)) <= MaxPending /\ FrontOf(<<>>, q)
<1>1. FrontOf(<<>>, q)
  <2>1. SubSeq(q, 1, 0) = <<>> /\ 0 \in 0..Len(q) /\ 0 <= MaxPending
    BY SubSeqEmpty, RemoteStoreAssumption
  <2> QED
    BY <2>1 DEF FrontOf
<1> QED
  BY <1>1, FreshFills

LEMMA InitWrites == Init => WriteInv
<1> SUFFICES ASSUME Init PROVE WriteInv
  OBVIOUS
<1>1. /\ <<>> \in Seq(Message) /\ <<>> \in Seq(StoredBatch) /\ <<>> \in Seq(Account)
      /\ Len(<<>>) = 0 /\ DOMAIN <<>> = {}
  BY EmptySeq
<1>2. rs \in Stream
  BY <1>1 DEF Init, NewRemoteStore, Stream, Account
<1>3. TypeOK
  <2>1. \A S : <<>> \in Seq(S)
    BY EmptySeq
  <2> QED
    BY <1>1, <1>2, <2>1, RemoteStoreAssumption DEF Init, TypeOK, NewRemoteStore, Account
<1>4. Numbered
  BY <1>1 DEF Init, Numbered, Ordered, Below
<1>5. rs.pipeline = FullFront(disk[user])
  <2>1. disk[user] = <<>> /\ rs.pipeline = <<>>
    BY DEF Init, NewRemoteStore, Account
  <2>2. FullFront(<<>>) = <<>>
    BY <1>1, FrontIsLimited, FreshFills DEF Ordered
  <2> QED
    BY <2>1, <2>2
<1>6. Served(rs) /\ Carried(rs)
  BY DEF Init, NewRemoteStore, Served, Serving, Carried, IsStarted, CanWrite
<1> QED
  BY <1>3, <1>4, <1>5, <1>6 DEF WriteInv

\* A step that touches neither the stream nor the queues.
LEMMA ElsewhereKeeps ==
    ASSUME WriteInv, TypeOK', UNCHANGED <<rs, user, disk, nextId>>
    PROVE  WriteInv'
BY DEF WriteInv, Numbered, FullFront

\* A step of the stream over the same queues.
LEMMA StreamStepKeeps ==
    ASSUME WriteInv, TypeOK', UNCHANGED <<user, disk, nextId>>,
           rs'.pipeline = rs.pipeline, Served(rs'), Carried(rs')
    PROVE  WriteInv'
BY DEF WriteInv, Numbered, FullFront

LEMMA UserChangesWrites ==
    ASSUME WriteInv, UserChanges
    PROVE  WriteInv'
<1>1. authUser' \in Account
  BY WriteFacts DEF UserChanges, Account, AuthTyped
<1>2. main' \in Seq(MainMessage)
  <2>1. [kind |-> "notice", user |-> authUser'] \in MainMessage
    BY <1>1 DEF MainMessage, Notice
  <2> QED
    BY <2>1, WriteFacts, AppendProperties DEF UserChanges
<1>3. notices' \in 0..MaxNotices
  BY RemoteStoreAssumption DEF UserChanges, WriteInv, TypeOK
<1>4. TypeOK'
  BY <1>1, <1>2, <1>3 DEF WriteInv, TypeOK, UserChanges, localVars, MainMessage
<1> QED
  BY <1>4, ElsewhereKeeps DEF UserChanges, localVars

LEMMA IssueWrites ==
    ASSUME WriteInv, Issue
    PROVE  WriteInv'
<1>1. author' \in Seq(Account) /\ Len(author') = Len(author) + 1 /\ Len(author) \in Nat
  BY AppendProperties DEF Issue, WriteInv, TypeOK
<1>2. Len(author') \in Write
  BY <1>1, RemoteStoreAssumption DEF Issue, Write
<1>3. work' \in Seq(WorkMessage)
  <2>1. [kind |-> "write", write |-> Len(author')] \in WorkMessage
    BY <1>2 DEF WorkMessage
  <2> QED
    BY <2>1, WriteFacts, AppendProperties DEF Issue
<1>4. TypeOK'
  <2>1. Len(author') <= MaxWrites
    BY <1>2 DEF Write
  <2>2. UNCHANGED <<authUser, main, known, notices, rs, log, faults,
                    user, disk, nextId, blocks, answers, ran, interrupted>>
    BY DEF Issue, authVars, localVars
  <2> QED
    BY <1>1, <1>3, <2>1, <2>2 DEF WriteInv, TypeOK, WorkMessage
<1> QED
  BY <1>4, ElsewhereKeeps DEF Issue, localVars

LEMMA TokenAnswerWrites ==
    ASSUME WriteInv, NEW r \in rs.requests, NEW u \in Account \cup {Failed},
           TokenAnswer(r, u), faults' \in 0..MaxFaults
    PROVE  WriteInv'
<1>1. /\ rs' \in Stream
      /\ rs'.pipeline = rs.pipeline /\ Served(rs') /\ Carried(rs')
  BY WriteFacts DEF TokenAnswer, Stream, Served, Serving, Carried, Due, IsStarted, CanWrite
<1>2. main' \in Seq(MainMessage)
  <2>1. r \in Request
    BY WriteFacts DEF Stream
  <2>2. [kind |-> "token", closes |-> r.closes, counter |-> r.counter, user |-> u] \in MainMessage
    BY <2>1 DEF MainMessage, Request
  <2> QED
    BY <2>2, WriteFacts, AppendProperties DEF TokenAnswer
<1>3. TypeOK'
  BY <1>1, <1>2 DEF WriteInv, TypeOK, TokenAnswer, localVars, MainMessage
<1> QED
  BY <1>1, <1>3, StreamStepKeeps DEF TokenAnswer, localVars

LEMMA TokenFetchedWrites ==
    ASSUME WriteInv, NEW r \in rs.requests, TokenFetched(r)
    PROVE  WriteInv'
<1>1. PICK u \in {r.user, authUser} : TokenAnswer(r, u)
  BY DEF TokenFetched
<1>2. u \in Account
  BY <1>1, WriteFacts DEF Stream, Request, AuthTyped
<1>3. faults' \in 0..MaxFaults
  BY DEF TokenFetched, WriteInv, TypeOK
<1> QED
  BY <1>1, <1>2, <1>3, TokenAnswerWrites

LEMMA TokenFailsWrites ==
    ASSUME WriteInv, NEW r \in rs.requests, TokenFails(r)
    PROVE  WriteInv'
<1>1. faults \in 0..MaxFaults /\ faults < MaxFaults /\ faults' = faults + 1
  BY DEF TokenFails, WriteInv, TypeOK
<1>2. faults' \in 0..MaxFaults
  BY <1>1, RemoteStoreAssumption
<1> QED
  BY <1>2, TokenAnswerWrites DEF TokenFails

\* The head of a queue of messages that is not empty, and what is behind it.
LEMMA HeadOfMain ==
    ASSUME WriteInv, main # <<>>
    PROVE  Head(main) \in MainMessage /\ Tail(main) \in Seq(MainMessage)
BY WriteFacts, HeadTailProperties

LEMMA HeadOfWork ==
    ASSUME WriteInv, work # <<>>
    PROVE  Head(work) \in WorkMessage /\ Tail(work) \in Seq(WorkMessage)
BY WriteFacts, HeadTailProperties

LEMMA NoticeDeliveredWrites ==
    ASSUME WriteInv, NoticeDelivered
    PROVE  WriteInv'
<1>1. Head(main) \in MainMessage /\ Head(main).kind = "notice" /\ main' \in Seq(MainMessage)
  BY HeadOfMain DEF NoticeDelivered
<1>2. Head(main) \in Notice
  BY <1>1 DEF MainMessage
<1>3. work' \in Seq(WorkMessage)
  <2>1. Head(main) \in WorkMessage
    BY <1>2 DEF WorkMessage
  <2> QED
    BY <2>1, WriteFacts, AppendProperties DEF NoticeDelivered
<1>4. known' \in [user : Account, counter : Nat]
  BY <1>2, WriteFacts DEF NoticeDelivered, Notice, AuthTyped
<1>5. TypeOK'
  BY <1>1, <1>3, <1>4 DEF WriteInv, TypeOK, NoticeDelivered, localVars, MainMessage, WorkMessage
<1> QED
  BY <1>5, ElsewhereKeeps DEF NoticeDelivered, localVars

LEMMA TokenDeliveredWrites ==
    ASSUME WriteInv, TokenDelivered
    PROVE  WriteInv'
<1> DEFINE t == Head(main)
           w == [kind |-> "token", closes |-> t.closes,
                 user |-> IF t.counter = known.counter THEN t.user ELSE Failed]
<1>1. t \in MainMessage /\ t.kind = "token" /\ main' \in Seq(MainMessage)
  BY HeadOfMain DEF TokenDelivered
<1>2. t.closes \in Nat /\ t.user \in Account \cup {Failed}
  BY <1>1 DEF MainMessage, Notice
<1>3. work' \in Seq(WorkMessage)
  <2>1. w \in WorkMessage
    BY <1>2 DEF WorkMessage
  <2>2. work' = Append(work, w)
    BY DEF TokenDelivered
  <2> HIDE DEF w
  <2> QED
    BY <2>1, <2>2, WriteFacts, AppendProperties
<1>4. TypeOK'
  BY <1>1, <1>3 DEF WriteInv, TypeOK, TokenDelivered, localVars, MainMessage, WorkMessage
<1> QED
  BY <1>4, ElsewhereKeeps DEF TokenDelivered, localVars

LEMMA WriteStoredWrites ==
    ASSUME WriteInv, WriteStored
    PROVE  WriteInv' /\ TokenStep(rs, rs')
<1> DEFINE n == Head(work).write
           q == disk[user]
           b == Batch(nextId, n)
<1>1. Head(work) \in WorkMessage /\ work' \in Seq(WorkMessage) /\ Head(work).kind = "write"
  BY HeadOfWork DEF WriteStored
<1>2. n \in Write
  BY <1>1 DEF WorkMessage, Notice
<1>3. b \in StoredBatch /\ b.id = nextId
  BY <1>2, WriteFacts DEF Batch, StoredBatch
<1>4. /\ q \in Seq(StoredBatch) /\ Ordered(q) /\ Below(q, nextId)
      /\ rs \in Stream /\ rs.pipeline = FullFront(q)
  BY WriteFacts
<1>5. disk' = [disk EXCEPT ![user] = Append(q, b)] /\ disk'[user] = Append(q, b)
  BY WriteFacts DEF WriteStored
<1> HIDE DEF q, b
<1>6. /\ Append(q, b) \in Seq(StoredBatch) /\ Ordered(Append(q, b))
      /\ Below(Append(q, b), nextId + 1) /\ FrontOf(rs.pipeline, Append(q, b))
  BY <1>3, <1>4, StoredQueue
<1>7. rs' = FillWritePipeline(rs, Append(q, b))
  BY <1>5 DEF WriteStored
<1>8. /\ rs' \in Stream
      /\ rs'.pipeline = FullFront(disk'[user])
      /\ rs'.closes = rs.closes /\ rs'.handshake = rs.handshake
      /\ rs'.state = "Open" <=> rs.state = "Open"
      /\ Unasked(rs, rs') \/ Asked(rs, rs')
      /\ rs'.pipeline # <<>> => IsStarted(rs')
      /\ Serving(rs') /\ Carried(rs')
  BY <1>4, <1>5, <1>6, <1>7, FillServes, WriteFacts DEF Served
<1>9. Served(rs')
  BY <1>8, WriteFacts DEF Served
<1>10. disk' \in [Account -> Seq(StoredBatch)]
  BY <1>5, <1>6, WriteFacts
<1>11. blocks' \subseteq [user : Account, id : Nat \ {0}, write : Write]
  <2>1. blocks' = SetBlock(nextId, n)
    BY DEF WriteStored
  <2> HIDE DEF n
  <2> QED
    BY <1>2, <2>1, WriteFacts DEF SetBlock, WriteInv, TypeOK
<1>12. Len(rs'.pipeline) <= MaxPending
  BY <1>5, <1>6, <1>8, FrontIsLimited
<1>13. TypeOK'
  <2>1. nextId' \in Nat \ {0}
    BY WriteFacts DEF WriteStored
  <2>2. UNCHANGED <<author, user, answers, ran, interrupted, log, faults, authUser, main,
                  known, notices>>
    BY DEF WriteStored, authVars
  <2> QED
    BY <1>1, <1>8, <1>10, <1>11, <1>12, <2>1, <2>2 DEF WriteInv, TypeOK, WorkMessage
<1>14. Numbered'
  <2> SUFFICES ASSUME NEW u \in Account
               PROVE  Ordered(disk'[u]) /\ Below(disk'[u], nextId')
    BY DEF Numbered
  <2>1. nextId' = nextId + 1 /\ nextId \in Nat
    BY WriteFacts DEF WriteStored
  <2>2. CASE u = user
    BY <2>1, <2>2, <1>5, <1>6
  <2>3. CASE u # user
    <3>1. disk'[u] = disk[u] /\ disk[u] \in Seq(StoredBatch)
      BY <2>3, <1>5, WriteFacts
    <3>2. Ordered(disk[u]) /\ Below(disk[u], nextId)
      BY WriteFacts
    <3>3. \A i \in DOMAIN disk[u] : disk[u][i].id \in Nat
      BY <3>1, QueueFacts
    <3>4. Below(disk[u], nextId + 1)
      BY <2>1, <3>2, <3>3 DEF Below
    <3> QED
      BY <2>1, <3>1, <3>2, <3>4
  <2> QED
    BY <2>2, <2>3
<1>15. user' = user
  BY DEF WriteStored
<1> QED
  BY <1>8, <1>9, <1>13, <1>14, <1>15 DEF WriteInv, TokenStep, FullFront

LEMMA CredentialChangesWrites ==
    ASSUME WriteInv, CredentialChanges
    PROVE  WriteInv' /\ TokenStep(rs, rs')
<1>1. Head(work) \in WorkMessage /\ work' \in Seq(WorkMessage) /\ Head(work).kind = "notice"
  BY HeadOfWork DEF CredentialChanges
<1>2. user' \in Account
  BY <1>1 DEF CredentialChanges, WorkMessage, Notice
<1> DEFINE q == disk[user']
<1>3. q \in Seq(StoredBatch) /\ Ordered(q)
  BY <1>2, WriteFacts
<1>4. rs' = Restart(rs, q) /\ disk' = disk
  BY DEF CredentialChanges
<1> HIDE DEF q
<1>5. /\ rs' \in Stream
      /\ rs'.pipeline = FullFront(q)
      /\ Served(rs') /\ Carried(rs')
      /\ TokenStep(rs, rs')
  BY <1>3, <1>4, RestartServes, WriteFacts
<1>6. nextId' \in Nat \ {0} /\ \A u \in Account : Below(disk[u], nextId')
  <2>1. nextId' = NextIdFromDb(disk) \/ nextId' = nextId
    BY DEF CredentialChanges
  <2> QED
    BY <2>1, NextIdIsNew, WriteFacts DEF WriteInv
<1>7. Len(rs'.pipeline) <= MaxPending
  BY <1>3, <1>5, FrontIsLimited
<1>8. TypeOK'
  <2>1. UNCHANGED <<author, disk, blocks, answers, ran, interrupted, log, faults,
                    authUser, main, known, notices>>
    BY DEF CredentialChanges, authVars
  <2> QED
    BY <1>1, <1>2, <1>5, <1>6, <1>7, <2>1 DEF WriteInv, TypeOK, WorkMessage
<1>9. Numbered'
  BY <1>4, <1>6, WriteFacts DEF Numbered
<1>10. rs'.pipeline = FullFront(disk'[user'])
  BY <1>4, <1>5 DEF q
<1> QED
  BY <1>5, <1>8, <1>9, <1>10 DEF WriteInv, FullFront

\* A token that is not late needs the stream to have waited for it.
LEMMA TokenTakenWrites ==
    ASSUME WriteInv, TokenFindsStarting, TokenTaken
    PROVE  /\ WriteInv'
           /\ \/ TokenStep(rs, rs')
              \/ /\ Head(work).closes = rs.closes
                 /\ rs'.closes = rs.closes /\ rs'.requests = rs.requests
<1> DEFINE t == Head(work)
<1>1. t \in WorkMessage /\ work' \in Seq(WorkMessage) /\ t.kind = "token"
  BY HeadOfWork DEF TokenTaken
<1>2. t.user \in Account \cup {Failed} /\ t.closes \in Nat
  BY <1>1 DEF WorkMessage, Notice
<1>3. t.closes = rs.closes => rs.state = "Starting"
  <2>1. work # <<>> /\ work \in Seq(WorkMessage)
    BY WriteFacts DEF TokenTaken
  <2>2. 1 \in DOMAIN work /\ t = work[1]
    BY <2>1, EmptySeq, LenProperties
  <2> QED
    BY <1>1, <2>2 DEF TokenFindsStarting
<1>4. /\ rs' \in Stream /\ rs'.pipeline = rs.pipeline
      /\ Served(rs') /\ Carried(rs')
      /\ \/ TokenStep(rs, rs')
         \/ t.closes = rs.closes /\ rs'.closes = rs.closes /\ rs'.requests = rs.requests
  <2>1. CASE TokenIsLate(t, rs)
    <3>1. rs' = rs
      BY <2>1 DEF TokenTaken
    <3> QED
      BY <3>1, WriteFacts DEF TokenStep, Unasked
  <2>2. CASE ~TokenIsLate(t, rs) /\ t.user = Failed
    <3>1. rs' = ClosedByError(rs)
      BY <2>2 DEF TokenTaken
    <3> QED
      BY <3>1, ErrorServes, WriteFacts
  <2>3. CASE ~TokenIsLate(t, rs) /\ t.user # Failed
    <3>1. rs' = Opened(rs, t.user) /\ t.user \in Account
      BY <2>3, <1>2 DEF TokenTaken
    <3>2. rs.state = "Starting" /\ t.closes = rs.closes
      BY <2>3, <1>3 DEF TokenIsLate
    <3> HIDE DEF t
    <3> QED
      BY <3>1, <3>2, OpenedServes, WriteFacts
  <2> QED
    BY <2>1, <2>2, <2>3
<1>5. UNCHANGED <<author, log, faults, authUser, main, known, notices,
                  user, disk, nextId, blocks, answers, ran, interrupted>>
  BY DEF TokenTaken, authVars, localVars
<1> HIDE DEF t
<1>6. TypeOK'
  BY <1>1, <1>4, <1>5 DEF WriteInv, TypeOK, WorkMessage
<1> QED
  BY <1>4, <1>5, <1>6, StreamStepKeeps DEF t

LEMMA HandshakeAnsweredWrites ==
    ASSUME WriteInv, HandshakeAnswered
    PROVE  WriteInv' /\ TokenStep(rs, rs')
<1>1. /\ rs' \in Stream
      /\ rs'.pipeline = rs.pipeline /\ rs'.state = rs.state
      /\ rs'.closes = rs.closes /\ rs'.requests = rs.requests
      /\ Served(rs') /\ Carried(rs')
  BY HandshakeServes, WriteFacts DEF HandshakeAnswered
<1>2. TypeOK'
  BY <1>1 DEF HandshakeAnswered, WriteInv, TypeOK, authVars, localVars
<1> QED
  BY <1>1, <1>2, StreamStepKeeps DEF HandshakeAnswered, localVars, TokenStep, Unasked

LEMMA CallBrokenWrites ==
    ASSUME WriteInv, CallBroken
    PROVE  WriteInv' /\ TokenStep(rs, rs')
<1>1. /\ rs' \in Stream
      /\ rs'.pipeline = rs.pipeline
      /\ Served(rs') /\ Carried(rs') /\ TokenStep(rs, rs')
  BY ErrorServes, WriteFacts DEF CallBroken
<1>2. TypeOK'
  BY <1>1 DEF CallBroken, WriteInv, TypeOK, authVars, localVars
<1> QED
  BY <1>1, <1>2, StreamStepKeeps DEF CallBroken, localVars

LEMMA IdleTimeoutWrites ==
    ASSUME WriteInv, IdleTimeout
    PROVE  WriteInv' /\ TokenStep(rs, rs')
<1>1. rs.pipeline = <<>> /\ rs' = Stop(rs) /\ rs \in Stream /\ Served(rs) /\ Carried(rs)
  BY WriteFacts DEF IdleTimeout, Served, Serving
<1>2. /\ rs' \in Stream
      /\ rs'.pipeline = rs.pipeline /\ ~IsStarted(rs') /\ ~rs'.handshake
      /\ rs'.requests = rs.requests
      /\ (rs'.closes = rs.closes /\ rs'.state = rs.state) \/ rs'.closes = rs.closes + 1
      /\ Serving(rs') /\ Carried(rs')
  BY <1>1, StopKeeps
<1>3. Served(rs') /\ TokenStep(rs, rs')
  BY <1>1, <1>2 DEF Served, TokenStep, Unasked, IsStarted
<1>4. TypeOK'
  BY <1>1, <1>2 DEF IdleTimeout, WriteInv, TypeOK, authVars, localVars
<1> QED
  BY <1>2, <1>3, <1>4, StreamStepKeeps DEF IdleTimeout, localVars

LEMMA BackoffElapsedWrites ==
    ASSUME WriteInv, BackoffElapsed
    PROVE  WriteInv' /\ TokenStep(rs, rs')
<1>1. /\ rs \in Stream /\ rs.state = "Backoff" /\ Served(rs) /\ Carried(rs) /\ AuthTyped
      /\ rs' = [rs EXCEPT !.state = "Starting", !.requests = @ \cup {RequestOf(rs)}]
  BY WriteFacts DEF BackoffElapsed, Start, RequestCredentials, RequestOf, Stream
<1>2. /\ rs' \in Stream
      /\ rs'.pipeline = rs.pipeline /\ rs'.closes = rs.closes
      /\ Served(rs') /\ Carried(rs') /\ TokenStep(rs, rs')
  BY <1>1, RequestType DEF Stream, Served, Serving, Carried, CanWrite, IsStarted, TokenStep, Asked
<1>3. TypeOK'
  BY <1>2 DEF BackoffElapsed, WriteInv, TypeOK, authVars, localVars
<1> QED
  BY <1>2, <1>3, StreamStepKeeps DEF BackoffElapsed, localVars

\* What the answer to the head does to the queues, once the pipeline has one.
\* What the head's leaving makes of the queues and the answers.
LEMMA HeadLeavesQueues ==
    ASSUME WriteInv, NEW done \in BOOLEAN, HeadLeaves(done), rs.pipeline # <<>>
    PROVE  /\ disk' \in [Account -> Seq(StoredBatch)]
           /\ \A u \in Account : Ordered(disk'[u]) /\ Below(disk'[u], nextId)
           /\ FrontOf(Tail(rs.pipeline), disk'[user])
           /\ answers' \in Seq([write : 0..MaxWrites, done : BOOLEAN])
<1> DEFINE q == disk[user]
           b == Head(rs.pipeline)
<1>1. q \in Seq(StoredBatch) /\ Ordered(q) /\ Below(q, nextId) /\ rs.pipeline = FullFront(q)
  BY WriteFacts
<1>2. disk' = [disk EXCEPT ![user] = Without(q, b.id)]
  BY DEF HeadLeaves
<1> HIDE DEF q
<1>3. /\ q # <<>> /\ b = Head(q) /\ b \in StoredBatch
      /\ Without(q, b.id) = Tail(q)
      /\ FrontOf(Tail(rs.pipeline), Tail(q))
  BY <1>1, AnsweredQueue
<1>4. b.write \in 0..MaxWrites
  BY <1>3, RemoteStoreAssumption DEF StoredBatch, Write
<1>5. answers' = Append(answers, [write |-> b.write, done |-> done])
  BY DEF HeadLeaves
<1> HIDE DEF b
<1>6. /\ Tail(q) \in Seq(StoredBatch) /\ Ordered(Tail(q)) /\ Below(Tail(q), nextId)
  BY <1>1, <1>3, TailQueue
<1>7. disk' = [disk EXCEPT ![user] = Tail(q)] /\ disk'[user] = Tail(q)
  BY <1>2, <1>3, WriteFacts
<1>8. disk' \in [Account -> Seq(StoredBatch)]
  BY <1>6, <1>7, WriteFacts
<1>9. \A u \in Account : Ordered(disk'[u]) /\ Below(disk'[u], nextId)
  BY <1>6, <1>7, WriteFacts
<1>10. answers' \in Seq([write : 0..MaxWrites, done : BOOLEAN])
  <2>1. [write |-> b.write, done |-> done] \in [write : 0..MaxWrites, done : BOOLEAN]
    BY <1>4
  <2>2. answers \in Seq([write : 0..MaxWrites, done : BOOLEAN])
    BY DEF WriteInv, TypeOK
  <2> QED
    BY <1>5, <2>1, <2>2, AppendProperties
<1> QED
  BY <1>3, <1>7, <1>8, <1>9, <1>10

\* What the call of the head's block makes of the history.
LEMMA HeadCalledTypes ==
    ASSUME WriteInv, HeadCalled, rs.pipeline # <<>>
    PROVE  /\ ran' \subseteq [block : Write, write : 0..MaxWrites]
           /\ Head(rs.pipeline).write \in Write
<1> DEFINE b == Head(rs.pipeline)
<1>1. b \in StoredBatch
  BY AnsweredQueue, WriteFacts
<1>2. b.write \in Write /\ b.write \in 0..MaxWrites
  BY <1>1, RemoteStoreAssumption DEF StoredBatch, Write
<1>3. ran' = ran \cup {[block |-> c.write, write |-> b.write] : c \in HeadBlocks}
  BY DEF HeadCalled
<1> HIDE DEF b
<1>4. \A c \in HeadBlocks : c.write \in Write
  BY DEF WriteInv, TypeOK, HeadBlocks
<1>5. ran \subseteq [block : Write, write : 0..MaxWrites]
  BY DEF WriteInv, TypeOK
<1> QED
  BY <1>2, <1>3, <1>4, <1>5 DEF b

LEMMA HeadAnsweredQueues ==
    ASSUME WriteInv, NEW done \in BOOLEAN, HeadAnswered(done), rs.pipeline # <<>>
    PROVE  /\ disk' \in [Account -> Seq(StoredBatch)]
           /\ \A u \in Account : Ordered(disk'[u]) /\ Below(disk'[u], nextId)
           /\ FrontOf(Tail(rs.pipeline), disk'[user])
           /\ answers' \in Seq([write : 0..MaxWrites, done : BOOLEAN])
           /\ blocks' \subseteq [user : Account, id : Nat \ {0}, write : Write]
           /\ ran' \subseteq [block : Write, write : 0..MaxWrites]
           /\ user' = user /\ nextId' = nextId /\ interrupted' = interrupted
<1>1. /\ HeadLeaves(done) /\ HeadCalled /\ blocks' = blocks \ HeadBlocks
      /\ user' = user /\ nextId' = nextId /\ interrupted' = interrupted
  BY DEF HeadAnswered
<1>2. blocks \subseteq [user : Account, id : Nat \ {0}, write : Write]
  BY DEF WriteInv, TypeOK
<1> QED
  BY <1>1, <1>2, HeadLeavesQueues, HeadCalledTypes

\* An operation that answers the head and leaves a stream in order keeps it all.
LEMMA HeadStepKeeps ==
    ASSUME WriteInv, NEW done \in BOOLEAN, HeadAnswered(done), rs.pipeline # <<>>,
           rs' \in Stream, rs'.pipeline = FullFront(disk'[user]), Served(rs'), Carried(rs'),
           UNCHANGED <<author, work, log, faults, authVars>>
    PROVE  WriteInv'
<1>1. user \in Account /\ disk' \in [Account -> Seq(StoredBatch)] /\ Ordered(disk'[user])
  BY HeadAnsweredQueues, WriteFacts
<1>2. Len(rs'.pipeline) <= MaxPending
  BY <1>1, FrontIsLimited
<1>3. TypeOK'
  BY <1>1, <1>2, HeadAnsweredQueues DEF WriteInv, TypeOK, authVars
<1>4. Numbered'
  BY HeadAnsweredQueues DEF Numbered
<1>5. rs'.pipeline = FullFront(disk'[user'])
  BY HeadAnsweredQueues
<1> QED
  BY <1>3, <1>4, <1>5 DEF WriteInv, FullFront

LEMMA WriteAnsweredWrites ==
    ASSUME WriteInv, WriteAnswered
    PROVE  WriteInv' /\ TokenStep(rs, rs')
<1> DEFINE e == [rs EXCEPT !.pipeline = Tail(@), !.results = Tail(@)]
           q == disk'[user]
<1>1. /\ rs.pipeline # <<>>
      /\ e \in Stream
      /\ e.pipeline = Tail(rs.pipeline) /\ e.state = rs.state /\ e.handshake
      /\ e.closes = rs.closes /\ e.requests = rs.requests
      /\ Serving(e) /\ Carried(e) /\ rs.state = "Open"
  BY AnswerServes, WriteFacts DEF WriteAnswered, AnswerShown
<1>2. HeadAnswered(TRUE) /\ rs' = FillWritePipeline(e, q)
  BY DEF WriteAnswered, AnswerShown
<1>3. q \in Seq(StoredBatch) /\ Ordered(q) /\ FrontOf(e.pipeline, q)
  BY <1>1, <1>2, HeadAnsweredQueues, WriteFacts
<1> HIDE DEF e, q
<1>4. /\ rs' \in Stream
      /\ rs'.pipeline = FullFront(q)
      /\ rs'.closes = e.closes /\ rs'.handshake = e.handshake
      /\ rs'.state = "Open" <=> e.state = "Open"
      /\ Unasked(e, rs') \/ Asked(e, rs')
      /\ rs'.pipeline # <<>> => IsStarted(rs')
      /\ Serving(rs') /\ Carried(rs')
  BY <1>1, <1>2, <1>3, FillServes, WriteFacts
<1>5. Served(rs')
  BY <1>1, <1>4 DEF Served
<1>6. TokenStep(rs, rs')
  BY <1>1, <1>4 DEF TokenStep, Unasked, Asked, RequestOf
<1>7. WriteInv'
  BY <1>1, <1>2, <1>4, <1>5, HeadStepKeeps DEF q, WriteAnswered
<1> QED
  BY <1>6, <1>7

LEMMA CallRefusedWrites ==
    ASSUME WriteInv, CallRefused
    PROVE  WriteInv' /\ TokenStep(rs, rs')
<1> DEFINE q == disk'[user]
<1>1. rs.pipeline # <<>> /\ HeadAnswered(FALSE) /\ rs' = ClosedByRefusal(rs, q)
  BY DEF CallRefused, RefusalShown
<1>2. q \in Seq(StoredBatch) /\ Ordered(q) /\ FrontOf(Tail(rs.pipeline), q)
  BY <1>1, HeadAnsweredQueues, WriteFacts
<1> HIDE DEF q
<1>3. /\ rs' \in Stream
      /\ rs'.pipeline = FullFront(q)
      /\ Served(rs') /\ Carried(rs') /\ TokenStep(rs, rs')
  BY <1>1, <1>2, RefusalServes, WriteFacts
<1>4. WriteInv'
  BY <1>1, <1>3, HeadStepKeeps DEF q, CallRefused
<1> QED
  BY <1>3, <1>4

LEMMA ServeWrites ==
    ASSUME WriteInv, Serve
    PROVE  WriteInv' /\ rs'.state = rs.state /\ rs'.closes = rs.closes
               /\ rs'.requests = rs.requests
<1> DEFINE m == Head(rs.sent)
<1>1. /\ rs.ended = "no" /\ rs.sent # <<>>
      /\ \/ rs' = [rs EXCEPT !.sent = Tail(@), !.results = Append(@, m)]
         \/ rs' = [rs EXCEPT !.sent = Tail(@), !.ended = "permanent"]
  BY DEF Serve
<1>2. /\ rs' \in Stream
      /\ rs'.pipeline = rs.pipeline /\ rs'.state = rs.state
      /\ rs'.closes = rs.closes /\ rs'.requests = rs.requests
      /\ Served(rs') /\ Carried(rs')
  BY <1>1, ServedKeeps, WriteFacts
<1>3. m \in Message /\ rs.as \in Account
  <2>1. rs.sent \in Seq(Message) /\ rs.as \in Account
    BY WriteFacts DEF Stream
  <2> QED
    BY <1>1, <2>1, HeadTailProperties
<1>4. log' \in Seq([write : 0..MaxWrites, as : Account])
  <2>1. log' = log \/ log' = Append(log, [write |-> m.write, as |-> rs.as])
    BY DEF Serve
  <2>2. [write |-> m.write, as |-> rs.as] \in [write : 0..MaxWrites, as : Account]
    BY <1>3 DEF Message
  <2>3. log \in Seq([write : 0..MaxWrites, as : Account])
    BY DEF WriteInv, TypeOK
  <2> DEFINE e == [write |-> m.write, as |-> rs.as]
             L == [write : 0..MaxWrites, as : Account]
  <2>4. (log' = log \/ log' = Append(log, e)) /\ e \in L /\ log \in Seq(L)
    BY <2>1, <2>2, <2>3
  <2> HIDE DEF m, e, L
  <2>5. log' \in Seq(L)
    BY <2>4, AppendProperties
  <2> QED
    BY <2>5 DEF L
<1>5. TypeOK'
  BY <1>2, <1>4 DEF Serve, WriteInv, TypeOK, authVars, localVars
<1> QED
  BY <1>2, <1>5, StreamStepKeeps DEF Serve, localVars

LEMMA BreakWrites ==
    ASSUME WriteInv, Break
    PROVE  WriteInv' /\ rs'.state = rs.state /\ rs'.closes = rs.closes
               /\ rs'.requests = rs.requests
<1>1. PICK k \in 0..Len(rs.results) :
          rs' = [rs EXCEPT !.ended = "transient", !.sent = <<>>, !.results = SubSeq(@, 1, k)]
  BY DEF Break
<1>2. /\ rs' \in Stream
      /\ rs'.pipeline = rs.pipeline /\ rs'.state = rs.state
      /\ rs'.closes = rs.closes /\ rs'.requests = rs.requests
      /\ Served(rs') /\ Carried(rs')
  <2>1. rs \in Stream /\ rs.state = "Open" /\ Served(rs) /\ Carried(rs)
    BY WriteFacts DEF Break
  <2> DEFINE r == [rs EXCEPT !.ended = "transient", !.sent = <<>>, !.results = SubSeq(@, 1, k)]
  <2>2. /\ r \in Stream
        /\ r.pipeline = rs.pipeline /\ r.state = rs.state
        /\ r.closes = rs.closes /\ r.requests = rs.requests
        /\ Served(r) /\ Carried(r)
    BY <2>1, BrokenKeeps
  <2>3. rs' = r
    BY <1>1
  <2> HIDE DEF r
  <2> QED
    BY <2>2, <2>3
<1>3. faults' \in 0..MaxFaults
  <2>1. faults < MaxFaults /\ faults' = faults + 1
    BY DEF Break
  <2>2. faults \in 0..MaxFaults
    BY DEF WriteInv, TypeOK
  <2> QED
    BY <2>1, <2>2, RemoteStoreAssumption
<1>4. TypeOK'
  BY <1>2, <1>3 DEF Break, WriteInv, TypeOK, authVars, localVars
<1> QED
  BY <1>2, <1>4, StreamStepKeeps DEF Break, localVars

\* The three places where the process may die.
Dies == Crash \/ CrashAfterBlock \/ CrashBeforeBlock

\* A launch from any disk that is in order.
LEMMA RelaunchedWrites ==
    ASSUME WriteInv, Relaunched,
           disk' \in [Account -> Seq(StoredBatch)],
           \A u \in Account : Ordered(disk'[u]) /\ Below(disk'[u], nextId),
           answers' \in Seq([write : 0..MaxWrites, done : BOOLEAN]),
           ran' \subseteq [block : Write, write : 0..MaxWrites],
           interrupted' \subseteq Write
    PROVE  /\ WriteInv'
           /\ rs'.closes = 0
           /\ \/ rs'.requests = {} /\ rs'.state # "Starting"
              \/ rs'.requests = {RequestOf(rs')} /\ rs'.state = "Starting"
<1> DEFINE q == disk'[authUser]
           s == NewRemoteStore
<1>1. authUser \in Account /\ q \in Seq(StoredBatch) /\ Ordered(q)
  BY WriteFacts DEF AuthTyped
<1>2. rs' = FillWritePipeline(s, q) /\ user' = authUser
  BY DEF Relaunched
<1>3. /\ s \in Stream /\ s.pipeline = <<>> /\ s.closes = 0 /\ s.requests = {}
      /\ s.state = "Initial" /\ ~s.handshake
      /\ Serving(s) /\ Carried(s)
  <2>1. <<>> \in Seq(Message)
    BY EmptySeq
  <2> QED
    BY <2>1 DEF NewRemoteStore, Stream, Account, Serving, Carried, IsStarted, CanWrite
<1> HIDE DEF q, s
<1>4. FrontOf(s.pipeline, q)
  BY <1>1, <1>3, FrontIsLimited
<1>5. /\ rs' \in Stream
      /\ rs'.pipeline = FullFront(q)
      /\ rs'.closes = s.closes /\ rs'.handshake = s.handshake
      /\ Unasked(s, rs') \/ Asked(s, rs')
      /\ rs'.pipeline # <<>> => IsStarted(rs')
      /\ Serving(rs') /\ Carried(rs')
  BY <1>1, <1>2, <1>3, <1>4, FillServes, WriteFacts
<1>6. Served(rs')
  BY <1>3, <1>5 DEF Served
<1>7. nextId' \in Nat \ {0} /\ \A u \in Account : Below(disk'[u], nextId')
  <2>1. PICK d : d = disk'
    OBVIOUS
  <2>2. PICK n \in Nat : n = nextId
    BY WriteFacts
  <2>3. d \in [Account -> Seq(StoredBatch)] /\ \A u \in Account : Below(d[u], n)
    BY <2>1, <2>2
  <2>4. NextIdFromDb(d) \in Nat \ {0} /\ \A u \in Account : Below(d[u], NextIdFromDb(d))
    BY <2>3, NextIdIsNew
  <2>5. nextId' = NextIdFromDb(d)
    BY <2>1 DEF Relaunched
  <2> QED
    BY <2>1, <2>4, <2>5
<1>8. Len(rs'.pipeline) <= MaxPending
  BY <1>1, <1>5, FrontIsLimited
<1>9. known' \in [user : Account, counter : Nat]
  BY <1>1, WriteFacts DEF Relaunched, AuthTyped
<1>10. TypeOK'
  <2>1. main' = <<>> /\ work' = <<>> /\ blocks' = {}
    BY DEF Relaunched
  <2>2. \A S : <<>> \in Seq(S)
    BY EmptySeq
  <2>3. faults' \in 0..MaxFaults
    <3>1. faults < MaxFaults /\ faults' = faults + 1
      BY DEF Relaunched
    <3>2. faults \in 0..MaxFaults
      BY DEF WriteInv, TypeOK
    <3> QED
      BY <3>1, <3>2, RemoteStoreAssumption
  <2>4. UNCHANGED <<author, authUser, log, notices>>
    BY DEF Relaunched
  <2> QED
    BY <1>1, <1>2, <1>5, <1>7, <1>8, <1>9, <2>1, <2>2, <2>3, <2>4 DEF WriteInv, TypeOK
<1>11. Numbered'
  BY <1>7 DEF Numbered
<1>12. rs'.pipeline = FullFront(disk'[user'])
  BY <1>2, <1>5 DEF q
<1>13. \/ rs'.requests = {} /\ rs'.state # "Starting"
       \/ rs'.requests = {RequestOf(rs')} /\ rs'.state = "Starting"
  BY <1>3, <1>5 DEF Unasked, Asked, RequestOf
<1> QED
  BY <1>3, <1>5, <1>6, <1>10, <1>11, <1>12, <1>13 DEF WriteInv, FullFront

\* Between its two halves the answer of the head has a head to be about.
LEMMA HeadIsThere ==
    ASSUME WriteInv, AnswerShown \/ RefusalShown
    PROVE  rs.pipeline # <<>>
BY AnswerServes, WriteFacts DEF AnswerShown, RefusalShown

LEMMA DiesFromOrder ==
    ASSUME WriteInv, Dies
    PROVE  /\ Relaunched
           /\ disk' \in [Account -> Seq(StoredBatch)]
           /\ \A u \in Account : Ordered(disk'[u]) /\ Below(disk'[u], nextId)
           /\ answers' \in Seq([write : 0..MaxWrites, done : BOOLEAN])
           /\ ran' \subseteq [block : Write, write : 0..MaxWrites]
           /\ interrupted' \subseteq Write
<1>1. /\ answers \in Seq([write : 0..MaxWrites, done : BOOLEAN])
      /\ ran \subseteq [block : Write, write : 0..MaxWrites]
      /\ interrupted \subseteq Write
  BY DEF WriteInv, TypeOK
<1>2. CASE Crash
  BY <1>1, <1>2, WriteFacts DEF Crash
<1>3. CASE CrashAfterBlock
  <2>1. /\ AnswerShown /\ HeadCalled /\ Relaunched /\ UNCHANGED <<disk, answers>>
        /\ interrupted' = interrupted \cup {Head(rs.pipeline).write}
    BY <1>3 DEF CrashAfterBlock
  <2> QED
    BY <1>1, <2>1, HeadIsThere, HeadCalledTypes, WriteFacts
<1>4. CASE CrashBeforeBlock
  <2>1. /\ RefusalShown /\ HeadLeaves(FALSE) /\ Relaunched /\ UNCHANGED <<ran, interrupted>>
    BY <1>4 DEF CrashBeforeBlock
  <2> QED
    BY <1>1, <2>1, HeadIsThere, HeadLeavesQueues
<1> QED
  BY <1>2, <1>3, <1>4 DEF Dies

LEMMA CrashWrites ==
    ASSUME WriteInv, Dies
    PROVE  /\ WriteInv'
           /\ rs'.closes = 0
           /\ \/ rs'.requests = {} /\ rs'.state # "Starting"
              \/ rs'.requests = {RequestOf(rs')} /\ rs'.state = "Starting"
BY DiesFromOrder, RelaunchedWrites

-----------------------------------------------------------------------------
(***************************************************************************)
(* Tokens.  Every token, asked for or on its way, belongs to the present   *)
(* start of the stream or an earlier one; at most one belongs to the       *)
(* present one, and then the stream waits for it.                          *)
(***************************************************************************)

IsToken(q, i) == q[i].kind = "token"

\* The requests and the tokens of two queues are all from before close n.
AllLate(requests, m, w, n) ==
    /\ \A r \in requests : r.closes < n
    /\ \A i \in DOMAIN m : IsToken(m, i) => m[i].closes < n
    /\ \A i \in DOMAIN w : IsToken(w, i) => w[i].closes < n

\* At most one is of close n.
Single(requests, m, w, n) ==
    /\ \A r1, r2 \in requests : r1.closes = n /\ r2.closes = n => r1 = r2
    /\ \A i, j \in DOMAIN m :
          IsToken(m, i) /\ IsToken(m, j) /\ m[i].closes = n /\ m[j].closes = n => i = j
    /\ \A i, j \in DOMAIN w :
          IsToken(w, i) /\ IsToken(w, j) /\ w[i].closes = n /\ w[j].closes = n => i = j
    /\ \A r \in requests, i \in DOMAIN m : ~(r.closes = n /\ IsToken(m, i) /\ m[i].closes = n)
    /\ \A r \in requests, i \in DOMAIN w : ~(r.closes = n /\ IsToken(w, i) /\ w[i].closes = n)
    /\ \A i \in DOMAIN m, j \in DOMAIN w :
          ~(IsToken(m, i) /\ m[i].closes = n /\ IsToken(w, j) /\ w[j].closes = n)

TokensOf(requests, m, w, n, state) ==
    /\ AllLate(requests, m, w, n + 1)
    /\ Single(requests, m, w, n)
    /\ state = "Starting" \/ AllLate(requests, m, w, n)

TokenInv == TokensOf(rs.requests, main, work, rs.closes, rs.state)

\* What a queue of messages is like behind its head, and with one more.
LEMMA QueueMoves ==
    ASSUME NEW T, NEW q \in Seq(T)
    PROVE  /\ Len(q) \in Nat /\ DOMAIN q = 1..Len(q)
           /\ q # <<>> =>
                 /\ Len(q) >= 1 /\ Head(q) = q[1]
                 /\ DOMAIN Tail(q) = 1..Len(q) - 1
                 /\ \A i \in 1..Len(q) - 1 : Tail(q)[i] = q[i + 1]
           /\ \A e \in T :
                 /\ DOMAIN Append(q, e) = 1..Len(q) + 1
                 /\ Append(q, e)[Len(q) + 1] = e
                 /\ \A i \in 1..Len(q) : Append(q, e)[i] = q[i]
<1>1. Len(q) \in Nat /\ DOMAIN q = 1..Len(q)
  BY LenProperties
<1>2. ASSUME q # <<>>
      PROVE  /\ Len(q) >= 1 /\ Head(q) = q[1]
             /\ DOMAIN Tail(q) = 1..Len(q) - 1
             /\ \A i \in 1..Len(q) - 1 : Tail(q)[i] = q[i + 1]
  <2>1. /\ Tail(q) \in Seq(T) /\ Len(Tail(q)) = Len(q) - 1
        /\ \A i \in 1..Len(Tail(q)) : Tail(q)[i] = q[i + 1]
    BY <1>2, HeadTailProperties
  <2>2. DOMAIN Tail(q) = 1..Len(Tail(q))
    BY <2>1, LenProperties
  <2>3. Len(q) \in Nat \ {0}
    BY <1>2, EmptySeq
  <2> QED
    BY <2>1, <2>2, <2>3
<1>3. ASSUME NEW e \in T
      PROVE  /\ DOMAIN Append(q, e) = 1..Len(q) + 1
             /\ Append(q, e)[Len(q) + 1] = e
             /\ \A i \in 1..Len(q) : Append(q, e)[i] = q[i]
  <2>1. Append(q, e) \in Seq(T) /\ Len(Append(q, e)) = Len(q) + 1
    BY AppendProperties
  <2>2. DOMAIN Append(q, e) = 1..Len(q) + 1
    BY <2>1, LenProperties
  <2> QED
    BY <2>2, AppendProperties
<1> QED
  BY <1>1, <1>2, <1>3

\* Two queues without their heads hold no new token.
LEMMA TokensBehind ==
    ASSUME NEW R, NEW m \in Seq(MainMessage), NEW w \in Seq(WorkMessage), NEW n,
           NEW state, TokensOf(R, m, w, n, state), w # <<>>
    PROVE  /\ TokensOf(R, m, Tail(w), n, state)
           /\ IsToken(w, 1) /\ w[1].closes = n => \A i \in DOMAIN Tail(w) :
                 IsToken(Tail(w), i) => Tail(w)[i].closes # n
<1>1. /\ Len(w) \in Nat /\ DOMAIN w = 1..Len(w) /\ Len(w) >= 1
      /\ DOMAIN Tail(w) = 1..Len(w) - 1
      /\ \A i \in 1..Len(w) - 1 : Tail(w)[i] = w[i + 1]
  BY QueueMoves
<1>2. \A k : AllLate(R, m, w, k) => AllLate(R, m, Tail(w), k)
  BY <1>1 DEF AllLate, IsToken
<1>3. \A i \in DOMAIN Tail(w) : i + 1 \in DOMAIN w /\ Tail(w)[i] = w[i + 1] /\ i + 1 # 1
  BY <1>1
<1>4. \A i, j \in DOMAIN Tail(w) : i + 1 = j + 1 => i = j
  BY <1>1
<1>5. Single(R, m, Tail(w), n)
  <2>1. \A i, j \in DOMAIN Tail(w) :
            IsToken(Tail(w), i) /\ IsToken(Tail(w), j)
                /\ Tail(w)[i].closes = n /\ Tail(w)[j].closes = n => i = j
    BY <1>3, <1>4 DEF TokensOf, Single, IsToken
  <2>2. \A r \in R, i \in DOMAIN Tail(w) :
            ~(r.closes = n /\ IsToken(Tail(w), i) /\ Tail(w)[i].closes = n)
    BY <1>3 DEF TokensOf, Single, IsToken
  <2>3. \A i \in DOMAIN m, j \in DOMAIN Tail(w) :
            ~(IsToken(m, i) /\ m[i].closes = n /\ IsToken(Tail(w), j) /\ Tail(w)[j].closes = n)
    BY <1>3 DEF TokensOf, Single, IsToken
  <2> QED
    BY <2>1, <2>2, <2>3 DEF TokensOf, Single
<1>6. IsToken(w, 1) /\ w[1].closes = n => \A i \in DOMAIN Tail(w) :
          IsToken(Tail(w), i) => Tail(w)[i].closes # n
  BY <1>1, <1>3 DEF TokensOf, Single, IsToken
<1> QED
  BY <1>2, <1>5, <1>6 DEF TokensOf

\* A token step of the stream keeps the tokens in order.
LEMMA TokenStepKeeps ==
    ASSUME NEW s \in Stream, NEW r \in Stream, TokenStep(s, r),
           NEW m \in Seq(MainMessage), NEW w \in Seq(WorkMessage),
           TokensOf(s.requests, m, w, s.closes, s.state)
    PROVE  TokensOf(r.requests, m, w, r.closes, r.state)
<1>1. /\ s.closes \in Nat
      /\ \A t \in s.requests : t.closes \in Nat
      /\ \A i \in DOMAIN m : IsToken(m, i) => m[i].closes \in Nat
      /\ \A i \in DOMAIN w : IsToken(w, i) => w[i].closes \in Nat
  <2>1. \A i \in DOMAIN m : m[i] \in MainMessage
    BY LenProperties, ElementOfSeq
  <2>2. \A i \in DOMAIN w : w[i] \in WorkMessage
    BY LenProperties, ElementOfSeq
  <2> QED
    BY <2>1, <2>2 DEF Stream, Request, MainMessage, WorkMessage, Notice, IsToken
<1>2. AllLate(s.requests, m, w, s.closes + 1) /\ Single(s.requests, m, w, s.closes)
  BY DEF TokensOf
\* With every token late, the stream may ask for one or be in any state.
<1>3. ASSUME AllLate(s.requests, m, w, r.closes), r.closes \in Nat,
             \/ r.requests = s.requests
             \/ r.requests = s.requests \cup {RequestOf(r)} /\ r.state = "Starting"
      PROVE  TokensOf(r.requests, m, w, r.closes, r.state)
  <2>1. RequestOf(r).closes = r.closes
    BY DEF RequestOf
  <2>2. AllLate(r.requests, m, w, r.closes + 1)
    BY <1>1, <1>3, <2>1 DEF AllLate
  <2>3. Single(r.requests, m, w, r.closes)
    BY <1>1, <1>3, <2>1 DEF AllLate, Single
  <2> QED
    BY <1>3, <2>2, <2>3 DEF TokensOf
<1>4. CASE r.closes = s.closes /\ Unasked(s, r)
  BY <1>4 DEF TokensOf, Unasked
<1>5. CASE r.closes = s.closes /\ Asked(s, r)
  <2>1. AllLate(s.requests, m, w, r.closes)
    BY <1>5 DEF TokensOf, Asked
  <2>2. RequestOf(s) = RequestOf(r)
    BY <1>5 DEF RequestOf
  <2> QED
    BY <1>1, <1>3, <1>5, <2>1, <2>2 DEF Asked
<1>6. CASE /\ r.closes = s.closes + 1
           /\ \/ r.requests = s.requests /\ r.state # "Starting"
              \/ r.requests = s.requests \cup {RequestOf(r)} /\ r.state = "Starting"
  BY <1>1, <1>2, <1>3, <1>6
<1> QED
  BY <1>4, <1>5, <1>6 DEF TokenStep

LEMMA InitTokens == Init => TokenInv
BY EmptySeq DEF Init, NewRemoteStore, TokenInv, TokensOf, AllLate, Single

\* A message that is no token joins a queue.
LEMMA OthersJoin ==
    ASSUME NEW R, NEW m \in Seq(MainMessage), NEW w \in Seq(WorkMessage), NEW n, NEW state,
           TokensOf(R, m, w, n, state)
    PROVE  /\ \A e \in MainMessage : e.kind # "token" => TokensOf(R, Append(m, e), w, n, state)
           /\ \A e \in WorkMessage : e.kind # "token" => TokensOf(R, m, Append(w, e), n, state)
<1>1. ASSUME NEW e \in MainMessage, e.kind # "token"
      PROVE  TokensOf(R, Append(m, e), w, n, state)
  <2>1. /\ Len(m) \in Nat /\ DOMAIN m = 1..Len(m)
        /\ DOMAIN Append(m, e) = 1..Len(m) + 1
        /\ Append(m, e)[Len(m) + 1] = e
        /\ \A i \in 1..Len(m) : Append(m, e)[i] = m[i]
    BY QueueMoves
  <2> DEFINE a == Append(m, e)
  <2>2. \A i \in DOMAIN a : IsToken(a, i) => i \in DOMAIN m /\ IsToken(m, i) /\ a[i] = m[i]
    <3> SUFFICES ASSUME NEW i \in DOMAIN a, IsToken(a, i)
                 PROVE  i \in DOMAIN m /\ IsToken(m, i) /\ a[i] = m[i]
      OBVIOUS
    <3>1. i # Len(m) + 1
      BY <1>1, <2>1 DEF IsToken
    <3> QED
      BY <2>1, <3>1 DEF IsToken
  <2> HIDE DEF a
  <2>3. \A k : AllLate(R, m, w, k) => AllLate(R, a, w, k)
    BY <2>2 DEF AllLate
  <2>4. Single(R, m, w, n) => Single(R, a, w, n)
    BY <2>2 DEF Single
  <2>5. TokensOf(R, a, w, n, state)
    BY <2>3, <2>4 DEF TokensOf
  <2> QED
    BY <2>5 DEF a
<1>2. ASSUME NEW e \in WorkMessage, e.kind # "token"
      PROVE  TokensOf(R, m, Append(w, e), n, state)
  <2>1. /\ Len(w) \in Nat /\ DOMAIN w = 1..Len(w)
        /\ DOMAIN Append(w, e) = 1..Len(w) + 1
        /\ Append(w, e)[Len(w) + 1] = e
        /\ \A i \in 1..Len(w) : Append(w, e)[i] = w[i]
    BY QueueMoves
  <2> DEFINE a == Append(w, e)
  <2>2. \A i \in DOMAIN a : IsToken(a, i) => i \in DOMAIN w /\ IsToken(w, i) /\ a[i] = w[i]
    <3> SUFFICES ASSUME NEW i \in DOMAIN a, IsToken(a, i)
                 PROVE  i \in DOMAIN w /\ IsToken(w, i) /\ a[i] = w[i]
      OBVIOUS
    <3>1. i # Len(w) + 1
      BY <1>2, <2>1 DEF IsToken
    <3> QED
      BY <2>1, <3>1 DEF IsToken
  <2> HIDE DEF a
  <2>3. \A k : AllLate(R, m, w, k) => AllLate(R, m, a, k)
    BY <2>2 DEF AllLate
  <2>4. Single(R, m, w, n) => Single(R, m, a, n)
    BY <2>2 DEF Single
  <2>5. TokensOf(R, m, a, n, state)
    BY <2>3, <2>4 DEF TokensOf
  <2> QED
    BY <2>5 DEF a
<1> QED
  BY <1>1, <1>2

\* An answered request is a token in the main queue.
LEMMA RequestMoves ==
    ASSUME NEW R, NEW m \in Seq(MainMessage), NEW w \in Seq(WorkMessage), NEW n, NEW state,
           TokensOf(R, m, w, n, state),
           NEW r \in R, NEW e \in MainMessage, e.kind = "token", e.closes = r.closes
    PROVE  TokensOf(R \ {r}, Append(m, e), w, n, state)
<1> DEFINE a == Append(m, e)
           z == Len(m) + 1
<1>1. /\ Len(m) \in Nat /\ DOMAIN m = 1..Len(m)
      /\ DOMAIN a = 1..z /\ a[z] = e
      /\ \A i \in 1..Len(m) : a[i] = m[i]
  BY QueueMoves
<1> HIDE DEF a
<1>2. \A i \in DOMAIN a : \/ i \in DOMAIN m /\ a[i] = m[i]
                          \/ i = z /\ a[i].closes = r.closes
  <2>1. \A i \in DOMAIN a : i \in DOMAIN m \/ i = z
    BY <1>1
  <2>2. \A i \in DOMAIN m : a[i] = m[i]
    BY <1>1
  <2>3. a[z].closes = r.closes
    BY <1>1
  <2> HIDE DEF z
  <2> QED
    BY <2>1, <2>2, <2>3
<1> HIDE DEF z
<1>3. \A k : AllLate(R, m, w, k) => AllLate(R \ {r}, a, w, k)
  BY <1>2 DEF AllLate, IsToken
<1>4. Single(R \ {r}, a, w, n)
  <2> USE DEF TokensOf, Single, IsToken
  <2>1. \A i, j \in DOMAIN a :
            IsToken(a, i) /\ IsToken(a, j) /\ a[i].closes = n /\ a[j].closes = n => i = j
    BY <1>2
  <2>2. \A t \in R \ {r}, i \in DOMAIN a :
            ~(t.closes = n /\ IsToken(a, i) /\ a[i].closes = n)
    BY <1>2
  <2>3. \A i \in DOMAIN a, j \in DOMAIN w :
            ~(IsToken(a, i) /\ a[i].closes = n /\ IsToken(w, j) /\ w[j].closes = n)
    BY <1>2
  <2> QED
    BY <2>1, <2>2, <2>3
<1>5. TokensOf(R \ {r}, a, w, n, state)
  BY <1>3, <1>4 DEF TokensOf
<1> QED
  BY <1>5 DEF a

\* The head of the main queue leaves it, as a token for the worker queue or not.
LEMMA MainHeadLeaves ==
    ASSUME NEW R, NEW m \in Seq(MainMessage), NEW w \in Seq(WorkMessage), NEW n, NEW state,
           TokensOf(R, m, w, n, state), m # <<>>
    PROVE  /\ TokensOf(R, Tail(m), w, n, state)
           /\ \A e \in WorkMessage :
                 Head(m).kind = "token" /\ e.closes = Head(m).closes =>
                     TokensOf(R, Tail(m), Append(w, e), n, state)
<1> DEFINE b == Tail(m)
<1>1. /\ Len(m) \in Nat /\ DOMAIN m = 1..Len(m) /\ Len(m) >= 1 /\ Head(m) = m[1]
      /\ DOMAIN b = 1..Len(m) - 1
      /\ \A i \in 1..Len(m) - 1 : b[i] = m[i + 1]
  BY QueueMoves
<1> HIDE DEF b
<1>2. \A i \in DOMAIN b : i + 1 \in DOMAIN m /\ b[i] = m[i + 1] /\ i + 1 # 1
  BY <1>1
<1>3. \A i, j \in DOMAIN b : i + 1 = j + 1 => i = j
  BY <1>1
<1>4. \A k : AllLate(R, m, w, k) => AllLate(R, b, w, k)
  BY <1>2 DEF AllLate, IsToken
<1>5. Single(R, b, w, n)
  <2> USE DEF TokensOf, Single, IsToken
  <2>1. \A i, j \in DOMAIN b :
            IsToken(b, i) /\ IsToken(b, j) /\ b[i].closes = n /\ b[j].closes = n => i = j
    BY <1>2, <1>3
  <2>2. \A r \in R, i \in DOMAIN b : ~(r.closes = n /\ IsToken(b, i) /\ b[i].closes = n)
    BY <1>2
  <2>3. \A i \in DOMAIN b, j \in DOMAIN w :
            ~(IsToken(b, i) /\ b[i].closes = n /\ IsToken(w, j) /\ w[j].closes = n)
    BY <1>2
  <2> QED
    BY <2>1, <2>2, <2>3
<1>6. TokensOf(R, b, w, n, state)
  BY <1>4, <1>5 DEF TokensOf
<1>7. ASSUME NEW e \in WorkMessage, Head(m).kind = "token", e.closes = Head(m).closes
      PROVE  TokensOf(R, b, Append(w, e), n, state)
  <2> DEFINE a == Append(w, e)
             z == Len(w) + 1
  <2>1. /\ Len(w) \in Nat /\ DOMAIN w = 1..Len(w)
        /\ DOMAIN a = 1..z /\ a[z] = e
        /\ \A i \in 1..Len(w) : a[i] = w[i]
    BY QueueMoves
  <2> HIDE DEF a
  <2>2. \A i \in DOMAIN a : \/ i \in DOMAIN w /\ a[i] = w[i]
                            \/ i = z /\ a[i].closes = m[1].closes
    <3>1. \A i \in DOMAIN a : i \in DOMAIN w \/ i = z
      BY <2>1
    <3>2. \A i \in DOMAIN w : a[i] = w[i]
      BY <2>1
    <3>3. a[z].closes = m[1].closes
      BY <1>1, <1>7, <2>1
    <3> HIDE DEF z
    <3> QED
      BY <3>1, <3>2, <3>3
  <2>3. 1 \in DOMAIN m /\ IsToken(m, 1)
    BY <1>1, <1>7 DEF IsToken
  <2> HIDE DEF z
  <2>4. \A k : AllLate(R, m, w, k) => AllLate(R, b, a, k)
    BY <1>4, <2>2, <2>3 DEF AllLate, IsToken
  <2>5. Single(R, b, a, n)
    <3> USE DEF TokensOf, Single
    <3>1. \A i, j \in DOMAIN a :
              IsToken(a, i) /\ IsToken(a, j) /\ a[i].closes = n /\ a[j].closes = n => i = j
      BY <2>2, <2>3 DEF IsToken
    <3>2. \A r \in R, i \in DOMAIN a : ~(r.closes = n /\ IsToken(a, i) /\ a[i].closes = n)
      BY <2>2, <2>3 DEF IsToken
    <3>3. \A i \in DOMAIN b, j \in DOMAIN a :
              ~(IsToken(b, i) /\ b[i].closes = n /\ IsToken(a, j) /\ a[j].closes = n)
      BY <1>2, <1>5, <2>2, <2>3 DEF IsToken
    <3> QED
      BY <1>5, <3>1, <3>2, <3>3
  <2>6. TokensOf(R, b, a, n, state)
    BY <2>4, <2>5 DEF TokensOf
  <2> QED
    BY <2>6 DEF a
<1> QED
  BY <1>6, <1>7 DEF b

\* The closes that requests and tokens carry are numbers.
LEMMA TokenTypes ==
    ASSUME WriteInv
    PROVE  /\ rs.closes \in Nat
           /\ \A r \in rs.requests : r.closes \in Nat
           /\ \A i \in DOMAIN main : IsToken(main, i) => main[i].closes \in Nat
           /\ \A i \in DOMAIN work : IsToken(work, i) => work[i].closes \in Nat
<1>1. rs \in Stream /\ main \in Seq(MainMessage) /\ work \in Seq(WorkMessage)
  BY WriteFacts
<1>2. \A i \in DOMAIN main : main[i] \in MainMessage
  BY <1>1, LenProperties, ElementOfSeq
<1>3. \A i \in DOMAIN work : work[i] \in WorkMessage
  BY <1>1, LenProperties, ElementOfSeq
<1> QED
  BY <1>1, <1>2, <1>3 DEF Stream, Request, MainMessage, WorkMessage, Notice, IsToken

\* A token of the present start finds the stream waiting for it.
LEMMA TokensFindStarting ==
    ASSUME WriteInv, TokenInv
    PROVE  TokenFindsStarting
BY TokenTypes DEF TokenInv, TokensOf, AllLate, TokenFindsStarting, IsToken

\* A token step over the same queues.
LEMMA StreamMoves ==
    ASSUME WriteInv, TokenInv, WriteInv', TokenStep(rs, rs'), main' = main, work' = work
    PROVE  TokenInv'
<1>1. rs \in Stream /\ rs' \in Stream /\ main \in Seq(MainMessage) /\ work \in Seq(WorkMessage)
  BY WriteFacts DEF WriteInv, TypeOK
<1>2. TokensOf(rs'.requests, main, work, rs'.closes, rs'.state)
  BY <1>1, TokenStepKeeps DEF TokenInv
<1> QED
  BY <1>2 DEF TokenInv

\* A token step by the operation at the head of the worker queue.
LEMMA WorkerMoves ==
    ASSUME WriteInv, TokenInv, WriteInv', TokenStep(rs, rs'),
           main' = main, work # <<>>, work' = Tail(work)
    PROVE  TokenInv'
<1>1. rs \in Stream /\ rs' \in Stream /\ main \in Seq(MainMessage) /\ work \in Seq(WorkMessage)
  BY WriteFacts DEF WriteInv, TypeOK
<1>2. TokensOf(rs.requests, main, Tail(work), rs.closes, rs.state)
  BY <1>1, TokensBehind DEF TokenInv
<1>3. Tail(work) \in Seq(WorkMessage)
  BY HeadOfWork
<1>4. TokensOf(rs'.requests, main, Tail(work), rs'.closes, rs'.state)
  BY <1>1, <1>2, <1>3, TokenStepKeeps
<1> QED
  BY <1>4 DEF TokenInv

\* The token that the stream takes was the only one of its start.
LEMMA TokenTakenTokens ==
    ASSUME WriteInv, TokenInv, TokenTaken
    PROVE  TokenInv'
<1>1. /\ WriteInv'
      /\ \/ TokenStep(rs, rs')
         \/ /\ Head(work).closes = rs.closes
            /\ rs'.closes = rs.closes /\ rs'.requests = rs.requests
  BY TokensFindStarting, TokenTakenWrites
<1>2. /\ work # <<>> /\ work' = Tail(work) /\ main' = main
      /\ Head(work).kind = "token"
  BY DEF TokenTaken, authVars
<1>3. CASE TokenStep(rs, rs')
  BY <1>1, <1>2, <1>3, WorkerMoves
<1>4. CASE /\ Head(work).closes = rs.closes
           /\ rs'.closes = rs.closes /\ rs'.requests = rs.requests
  <2> DEFINE n == rs.closes
  <2>1. main \in Seq(MainMessage) /\ work \in Seq(WorkMessage)
    BY WriteFacts
  <2>2. /\ Head(work) = work[1] /\ DOMAIN work = 1..Len(work) /\ Len(work) >= 1
        /\ Len(work) \in Nat /\ DOMAIN Tail(work) = 1..Len(work) - 1
        /\ \A i \in 1..Len(work) - 1 : Tail(work)[i] = work[i + 1]
    BY <1>2, <2>1, QueueMoves
  <2>3. 1 \in DOMAIN work /\ IsToken(work, 1) /\ work[1].closes = n
    BY <1>2, <1>4, <2>2 DEF IsToken
  <2>4. /\ TokensOf(rs.requests, main, Tail(work), n, rs.state)
        /\ \A i \in DOMAIN Tail(work) :
               IsToken(Tail(work), i) => Tail(work)[i].closes # n
    BY <1>2, <2>1, <2>3, TokensBehind DEF TokenInv
  <2>5. \A i \in DOMAIN Tail(work) :
            IsToken(Tail(work), i) => Tail(work)[i].closes \in Nat
    <3>1. \A i \in DOMAIN Tail(work) : i + 1 \in DOMAIN work /\ Tail(work)[i] = work[i + 1]
      BY <2>2
    <3> QED
      BY <3>1, TokenTypes DEF IsToken
  <2>6. \A r \in rs.requests : r.closes # n
    BY <2>3 DEF TokenInv, TokensOf, Single
  <2>7. \A i \in DOMAIN main : IsToken(main, i) => main[i].closes # n
    BY <2>3 DEF TokenInv, TokensOf, Single
  <2>8. AllLate(rs.requests, main, Tail(work), n)
    BY <2>4, <2>5, <2>6, <2>7, TokenTypes DEF TokensOf, AllLate
  <2>9. TokensOf(rs.requests, main, Tail(work), n, rs'.state)
    BY <2>4, <2>8 DEF TokensOf
  <2> QED
    BY <1>2, <1>4, <2>9 DEF TokenInv
<1> QED
  BY <1>1, <1>3, <1>4

LEMMA UserChangesTokens ==
    ASSUME WriteInv, TokenInv, UserChanges
    PROVE  TokenInv'
<1> DEFINE e == [kind |-> "notice", user |-> authUser']
<1>1. e \in MainMessage /\ e.kind # "token"
  <2>1. authUser' \in Account
    BY WriteFacts DEF UserChanges, Account, AuthTyped
  <2> QED
    BY <2>1 DEF MainMessage, Notice
<1>2. main' = Append(main, e) /\ work' = work /\ rs' = rs
  BY DEF UserChanges
<1> HIDE DEF e
<1> QED
  BY <1>1, <1>2, OthersJoin, WriteFacts DEF TokenInv

LEMMA IssueTokens ==
    ASSUME WriteInv, TokenInv, Issue
    PROVE  TokenInv'
<1> DEFINE e == [kind |-> "write", write |-> Len(author')]
<1>1. e \in WorkMessage /\ e.kind # "token"
  <2>1. author' \in Seq(Account) /\ Len(author') = Len(author) + 1 /\ Len(author) \in Nat
    BY AppendProperties DEF Issue, WriteInv, TypeOK
  <2>2. Len(author') \in Write
    BY <2>1, RemoteStoreAssumption DEF Issue, Write
  <2> QED
    BY <2>2 DEF WorkMessage
<1>2. work' = Append(work, e) /\ main' = main /\ rs' = rs
  BY DEF Issue, authVars
<1> HIDE DEF e
<1> QED
  BY <1>1, <1>2, OthersJoin, WriteFacts DEF TokenInv

LEMMA TokenAnswerTokens ==
    ASSUME WriteInv, TokenInv, NEW r \in rs.requests, NEW u \in Account \cup {Failed},
           TokenAnswer(r, u)
    PROVE  TokenInv'
<1> DEFINE e == [kind |-> "token", closes |-> r.closes, counter |-> r.counter, user |-> u]
<1>1. rs \in Stream /\ r \in Request
  BY WriteFacts DEF Stream
<1>2. e \in MainMessage /\ e.kind = "token" /\ e.closes = r.closes
  BY <1>1 DEF MainMessage, Request
<1>3. /\ main' = Append(main, e) /\ work' = work
      /\ rs'.requests = rs.requests \ {r} /\ rs'.closes = rs.closes /\ rs'.state = rs.state
  BY <1>1 DEF TokenAnswer, Stream
<1> HIDE DEF e
<1>4. main \in Seq(MainMessage) /\ work \in Seq(WorkMessage)
  BY WriteFacts
<1>5. TokensOf(rs.requests \ {r}, Append(main, e), work, rs.closes, rs.state)
  BY <1>2, <1>4, RequestMoves DEF TokenInv
<1> QED
  BY <1>3, <1>5 DEF TokenInv

LEMMA NoticeDeliveredTokens ==
    ASSUME WriteInv, TokenInv, NoticeDelivered
    PROVE  TokenInv'
<1> DEFINE e == Head(main)
<1>1. /\ main # <<>> /\ main' = Tail(main) /\ work' = Append(work, e) /\ rs' = rs
      /\ e.kind = "notice" /\ e \in MainMessage /\ Tail(main) \in Seq(MainMessage)
  BY HeadOfMain DEF NoticeDelivered
<1>2. e \in WorkMessage
  BY <1>1 DEF MainMessage, WorkMessage
<1> HIDE DEF e
<1>3. main \in Seq(MainMessage) /\ work \in Seq(WorkMessage)
  BY WriteFacts
<1>4. TokensOf(rs.requests, Tail(main), work, rs.closes, rs.state)
  BY <1>1, <1>3, MainHeadLeaves DEF TokenInv
<1>5. TokensOf(rs.requests, Tail(main), Append(work, e), rs.closes, rs.state)
  BY <1>1, <1>2, <1>3, <1>4, OthersJoin
<1> QED
  BY <1>1, <1>5 DEF TokenInv

LEMMA TokenDeliveredTokens ==
    ASSUME WriteInv, TokenInv, TokenDelivered
    PROVE  TokenInv'
<1> DEFINE t == Head(main)
           e == [kind |-> "token", closes |-> t.closes,
                 user |-> IF t.counter = known.counter THEN t.user ELSE Failed]
<1>1. /\ main # <<>> /\ main' = Tail(main) /\ work' = Append(work, e) /\ rs' = rs
      /\ t.kind = "token" /\ t \in MainMessage
  BY HeadOfMain DEF TokenDelivered
<1>2. e \in WorkMessage /\ e.closes = t.closes
  BY <1>1 DEF MainMessage, WorkMessage, Notice
<1>3. main \in Seq(MainMessage) /\ work \in Seq(WorkMessage)
  BY WriteFacts
<1> HIDE DEF e
<1>4. TokensOf(rs.requests, Tail(main), Append(work, e), rs.closes, rs.state)
  BY <1>1, <1>2, <1>3, MainHeadLeaves DEF TokenInv
<1> QED
  BY <1>1, <1>4 DEF TokenInv

\* A process that has just been launched has no token, or has asked for the first.
LEMMA CrashTokens ==
    ASSUME WriteInv, Dies
    PROVE  TokenInv'
<1>1. /\ rs'.closes = 0
      /\ \/ rs'.requests = {} /\ rs'.state # "Starting"
         \/ rs'.requests = {RequestOf(rs')} /\ rs'.state = "Starting"
  BY CrashWrites
<1>2. main' = <<>> /\ work' = <<>> /\ DOMAIN <<>> = {}
  BY EmptySeq, DiesFromOrder DEF Relaunched
<1>3. RequestOf(rs').closes = rs'.closes
  BY DEF RequestOf
<1>4. TokensOf(rs'.requests, <<>>, <<>>, 0, rs'.state)
  BY <1>1, <1>2, <1>3 DEF TokensOf, AllLate, Single
<1> QED
  BY <1>1, <1>2, <1>4 DEF TokenInv

-----------------------------------------------------------------------------
(***************************************************************************)
(* The theorems.                                                           *)
(***************************************************************************)

Inv == WriteInv /\ TokenInv

LEMMA InitInv == Init => Inv
BY InitWrites, InitTokens DEF Inv

LEMMA NextInv == Inv /\ [Next]_vars => Inv'
<1> SUFFICES ASSUME WriteInv, TokenInv, [Next]_vars PROVE WriteInv' /\ TokenInv'
  BY DEF Inv
<1>1. ASSUME NEW r \in rs.requests, TokenFetched(r) PROVE WriteInv' /\ TokenInv'
  <2>1. PICK u \in {r.user, authUser} : TokenAnswer(r, u)
    BY <1>1 DEF TokenFetched
  <2>2. u \in Account
    BY <2>1, WriteFacts DEF Stream, Request, AuthTyped
  <2> QED
    BY <1>1, <2>1, <2>2, TokenFetchedWrites, TokenAnswerTokens
<1>2. CASE NoticeDelivered
  BY <1>2, NoticeDeliveredWrites, NoticeDeliveredTokens
<1>3. CASE TokenDelivered
  BY <1>3, TokenDeliveredWrites, TokenDeliveredTokens
<1>4. CASE WriteStored
  BY <1>4, WriteStoredWrites, WorkerMoves DEF WriteStored, authVars
<1>5. CASE CredentialChanges
  BY <1>5, CredentialChangesWrites, WorkerMoves DEF CredentialChanges, authVars
<1>6. CASE TokenTaken
  BY <1>6, TokensFindStarting, TokenTakenWrites, TokenTakenTokens
<1>7. CASE HandshakeAnswered
  BY <1>7, HandshakeAnsweredWrites, StreamMoves DEF HandshakeAnswered, authVars
<1>8. CASE WriteAnswered
  BY <1>8, WriteAnsweredWrites, StreamMoves DEF WriteAnswered, authVars
<1>9. CASE CallRefused
  BY <1>9, CallRefusedWrites, StreamMoves DEF CallRefused, authVars
<1>10. CASE CallBroken
  BY <1>10, CallBrokenWrites, StreamMoves DEF CallBroken, authVars
<1>11. CASE BackoffElapsed
  BY <1>11, BackoffElapsedWrites, StreamMoves DEF BackoffElapsed, authVars
<1>12. CASE Serve
  <2>1. main' = main /\ work' = work
    BY <1>12 DEF Serve, authVars
  <2> QED
    BY <1>12, <2>1, ServeWrites DEF TokenInv
<1>13. CASE UserChanges
  BY <1>13, UserChangesWrites, UserChangesTokens
<1>14. CASE Issue
  BY <1>14, IssueWrites, IssueTokens
<1>15. CASE IdleTimeout
  BY <1>15, IdleTimeoutWrites, StreamMoves DEF IdleTimeout, authVars
<1>16. ASSUME NEW r \in rs.requests, TokenFails(r) PROVE WriteInv' /\ TokenInv'
  BY <1>16, TokenFailsWrites, TokenAnswerTokens DEF TokenFails
<1>17. CASE Break
  <2>1. main' = main /\ work' = work
    BY <1>17 DEF Break, authVars
  <2> QED
    BY <1>17, <2>1, BreakWrites DEF TokenInv
<1>18. CASE Dies
  BY <1>18, CrashWrites, CrashTokens
<1>19. CASE UNCHANGED vars
  <2>1. UNCHANGED <<author, authUser, main, known, work, user, disk, nextId, blocks, rs,
                    log, answers, ran, interrupted, notices, faults>>
    BY <1>19 DEF vars
  <2>2. TypeOK'
    BY <2>1 DEF WriteInv, TypeOK
  <2> QED
    BY <2>1, <2>2, ElsewhereKeeps DEF TokenInv
<1> QED
  BY <1>1, <1>2, <1>3, <1>4, <1>5, <1>6, <1>7, <1>8, <1>9, <1>10, <1>11, <1>12, <1>13,
     <1>14, <1>15, <1>16, <1>17, <1>18, <1>19
     DEF Next, MainStep, WorkerStep, Dies

\* What the invariant says of a call that is whole: all of the pipeline is on it.
LEMMA WholeCallCarries ==
    ASSUME WriteInv
    PROVE  CallCarriesPipeline
BY DEF WriteInv, Carried, Due, CanWrite, CallCarriesPipeline

LEMMA InvImplies ==
    Inv => /\ TypeOK /\ PipelineFollowsQueue /\ CallCarriesPipeline
           /\ WantedStreamIsStarted /\ IdleOnlyWhenDone /\ TokenFindsStarting
<1> SUFFICES ASSUME WriteInv, TokenInv
             PROVE  /\ TypeOK /\ PipelineFollowsQueue /\ CallCarriesPipeline
                    /\ WantedStreamIsStarted /\ IdleOnlyWhenDone /\ TokenFindsStarting
  BY DEF Inv
<1>1. TypeOK /\ PipelineFollowsQueue
  BY DEF WriteInv, PipelineFollowsQueue, FullFront
<1>2. WantedStreamIsStarted /\ IdleOnlyWhenDone
  BY DEF WriteInv, Served, Serving, WantedStreamIsStarted, ShouldStartWriteStream,
         IdleOnlyWhenDone
<1> QED
  BY <1>1, <1>2, WholeCallCarries, TokensFindStarting

LEMMA Invariance == Spec => []Inv
BY InitInv, NextInv, PTL DEF Spec

\* Every variable has its type, and the pipeline never outgrows its limit.
THEOREM TypesHold == Spec => []TypeOK
BY Invariance, InvImplies, PTL

\* The pipeline of AddToWritePipeline and FillWritePipeline is always the front of
\* the signed-in user's mutation queue, and as much of it as fits.
THEOREM PipelineIsFront == Spec => []PipelineFollowsQueue
BY Invariance, InvImplies, PTL

\* OnWriteStreamMutationResult: the answers on a call that is whole, and the writes
\* after them, are the pipeline, so an answer is always about the pipeline's head.
THEOREM AnswersMeetHead == Spec => []CallCarriesPipeline
BY Invariance, InvImplies, PTL

\* ShouldStartWriteStream never stays true: whoever leaves something to write has
\* the stream started, or backing off to be.
THEOREM StreamIsWanted == Spec => []WantedStreamIsStarted
BY Invariance, InvImplies, PTL

\* The idle timer of the stream is set only while the pipeline is empty, so that
\* OnWriteStreamClose may assert it of a graceful stop.
THEOREM IdleIsDone == Spec => []IdleOnlyWhenDone
BY Invariance, InvImplies, PTL

\* ResumeStartWithCredentials: a token whose close count is that of the stream
\* finds it in state Starting.
THEOREM TokensAreAwaited == Spec => []TokenFindsStarting
BY Invariance, InvImplies, PTL

-----------------------------------------------------------------------------
(***************************************************************************)
(* Completion blocks.  Batch numbers come back after a change of user, but *)
(* a new batch takes over the block of its number.                         *)
(***************************************************************************)

\* A block under the number of a batch on the disk is that batch's.
BlocksMatch ==
    \A c \in blocks : \A i \in DOMAIN disk[c.user] :
        disk[c.user][i].id = c.id => disk[c.user][i].write = c.write

BlockInv == BlocksMatch /\ BlocksRunForTheirWrite

LEMMA InitBlocks == Init => BlockInv
BY DEF Init, BlockInv, BlocksMatch, BlocksRunForTheirWrite

LEMMA WriteStoredBlocks ==
    ASSUME WriteInv, BlockInv, WriteStored
    PROVE  BlockInv'
<1> DEFINE n == Head(work).write
           q == disk[user]
           b == Batch(nextId, n)
<1>1. /\ disk' = [disk EXCEPT ![user] = Append(q, b)]
      /\ blocks' = SetBlock(nextId, n) /\ ran' = ran
  BY DEF WriteStored
<1>2. b.id = nextId /\ b.write = n /\ b \in StoredBatch
  <2>1. n \in Write
    BY HeadOfWork DEF WriteStored, WorkMessage, Notice
  <2> QED
    BY <2>1, WriteFacts DEF Batch, StoredBatch
<1>3. /\ blocks \subseteq [user : Account, id : Nat \ {0}, write : Write]
      /\ disk \in [Account -> Seq(StoredBatch)] /\ user \in Account
  BY WriteFacts DEF WriteInv, TypeOK
<1> HIDE DEF n, b
<1>4. q \in Seq(StoredBatch) /\ Below(q, nextId) /\ nextId \in Nat
  BY WriteFacts
<1>5. /\ Len(q) \in Nat /\ DOMAIN q = 1..Len(q)
      /\ DOMAIN Append(q, b) = 1..Len(q) + 1
      /\ Append(q, b)[Len(q) + 1] = b
      /\ \A i \in 1..Len(q) : Append(q, b)[i] = q[i]
  BY <1>2, <1>4, QueueMoves
<1>6. \A i \in DOMAIN q : q[i].id # nextId
  BY <1>4, <1>5, QueueFacts DEF Below
<1>7. ASSUME NEW c \in blocks', NEW i \in DOMAIN disk'[c.user], disk'[c.user][i].id = c.id
      PROVE  disk'[c.user][i].write = c.write
  <2>1. \/ c \in blocks /\ ~(c.user = user /\ c.id = nextId)
        \/ c = [user |-> user, id |-> nextId, write |-> n]
    BY <1>1 DEF SetBlock
  <2>2. CASE c.user # user
    <3>1. c \in blocks /\ disk'[c.user] = disk[c.user]
      BY <1>1, <1>3, <2>1, <2>2
    <3> QED
      BY <1>7, <3>1 DEF BlockInv, BlocksMatch
  <2>3. CASE c.user = user
    <3>1. disk'[c.user] = Append(q, b)
      BY <1>1, <1>3, <2>3
    <3>2. i \in 1..Len(q) \/ i = Len(q) + 1
      BY <1>5, <1>7, <3>1
    <3>3. CASE i \in 1..Len(q)
      <4>1. q[i].id = c.id /\ disk'[c.user][i] = q[i]
        BY <1>5, <1>7, <3>1, <3>3
      <4>2. c \in blocks
        BY <1>5, <1>6, <2>1, <3>3, <4>1
      <4>3. i \in DOMAIN disk[c.user] /\ disk[c.user][i] = q[i]
        BY <1>5, <2>3, <3>3
      <4>4. disk[c.user][i].write = c.write
        BY <4>1, <4>2, <4>3 DEF BlockInv, BlocksMatch
      <4> QED
        BY <4>1, <4>3, <4>4
    <3>4. CASE i = Len(q) + 1
      <4>1. disk'[c.user][i] = b /\ c.id = nextId
        BY <1>2, <1>5, <1>7, <3>1, <3>4
      <4>2. c.write = n
        BY <2>1, <2>3, <4>1
      <4> QED
        BY <1>2, <4>1, <4>2
    <3> QED
      BY <3>2, <3>3, <3>4
  <2> QED
    BY <2>2, <2>3
<1>8. BlocksMatch'
  BY <1>7 DEF BlocksMatch
<1> QED
  BY <1>1, <1>8 DEF BlockInv, BlocksRunForTheirWrite

\* The head's block was given with the head's write.
LEMMA HeadBlocksMatch ==
    ASSUME WriteInv, BlockInv, rs.pipeline # <<>>
    PROVE  \A c \in HeadBlocks : c.write = Head(rs.pipeline).write
<1> DEFINE q == disk[user]
           b == Head(rs.pipeline)
<1>1. q \in Seq(StoredBatch) /\ Ordered(q) /\ rs.pipeline = FullFront(q)
  BY WriteFacts
<1> HIDE DEF q
<1>2. q # <<>> /\ b = Head(q)
  BY <1>1, AnsweredQueue
<1>3. 1 \in DOMAIN q /\ Head(q) = q[1]
  BY <1>1, <1>2, QueueMoves
<1>4. SUFFICES ASSUME NEW c \in blocks, c.user = user, c.id = b.id PROVE c.write = b.write
  BY DEF HeadBlocks
<1> QED
  BY <1>2, <1>3, <1>4 DEF BlockInv, BlocksMatch, q

LEMMA HeadLeavesBlocks ==
    ASSUME WriteInv, BlockInv, NEW done, HeadLeaves(done), rs.pipeline # <<>>,
           blocks' \subseteq blocks
    PROVE  BlocksMatch'
<1> DEFINE q == disk[user]
           b == Head(rs.pipeline)
<1>1. q \in Seq(StoredBatch) /\ Ordered(q) /\ rs.pipeline = FullFront(q)
  BY WriteFacts
<1>2. disk' = [disk EXCEPT ![user] = Without(q, b.id)]
  BY DEF HeadLeaves
<1> HIDE DEF q, b
<1>3. q # <<>> /\ b = Head(q) /\ Without(q, b.id) = Tail(q)
  BY <1>1, AnsweredQueue DEF b
<1>4. /\ Len(q) \in Nat /\ DOMAIN q = 1..Len(q) /\ Len(q) >= 1 /\ Head(q) = q[1]
      /\ DOMAIN Tail(q) = 1..Len(q) - 1
      /\ \A i \in 1..Len(q) - 1 : Tail(q)[i] = q[i + 1]
  BY <1>1, <1>3, QueueMoves
<1>5. /\ blocks \subseteq [user : Account, id : Nat \ {0}, write : Write]
      /\ disk \in [Account -> Seq(StoredBatch)] /\ user \in Account
  BY WriteFacts DEF WriteInv, TypeOK
<1>7. ASSUME NEW c \in blocks', NEW i \in DOMAIN disk'[c.user], disk'[c.user][i].id = c.id
      PROVE  disk'[c.user][i].write = c.write
  <2>1. c \in blocks
    OBVIOUS
  <2>2. CASE c.user # user
    <3>1. disk'[c.user] = disk[c.user]
      BY <1>2, <1>5, <2>1, <2>2
    <3> QED
      BY <1>7, <2>1, <3>1 DEF BlockInv, BlocksMatch
  <2>3. CASE c.user = user
    <3>1. disk'[c.user] = Tail(q)
      BY <1>2, <1>3, <1>5, <2>3
    <3>2. i + 1 \in DOMAIN q /\ Tail(q)[i] = q[i + 1]
      BY <1>4, <1>7, <3>1
    <3>3. q[i + 1].id = c.id => q[i + 1].write = c.write
      BY <2>1, <2>3, <3>2 DEF BlockInv, BlocksMatch, q
    <3> QED
      BY <1>7, <3>1, <3>2, <3>3
  <2> QED
    BY <2>2, <2>3
<1> QED
  BY <1>7 DEF BlocksMatch

LEMMA HeadCalledBlocks ==
    ASSUME WriteInv, BlockInv, HeadCalled, rs.pipeline # <<>>
    PROVE  BlocksRunForTheirWrite'
BY HeadBlocksMatch DEF HeadCalled, BlockInv, BlocksRunForTheirWrite

LEMMA HeadAnsweredBlocks ==
    ASSUME WriteInv, BlockInv, NEW done, HeadAnswered(done), rs.pipeline # <<>>
    PROVE  BlockInv'
<1>1. HeadLeaves(done) /\ HeadCalled /\ blocks' \subseteq blocks
  BY DEF HeadAnswered
<1> QED
  BY <1>1, HeadLeavesBlocks, HeadCalledBlocks DEF BlockInv

LEMMA CrashBlocks ==
    ASSUME WriteInv, BlockInv, Dies
    PROVE  BlockInv'
<1>1. blocks' = {}
  BY DiesFromOrder DEF Relaunched
<1>2. BlocksMatch'
  BY <1>1 DEF BlocksMatch
<1>3. CASE Crash \/ CrashBeforeBlock
  BY <1>2, <1>3 DEF Crash, CrashBeforeBlock, BlockInv, BlocksRunForTheirWrite
<1>4. CASE CrashAfterBlock
  BY <1>2, <1>4, HeadIsThere, HeadCalledBlocks DEF CrashAfterBlock, BlockInv
<1> QED
  BY <1>3, <1>4 DEF Dies

\* Steps that leave the disk and the blocks alone.
LEMMA OthersKeepBlocks ==
    ASSUME BlockInv, disk' = disk, ran' = ran, blocks' = blocks
    PROVE  BlockInv'
BY DEF BlockInv, BlocksMatch, BlocksRunForTheirWrite

LEMMA NextBlocks == WriteInv /\ BlockInv /\ [Next]_vars => BlockInv'
<1> SUFFICES ASSUME WriteInv, BlockInv, [Next]_vars PROVE BlockInv'
  OBVIOUS
<1>1. CASE WriteStored
  BY <1>1, WriteStoredBlocks
<1>2. CASE WriteAnswered
  <2>1. rs.pipeline # <<>>
    BY <1>2, HeadIsThere DEF WriteAnswered
  <2> QED
    BY <1>2, <2>1, HeadAnsweredBlocks DEF WriteAnswered
<1>3. CASE CallRefused
  BY <1>3, HeadAnsweredBlocks DEF CallRefused, RefusalShown
<1>4. CASE MainStep \/ \E r \in rs.requests : TokenFails(r)
  BY <1>4, OthersKeepBlocks
     DEF MainStep, TokenFetched, TokenFails, TokenAnswer, NoticeDelivered, TokenDelivered,
         localVars
<1>5. CASE \/ CredentialChanges \/ TokenTaken \/ HandshakeAnswered
           \/ CallBroken \/ BackoffElapsed
  BY <1>5, OthersKeepBlocks
     DEF CredentialChanges, TokenTaken, HandshakeAnswered, CallBroken, BackoffElapsed, localVars
<1>6. CASE Serve \/ UserChanges \/ Issue \/ IdleTimeout \/ Break
  BY <1>6, OthersKeepBlocks DEF Serve, UserChanges, Issue, IdleTimeout, Break, localVars
<1>7. CASE UNCHANGED vars
  BY <1>7, OthersKeepBlocks DEF vars
<1>8. CASE Dies
  BY <1>8, CrashBlocks
<1> QED
  BY <1>1, <1>2, <1>3, <1>4, <1>5, <1>6, <1>7, <1>8 DEF Next, WorkerStep, Dies

\* The sync engine's completion block runs for the write it came with, though
\* LoadNextBatchIdFromDb hands out numbers that were used before.
THEOREM BlocksAreTheirs == Spec => []BlocksRunForTheirWrite
<1>1. Inv /\ BlockInv /\ [Next]_vars => BlockInv'
  BY NextBlocks DEF Inv
<1>2. BlockInv => BlocksRunForTheirWrite
  BY DEF BlockInv
<1> QED
  BY <1>1, <1>2, InitBlocks, Invariance, PTL DEF Spec

=============================================================================
