----------------------------- MODULE WriteLog_proofs -----------------------------
(***************************************************************************)
(* RemoteStore keeps the promise of WriteLog: what the backend applies is  *)
(* its author's, is not answered yet, and is applied in order.             *)
(***************************************************************************)
EXTENDS RemoteStore_proofs, FiniteSetTheorems

-----------------------------------------------------------------------------
(***************************************************************************)
(* What an operation does to the call.                                     *)
(***************************************************************************)

\* It goes on with it, and nothing comes or goes on it ...
SameCall(s, r) ==
    /\ r.state = "Open" <=> s.state = "Open"
    /\ r.handshake = s.handshake /\ r.as = s.as
    /\ r.results = s.results /\ r.ended = s.ended

\* ... or has given it up.
GivenUp(r) == r.state # "Open" /\ ~r.handshake

LEMMA LaunchedSame ==
    ASSUME NEW s \in Stream, NEW r, Launched(s, r)
    PROVE  SameCall(s, r)
BY DEF Launched, SameCall, Stream, ShouldStartWriteStream, IsStarted

LEMMA FillSame ==
    ASSUME NEW s \in Stream, NEW q \in Seq(StoredBatch), Ordered(q),
           FrontOf(s.pipeline, q), Serving(s), Carried(s)
    PROVE  SameCall(s, FillWritePipeline(s, q))
<1> DEFINE f == Fresh(s.pipeline, q)
           t == AddToWritePipeline(s, f)
           m == IF t.pipeline = <<>> THEN MarkIdle(t) ELSE t
<1>1. f \in Seq(StoredBatch)
  BY FreshFills
<1>2. FillWritePipeline(s, q) = StartIfNeeded(m)
  BY DEF FillWritePipeline
<1> HIDE DEF f
<1>3. t \in Stream /\ Carried(t)
  BY <1>1, AddedKeeps
<1>4. SameCall(s, t)
  BY DEF AddToWritePipeline, CanWrite, Send, SameCall, Stream
<1> HIDE DEF t
<1>5. m \in Stream /\ SameCall(t, m)
  <2>1. CASE t.pipeline # <<>>
    BY <1>3, <2>1 DEF SameCall
  <2>2. CASE t.pipeline = <<>>
    <3>1. MarkIdle(t) \in Stream
      BY <1>3, MarkedKeeps
    <3>2. SameCall(t, MarkIdle(t))
      BY <1>3 DEF MarkIdle, SameCall, Stream
    <3> QED
      BY <2>2, <3>1, <3>2
  <2> QED
    BY <2>1, <2>2
<1> HIDE DEF m
<1>6. SameCall(m, StartIfNeeded(m))
  BY <1>5, StartLaunches, LaunchedSame
<1> QED
  BY <1>2, <1>4, <1>5, <1>6 DEF SameCall

LEMMA StopGivesUp ==
    ASSUME NEW s \in Stream, Served(s), Carried(s)
    PROVE  GivenUp(Stop(s))
BY StopKeeps DEF GivenUp, IsStarted

LEMMA RestartGivesUp ==
    ASSUME NEW s \in Stream, Served(s), Carried(s),
           NEW q \in Seq(StoredBatch), Ordered(q)
    PROVE  GivenUp(Restart(s, q))
<1> DEFINE t == Stop(s)
           e == [t EXCEPT !.pipeline = <<>>]
<1>1. t \in Stream /\ ~IsStarted(t) /\ ~t.handshake /\ Serving(t) /\ Carried(t)
  BY StopKeeps
<1> HIDE DEF t
<1>2. /\ e \in Stream /\ e.pipeline = <<>> /\ GivenUp(e)
      /\ Serving(e) /\ Carried(e)
  BY <1>1, EmptySeq DEF Stream, IsStarted, Serving, Carried, CanWrite, GivenUp
<1>3. FrontOf(e.pipeline, q)
  BY <1>2, FrontIsLimited
<1> HIDE DEF e
<1>4. SameCall(e, FillWritePipeline(e, q))
  BY <1>2, <1>3, FillSame
<1>5. Restart(s, q) = FillWritePipeline(e, q)
  BY DEF Restart, e, t
<1> QED
  BY <1>2, <1>4, <1>5 DEF SameCall, GivenUp

LEMMA ErrorGivesUp ==
    ASSUME NEW s \in Stream
    PROVE  GivenUp(ClosedByError(s))
<1> DEFINE c == Closed(s, "Error")
           t == StartIfNeeded(c)
<1>1. c \in Stream /\ c.state = "Error"
  BY ClosedKeeps
<1>2. ClosedByError(s) = Notified(t)
  BY DEF ClosedByError
<1> HIDE DEF c
<1>3. Launched(c, t) /\ SameCall(c, t)
  BY <1>1, StartLaunches, LaunchedSame
<1>4. Notified(t).state = t.state /\ ~Notified(t).handshake
  BY <1>1, <1>3 DEF Launched, Notified, Stream
<1> QED
  BY <1>1, <1>2, <1>3, <1>4 DEF SameCall, GivenUp

LEMMA RefusalGivesUp ==
    ASSUME NEW s \in Stream, s.pipeline # <<>>,
           NEW q \in Seq(StoredBatch), Ordered(q), FrontOf(Tail(s.pipeline), q), AuthTyped
    PROVE  GivenUp(ClosedByRefusal(s, q))
<1> DEFINE c == Closed(s, "Initial")
           e == [c EXCEPT !.pipeline = Tail(@)]
           f == FillWritePipeline(e, q)
           t == StartIfNeeded(f)
<1>1. /\ c \in Stream
      /\ c.pipeline = s.pipeline /\ c.state = "Initial"
      /\ Serving(c) /\ Carried(c)
  BY ClosedKeeps
<1> HIDE DEF c
<1>2. Tail(c.pipeline) \in Seq(Message)
  BY <1>1, HeadTailProperties DEF Stream
<1>3. /\ e \in Stream /\ e.pipeline = Tail(s.pipeline) /\ e.state = "Initial"
      /\ Serving(e) /\ Carried(e)
  BY <1>1, <1>2 DEF Stream, Serving, Carried, CanWrite, IsStarted
<1> HIDE DEF e
<1>4. f \in Stream /\ f.state # "Open"
  BY <1>3, FillServes
<1> HIDE DEF f
<1>5. Launched(f, t) /\ SameCall(f, t)
  BY <1>4, StartLaunches, LaunchedSame
<1>6. Notified(t).state = t.state /\ ~Notified(t).handshake
  BY <1>4, <1>5 DEF Launched, Notified, Stream
<1>7. ClosedByRefusal(s, q) = Notified(t)
  BY DEF ClosedByRefusal, f, e, c
<1> QED
  BY <1>4, <1>5, <1>6, <1>7 DEF SameCall, GivenUp

-----------------------------------------------------------------------------
(***************************************************************************)
(* Users in a queue: who the user is when a message's turn comes, for one  *)
(* who handles the notices before it, and is u before the first.           *)
(***************************************************************************)

IsNotice(q, i) == q[i].kind = "notice"
IsWrite(q, i) == q[i].kind = "write"

\* No notice from i to j.
NoNotice(q, i, j) == \A k \in i..j : ~IsNotice(q, k)

UserBefore(q, u, i, a) ==
    \/ a = u /\ NoNotice(q, 1, i - 1)
    \/ \E j \in 1..i - 1 : IsNotice(q, j) /\ q[j].user = a /\ NoNotice(q, j + 1, i - 1)

\* A message at the end of the queue changes nothing for those before it, and
\* is the last word if it is a notice.
LEMMA JoinsBehind ==
    ASSUME NEW T, NEW q \in Seq(T), NEW e \in T, NEW u, NEW a
    PROVE  /\ \A i \in 1..Len(q) + 1 : UserBefore(q, u, i, a) => UserBefore(Append(q, e), u, i, a)
           /\ \A i \in 0..Len(q) : NoNotice(Append(q, e), 1, i) => NoNotice(q, 1, i)
           /\ NoNotice(Append(q, e), 1, Len(q) + 1) => NoNotice(q, 1, Len(q)) /\ e.kind # "notice"
           /\ e.kind = "notice" => UserBefore(Append(q, e), u, Len(q) + 2, e.user)
           /\ e.kind # "notice" /\ UserBefore(q, u, Len(q) + 1, a) =>
                  UserBefore(Append(q, e), u, Len(q) + 2, a)
<1> DEFINE p == Append(q, e)
           n == Len(q)
<1>1. /\ n \in Nat /\ p[n + 1] = e
      /\ \A i \in 1..n : p[i] = q[i]
  BY QueueMoves
<1> HIDE DEF p, n
<1>2. \A i \in 1..n : IsNotice(p, i) <=> IsNotice(q, i)
  BY <1>1 DEF IsNotice
<1>3. ASSUME NEW i \in 1..n + 1, UserBefore(q, u, i, a)
      PROVE  UserBefore(p, u, i, a)
  <2>1. CASE a = u /\ NoNotice(q, 1, i - 1)
    BY <1>1, <1>2, <2>1 DEF UserBefore, NoNotice
  <2>2. ASSUME NEW j \in 1..i - 1, IsNotice(q, j), q[j].user = a, NoNotice(q, j + 1, i - 1)
        PROVE  UserBefore(p, u, i, a)
    <3>1. IsNotice(p, j) /\ p[j].user = a
      BY <1>1, <1>2, <2>2
    <3>2. NoNotice(p, j + 1, i - 1)
      BY <1>1, <1>2, <2>2 DEF NoNotice
    <3> QED
      BY <2>2, <3>1, <3>2 DEF UserBefore
  <2> QED
    BY <1>3, <2>1, <2>2 DEF UserBefore
<1>4. ASSUME NEW i \in 0..n, NoNotice(p, 1, i)
      PROVE  NoNotice(q, 1, i)
  BY <1>1, <1>2, <1>4 DEF NoNotice
<1>5. ASSUME NoNotice(p, 1, n + 1)
      PROVE  NoNotice(q, 1, n) /\ e.kind # "notice"
  BY <1>1, <1>2, <1>5 DEF NoNotice, IsNotice
<1>6. ASSUME e.kind = "notice"
      PROVE  UserBefore(p, u, n + 2, e.user)
  <2>1. n + 1 \in 1..(n + 2) - 1 /\ IsNotice(p, n + 1) /\ p[n + 1].user = e.user
    BY <1>1, <1>6 DEF IsNotice
  <2>2. NoNotice(p, (n + 1) + 1, (n + 2) - 1)
    BY <1>1 DEF NoNotice
  <2> QED
    BY <2>1, <2>2 DEF UserBefore
<1>7. ASSUME e.kind # "notice", UserBefore(q, u, n + 1, a)
      PROVE  UserBefore(p, u, n + 2, a)
  <2>1. ~IsNotice(p, n + 1)
    BY <1>1, <1>7 DEF IsNotice
  <2>2. CASE a = u /\ NoNotice(q, 1, (n + 1) - 1)
    <3>1. NoNotice(p, 1, (n + 2) - 1)
      BY <1>1, <1>2, <2>1, <2>2 DEF NoNotice
    <3> QED
      BY <2>2, <3>1 DEF UserBefore
  <2>3. ASSUME NEW j \in 1..(n + 1) - 1, IsNotice(q, j), q[j].user = a,
               NoNotice(q, j + 1, (n + 1) - 1)
        PROVE  UserBefore(p, u, n + 2, a)
    <3>1. j \in 1..(n + 2) - 1 /\ IsNotice(p, j) /\ p[j].user = a
      BY <1>1, <1>2, <2>3
    <3>2. NoNotice(p, j + 1, (n + 2) - 1)
      BY <1>1, <1>2, <2>1, <2>3 DEF NoNotice
    <3> QED
      BY <3>1, <3>2 DEF UserBefore
  <2> QED
    BY <1>7, <2>2, <2>3 DEF UserBefore
<1> QED
  BY <1>3, <1>4, <1>5, <1>6, <1>7 DEF p, n

\* The head of the queue is handled: whoever it makes the user is so for the rest.
LEMMA HeadIsHandled ==
    ASSUME NEW T, NEW q \in Seq(T), q # <<>>, NEW u, NEW a
    PROVE  LET v == IF Head(q).kind = "notice" THEN Head(q).user ELSE u
           IN  /\ \A i \in 1..Len(q) : UserBefore(q, u, i + 1, a) => UserBefore(Tail(q), v, i, a)
               /\ \A i \in 0..Len(q) - 1 :
                     Head(q).kind # "notice" /\ NoNotice(Tail(q), 1, i) => NoNotice(q, 1, i + 1)
<1> DEFINE p == Tail(q)
           n == Len(q)
           v == IF Head(q).kind = "notice" THEN Head(q).user ELSE u
<1>1. /\ n \in Nat /\ n >= 1 /\ Head(q) = q[1]
      /\ \A i \in 1..n - 1 : p[i] = q[i + 1]
  BY QueueMoves
<1> HIDE DEF p, n
<1>2. \A i \in 1..n - 1 : IsNotice(p, i) <=> IsNotice(q, i + 1)
  BY <1>1 DEF IsNotice
<1>3. \A i \in 1..n, j \in 1..n : NoNotice(q, j + 1, i) => NoNotice(p, j, i - 1)
  <2> SUFFICES ASSUME NEW i \in 1..n, NEW j \in 1..n, NoNotice(q, j + 1, i), NEW k \in j..i - 1
               PROVE  ~IsNotice(p, k)
    BY DEF NoNotice
  <2>1. k + 1 \in j + 1..i /\ k \in 1..n - 1
    BY <1>1
  <2> QED
    BY <1>2, <2>1 DEF NoNotice
<1>4. ASSUME NEW i \in 1..n, UserBefore(q, u, i + 1, a)
      PROVE  UserBefore(p, v, i, a)
  <2>0. (i + 1) - 1 = i
    BY <1>1
  <2>1. CASE a = u /\ NoNotice(q, 1, i)
    <3>1. ~IsNotice(q, 1) /\ NoNotice(q, 1 + 1, i)
      BY <1>1, <2>1 DEF NoNotice
    <3>2. NoNotice(p, 1, i - 1)
      BY <1>1, <1>3, <3>1
    <3>3. v = u
      BY <1>1, <3>1 DEF IsNotice
    <3> QED
      BY <2>1, <3>2, <3>3 DEF UserBefore
  <2>2. ASSUME NEW j \in 1..i, IsNotice(q, j), q[j].user = a, NoNotice(q, j + 1, i)
        PROVE  UserBefore(p, v, i, a)
    <3>1. CASE j = 1
      <4>1. a = v
        BY <1>1, <2>2, <3>1 DEF IsNotice
      <4>2. NoNotice(p, 1, i - 1)
        BY <1>1, <1>3, <2>2, <3>1
      <4> QED
        BY <4>1, <4>2 DEF UserBefore
    <3>2. CASE j # 1
      <4> DEFINE k == j - 1
      <4>1. k \in 1..i - 1 /\ k \in 1..n - 1 /\ k + 1 = j /\ j \in 1..n
        BY <1>1, <3>2
      <4>2. IsNotice(p, k) /\ p[k].user = a
        BY <1>1, <1>2, <2>2, <4>1
      <4>3. NoNotice(p, k + 1, i - 1)
        BY <1>3, <2>2, <4>1
      <4> QED
        BY <4>1, <4>2, <4>3 DEF UserBefore
    <3> QED
      BY <3>1, <3>2
  <2> QED
    BY <1>4, <2>0, <2>1, <2>2 DEF UserBefore
<1>5. ASSUME NEW i \in 0..n - 1, Head(q).kind # "notice", NoNotice(p, 1, i)
      PROVE  NoNotice(q, 1, i + 1)
  <2> SUFFICES ASSUME NEW k \in 1..i + 1 PROVE ~IsNotice(q, k)
    BY DEF NoNotice
  <2>1. CASE k = 1
    BY <1>1, <1>5, <2>1 DEF IsNotice
  <2>2. CASE k # 1
    <3>1. k - 1 \in 1..i /\ k - 1 \in 1..n - 1 /\ (k - 1) + 1 = k
      BY <1>1, <2>2
    <3> QED
      BY <1>2, <1>5, <3>1 DEF NoNotice
  <2> QED
    BY <2>1, <2>2
<1> QED
  BY <1>4, <1>5 DEF p, n

-----------------------------------------------------------------------------
(***************************************************************************)
(* The inductive invariant: whose writes, tokens and calls these are.      *)
(***************************************************************************)

\* The sync engine's user becomes the provider's when the worker queue has run; a
\* write on it was issued by the user it will find there, and a token that passed
\* the counter is that user's.
WorkInv ==
    /\ UserBefore(work, user, Len(work) + 1, known.user)
    /\ \A i \in DOMAIN work :
           IsWrite(work, i) =>
               /\ work[i].write \in DOMAIN author
               /\ UserBefore(work, user, i, author[work[i].write])
    /\ \A i \in DOMAIN work :
           IsToken(work, i) /\ work[i].user # Failed => UserBefore(work, user, i, work[i].user)

\* The provider's user becomes Auth's when the main queue has run. A token request
\* of the present count, and a token that no notice precedes, are the provider's user's.
MainInv ==
    /\ UserBefore(main, known.user, Len(main) + 1, authUser)
    /\ \A i \in DOMAIN main :
           IsToken(main, i) =>
               /\ main[i].counter <= known.counter
               /\ main[i].counter = known.counter /\ main[i].user # Failed
                      /\ NoNotice(main, 1, i - 1) => main[i].user = known.user
    /\ \A r \in rs.requests :
           /\ r.counter <= known.counter
           /\ r.counter = known.counter /\ NoNotice(main, 1, Len(main)) => r.user = known.user

\* A queue holds its owner's writes, the open call has its user's token, and the
\* backend applied each write for its author.
DiskAuthors ==
    \A u \in Account : \A i \in DOMAIN disk[u] :
        disk[u][i].write \in DOMAIN author /\ author[disk[u][i].write] = u
CallUser == rs.state = "Open" => rs.as = user
LogAuthors ==
    \A i \in DOMAIN log : log[i].write \in DOMAIN author /\ log[i].as = author[log[i].write]

AuthorInv == WorkInv /\ MainInv /\ DiskAuthors /\ CallUser /\ LogAuthors

\* What a step may do to the list of authors.
AuthorsStay == \A n \in DOMAIN author : n \in DOMAIN author' /\ author'[n] = author[n]

LEMMA QueueDomains ==
    ASSUME WriteInv
    PROVE  /\ Len(work) \in Nat /\ DOMAIN work = 1..Len(work)
           /\ Len(main) \in Nat /\ DOMAIN main = 1..Len(main)
           /\ \A i \in 1..Len(work) : work[i] \in WorkMessage
           /\ \A i \in 1..Len(main) : main[i] \in MainMessage
BY WriteFacts, QueueMoves, ElementOfSeq

\* A message that says nothing wrong joins the worker queue.
LEMMA WorkJoined ==
    ASSUME WriteInv, WorkInv, NEW e \in WorkMessage,
           work' = Append(work, e), user' = user, AuthorsStay,
           known'.user = IF e.kind = "notice" THEN e.user ELSE known.user,
           e.kind = "write" => e.write \in DOMAIN author' /\ author'[e.write] = known.user,
           e.kind = "token" /\ e.user # Failed => e.user = known.user
    PROVE  WorkInv'
<1> DEFINE n == Len(work)
<1>1. work \in Seq(WorkMessage)
  BY WriteFacts
<1>2. /\ n \in Nat /\ DOMAIN work = 1..n /\ DOMAIN work' = 1..n + 1 /\ work'[n + 1] = e
      /\ \A i \in 1..n : work'[i] = work[i]
  BY <1>1, QueueMoves
<1>3. Len(work') = n + 1
  BY <1>1, AppendProperties
<1>4. \A a, i : i \in 1..n + 1 /\ UserBefore(work, user, i, a) => UserBefore(work', user', i, a)
  BY <1>1, JoinsBehind
<1>5. UserBefore(work', user', Len(work') + 1, known'.user)
  <2>1. Len(work') + 1 = n + 2
    BY <1>2, <1>3
  <2>2. UserBefore(work, user, n + 1, known.user)
    BY DEF WorkInv
  <2>3. CASE e.kind = "notice"
    BY <1>1, <2>1, <2>3, JoinsBehind
  <2>4. CASE e.kind # "notice"
    BY <1>1, <2>1, <2>2, <2>4, JoinsBehind
  <2> QED
    BY <2>3, <2>4
<1>6. ASSUME NEW i \in DOMAIN work', IsWrite(work', i)
      PROVE  work'[i].write \in DOMAIN author' /\ UserBefore(work', user', i, author'[work'[i].write])
  <2>1. CASE i \in 1..n
    <3>1. work'[i] = work[i] /\ i \in DOMAIN work /\ IsWrite(work, i)
      BY <1>2, <1>6, <2>1 DEF IsWrite
    <3>2. work[i].write \in DOMAIN author /\ UserBefore(work, user, i, author[work[i].write])
      BY <3>1 DEF WorkInv
    <3>3. i \in 1..n + 1
      BY <1>2, <2>1
    <3> QED
      BY <1>4, <3>1, <3>2, <3>3 DEF AuthorsStay
  <2>2. CASE i = n + 1
    <3>1. work'[i] = e /\ e.kind = "write"
      BY <1>2, <1>6, <2>2 DEF IsWrite
    <3>2. UserBefore(work, user, n + 1, known.user) /\ n + 1 \in 1..n + 1
      BY <1>2 DEF WorkInv
    <3> QED
      BY <1>4, <2>2, <3>1, <3>2
  <2> QED
    BY <1>2, <1>6, <2>1, <2>2
<1>7. ASSUME NEW i \in DOMAIN work', IsToken(work', i), work'[i].user # Failed
      PROVE  UserBefore(work', user', i, work'[i].user)
  <2>1. CASE i \in 1..n
    <3>1. work'[i] = work[i] /\ i \in DOMAIN work /\ IsToken(work, i)
      BY <1>2, <1>7, <2>1 DEF IsToken
    <3>2. UserBefore(work, user, i, work[i].user) /\ i \in 1..n + 1
      BY <1>2, <1>7, <2>1, <3>1 DEF WorkInv
    <3> QED
      BY <1>4, <3>1, <3>2
  <2>2. CASE i = n + 1
    <3>1. work'[i] = e /\ e.kind = "token" /\ e.user = known.user
      BY <1>2, <1>7, <2>2 DEF IsToken
    <3>2. UserBefore(work, user, n + 1, known.user) /\ n + 1 \in 1..n + 1
      BY <1>2 DEF WorkInv
    <3> QED
      BY <1>4, <2>2, <3>1, <3>2
  <2> QED
    BY <1>2, <1>7, <2>1, <2>2
<1> QED
  BY <1>5, <1>6, <1>7 DEF WorkInv

\* The head of the worker queue is handled.
LEMMA WorkTaken ==
    ASSUME WriteInv, WorkInv, work # <<>>, work' = Tail(work),
           user' = IF Head(work).kind = "notice" THEN Head(work).user ELSE user,
           author' = author, known' = known
    PROVE  WorkInv'
<1> DEFINE n == Len(work)
<1>1. work \in Seq(WorkMessage)
  BY WriteFacts
<1>2. /\ n \in Nat /\ n >= 1 /\ DOMAIN work = 1..n /\ DOMAIN work' = 1..n - 1
      /\ \A i \in 1..n - 1 : work'[i] = work[i + 1]
  BY <1>1, QueueMoves
<1>3. Len(work') = n - 1
  BY <1>1, HeadTailProperties
<1>4. \A a, i : i \in 1..n /\ UserBefore(work, user, i + 1, a) => UserBefore(work', user', i, a)
  BY <1>1, HeadIsHandled
<1>5. UserBefore(work', user', Len(work') + 1, known'.user)
  <2>1. Len(work') + 1 = n /\ n \in 1..n
    BY <1>2, <1>3
  <2>2. UserBefore(work, user, n + 1, known.user)
    BY DEF WorkInv
  <2> QED
    BY <1>4, <2>1, <2>2
<1>6. ASSUME NEW i \in DOMAIN work'
      PROVE  i + 1 \in DOMAIN work /\ work'[i] = work[i + 1] /\ i \in 1..n
  BY <1>2
<1>7. ASSUME NEW i \in DOMAIN work', IsWrite(work', i)
      PROVE  work'[i].write \in DOMAIN author' /\ UserBefore(work', user', i, author'[work'[i].write])
  <2>1. IsWrite(work, i + 1)
    BY <1>6, <1>7 DEF IsWrite
  <2>2. work[i + 1].write \in DOMAIN author /\ UserBefore(work, user, i + 1, author[work[i + 1].write])
    BY <1>6, <2>1 DEF WorkInv
  <2> QED
    BY <1>4, <1>6, <2>2
<1>8. ASSUME NEW i \in DOMAIN work', IsToken(work', i), work'[i].user # Failed
      PROVE  UserBefore(work', user', i, work'[i].user)
  <2>1. IsToken(work, i + 1) /\ work[i + 1].user # Failed
    BY <1>6, <1>8 DEF IsToken
  <2>2. UserBefore(work, user, i + 1, work[i + 1].user)
    BY <1>6, <2>1 DEF WorkInv
  <2> QED
    BY <1>4, <1>6, <2>2
<1> QED
  BY <1>5, <1>7, <1>8 DEF WorkInv

\* When no notice waits, the provider's user is Auth's.
LEMMA QuietMain ==
    ASSUME WriteInv, MainInv, NoNotice(main, 1, Len(main))
    PROVE  authUser = known.user
<1>1. Len(main) \in Nat
  BY QueueDomains
<1>2. UserBefore(main, known.user, Len(main) + 1, authUser)
  BY DEF MainInv
<1>3. (Len(main) + 1) - 1 = Len(main)
  BY <1>1
<1> QED
  BY <1>2, <1>3 DEF UserBefore, NoNotice

\* A notice, or a token for whoever was asked, joins the main queue.
LEMMA MainJoined ==
    ASSUME WriteInv, MainInv, NEW e \in MainMessage,
           main' = Append(main, e), known' = known, rs'.requests \subseteq rs.requests,
           authUser' = IF e.kind = "notice" THEN e.user ELSE authUser,
           e.kind = "token" =>
               /\ e.counter <= known.counter
               /\ e.counter = known.counter /\ e.user # Failed
                      /\ NoNotice(main, 1, Len(main)) => e.user = known.user
    PROVE  MainInv'
<1> DEFINE n == Len(main)
<1>1. main \in Seq(MainMessage)
  BY WriteFacts
<1>2. /\ n \in Nat /\ DOMAIN main = 1..n /\ DOMAIN main' = 1..n + 1 /\ main'[n + 1] = e
      /\ \A i \in 1..n : main'[i] = main[i]
  BY <1>1, QueueMoves
<1>3. Len(main') = n + 1
  BY <1>1, AppendProperties
<1>4. \A i \in 0..n : NoNotice(main', 1, i) => NoNotice(main, 1, i)
  BY <1>1, JoinsBehind
<1>5. UserBefore(main', known'.user, Len(main') + 1, authUser')
  <2>1. Len(main') + 1 = n + 2
    BY <1>2, <1>3
  <2>2. UserBefore(main, known.user, n + 1, authUser)
    BY DEF MainInv
  <2>3. CASE e.kind = "notice"
    BY <1>1, <2>1, <2>3, JoinsBehind
  <2>4. CASE e.kind # "notice"
    BY <1>1, <2>1, <2>2, <2>4, JoinsBehind
  <2> QED
    BY <2>3, <2>4
<1>6. ASSUME NEW i \in DOMAIN main', IsToken(main', i)
      PROVE  /\ main'[i].counter <= known'.counter
             /\ main'[i].counter = known'.counter /\ main'[i].user # Failed
                    /\ NoNotice(main', 1, i - 1) => main'[i].user = known'.user
  <2>1. i - 1 \in 0..n
    BY <1>2
  <2>2. NoNotice(main', 1, i - 1) => NoNotice(main, 1, i - 1)
    BY <1>4, <2>1
  <2>3. CASE i \in 1..n
    <3>1. main'[i] = main[i] /\ i \in DOMAIN main /\ IsToken(main, i)
      BY <1>2, <1>6, <2>3 DEF IsToken
    <3> QED
      BY <2>2, <3>1 DEF MainInv
  <2>4. CASE i = n + 1
    <3>1. main'[i] = e /\ e.kind = "token" /\ i - 1 = n
      BY <1>2, <1>6, <2>4 DEF IsToken
    <3> QED
      BY <2>2, <3>1
  <2> QED
    BY <1>2, <1>6, <2>3, <2>4
<1>7. ASSUME NEW r \in rs'.requests
      PROVE  /\ r.counter <= known'.counter
             /\ r.counter = known'.counter /\ NoNotice(main', 1, Len(main')) =>
                    r.user = known'.user
  <2>1. NoNotice(main', 1, n + 1) => NoNotice(main, 1, n)
    BY <1>1, JoinsBehind
  <2> QED
    BY <1>3, <1>7, <2>1 DEF MainInv
<1> QED
  BY <1>5, <1>6, <1>7 DEF MainInv

\* The head of the main queue is handled; after a notice no earlier count is good.
LEMMA MainTaken ==
    ASSUME WriteInv, MainInv, main # <<>>, main' = Tail(main),
           authUser' = authUser, rs' = rs,
           known' = IF Head(main).kind = "notice"
                    THEN [user |-> Head(main).user, counter |-> known.counter + 1]
                    ELSE known
    PROVE  MainInv'
<1> DEFINE n == Len(main)
<1>1. main \in Seq(MainMessage) /\ known \in [user : Account, counter : Nat]
  BY WriteFacts DEF AuthTyped
<1>2. /\ n \in Nat /\ n >= 1 /\ DOMAIN main = 1..n /\ DOMAIN main' = 1..n - 1
      /\ \A i \in 1..n - 1 : main'[i] = main[i + 1]
      /\ \A i \in 1..n : main[i] \in MainMessage
  BY <1>1, QueueMoves, QueueDomains
<1>3. Len(main') = n - 1
  BY <1>1, HeadTailProperties
<1>4. UserBefore(main', known'.user, Len(main') + 1, authUser')
  <2>1. Len(main') + 1 = n /\ n \in 1..n
    BY <1>2, <1>3
  <2>2. UserBefore(main, known.user, n + 1, authUser)
    BY DEF MainInv
  <2>3. known'.user = IF Head(main).kind = "notice" THEN Head(main).user ELSE known.user
    OBVIOUS
  <2> QED
    BY <1>1, <2>1, <2>2, <2>3, HeadIsHandled
<1>5. CASE Head(main).kind = "notice"
  <2>1. known'.counter = known.counter + 1
    BY <1>5
  <2>2. ASSUME NEW i \in DOMAIN main', IsToken(main', i)
        PROVE  main'[i].counter <= known.counter /\ main'[i].counter \in Nat
    <3>1. i + 1 \in DOMAIN main /\ main'[i] = main[i + 1] /\ IsToken(main, i + 1)
      BY <1>2, <2>2 DEF IsToken
    <3>2. main[i + 1] \in MainMessage
      BY <1>2, <3>1
    <3> QED
      BY <3>1, <3>2 DEF MainInv, MainMessage, Notice, IsToken
  <2>3. ASSUME NEW r \in rs'.requests
        PROVE  r.counter <= known.counter /\ r.counter \in Nat
    BY <2>3, WriteFacts DEF MainInv, Stream, Request
  <2>4. \A k \in Nat : k <= known.counter => k <= known'.counter /\ k # known'.counter
    BY <1>1, <2>1
  <2> QED
    BY <1>4, <2>2, <2>3, <2>4 DEF MainInv
<1>6. CASE Head(main).kind # "notice"
  <2>1. known' = known
    BY <1>6
  <2>2. \A i \in 0..n - 1 : NoNotice(main', 1, i) => NoNotice(main, 1, i + 1)
    BY <1>1, <1>6, HeadIsHandled
  <2>3. ASSUME NEW i \in DOMAIN main', IsToken(main', i)
        PROVE  /\ main'[i].counter <= known'.counter
               /\ main'[i].counter = known'.counter /\ main'[i].user # Failed
                      /\ NoNotice(main', 1, i - 1) => main'[i].user = known'.user
    <3>1. i + 1 \in DOMAIN main /\ main'[i] = main[i + 1] /\ IsToken(main, i + 1)
      BY <1>2, <2>3 DEF IsToken
    <3>2. i - 1 \in 0..n - 1 /\ (i - 1) + 1 = (i + 1) - 1
      BY <1>2
    <3>3. NoNotice(main', 1, i - 1) => NoNotice(main, 1, (i + 1) - 1)
      BY <2>2, <3>2
    <3> QED
      BY <2>1, <3>1, <3>3 DEF MainInv
  <2>4. ASSUME NEW r \in rs'.requests
        PROVE  /\ r.counter <= known'.counter
               /\ r.counter = known'.counter /\ NoNotice(main', 1, Len(main')) =>
                      r.user = known'.user
    <3>1. NoNotice(main', 1, n - 1) => NoNotice(main, 1, n)
      BY <1>2, <2>2
    <3> QED
      BY <1>3, <2>1, <2>4, <3>1 DEF MainInv
  <2> QED
    BY <1>4, <2>3, <2>4 DEF MainInv
<1> QED
  BY <1>5, <1>6

\* A step of the stream asks for the tokens of the present count and user.
LEMMA RequestsMove ==
    ASSUME WriteInv, MainInv, TokenStep(rs, rs'),
           main' = main, known' = known, authUser' = authUser
    PROVE  MainInv'
<1>1. ASSUME NEW r \in rs'.requests, r \notin rs.requests
      PROVE  r.counter = known.counter /\ r.user = authUser
  BY <1>1 DEF TokenStep, Unasked, Asked, RequestOf
<1>2. known.counter \in Nat
  BY WriteFacts DEF AuthTyped
<1>3. ASSUME NEW r \in rs'.requests
      PROVE  /\ r.counter <= known.counter
             /\ r.counter = known.counter /\ NoNotice(main, 1, Len(main)) => r.user = known.user
  <2>1. CASE r \in rs.requests
    BY <2>1 DEF MainInv
  <2>2. CASE r \notin rs.requests
    BY <1>1, <1>2, <1>3, <2>2, QuietMain
  <2> QED
    BY <2>1, <2>2
<1> QED
  BY <1>3 DEF MainInv

-----------------------------------------------------------------------------
(***************************************************************************)
(* What each action does to the call and to the queue.                     *)
(***************************************************************************)

\* The full front of a queue is as the queue is.
LEMMA FrontLooksAlike ==
    ASSUME NEW q \in Seq(StoredBatch)
    PROVE  /\ FullFront(q) \in Seq(StoredBatch)
           /\ Len(FullFront(q)) \in Nat /\ Len(FullFront(q)) <= Len(q)
           /\ \A i \in 1..Len(FullFront(q)) : FullFront(q)[i] = q[i]
<1> DEFINE m == IF Len(q) <= MaxPending THEN Len(q) ELSE MaxPending
<1>1. MaxPending \in Nat /\ Len(q) \in Nat /\ \A i \in 1..Len(q) : q[i] \in StoredBatch
  BY RemoteStoreAssumption, QueueFacts
<1>2. m \in Nat /\ m <= Len(q)
  BY <1>1
<1>3. FullFront(q) = SubSeq(q, 1, m)
  BY <1>1, MinOfTwo DEF FullFront
<1> HIDE DEF m
<1>4. \A i \in 1..m : q[i] \in StoredBatch
  BY <1>1, <1>2
<1>5. /\ FullFront(q) \in Seq(StoredBatch) /\ Len(FullFront(q)) = m
      /\ \A i \in 1..m : FullFront(q)[i] = q[i]
  BY <1>1, <1>2, <1>3, <1>4, SubSeqProperties
<1> QED
  BY <1>2, <1>5

\* What comes behind a sequence, and a sequence of one.
LEMMA ComesBehind ==
    ASSUME NEW T, NEW a \in Seq(T), NEW b \in Seq(T), b # <<>>
    PROVE  Len(a) + 1 \in 1..Len(a \o b) /\ (a \o b)[Len(a) + 1] = Head(b)
<1> DEFINE n == Len(a)
           m == Len(b)
<1>1. n \in Nat /\ m \in Nat /\ m >= 1 /\ Head(b) = b[1]
  BY QueueMoves
<1>2. /\ Len(a \o b) = n + m
      /\ \A i \in 1..n + m : (a \o b)[i] = IF i <= n THEN a[i] ELSE b[i - n]
  BY ConcatProperties
<1> HIDE DEF n, m
<1>3. n + 1 \in 1..n + m /\ (n + 1) - n = 1 /\ ~(n + 1 <= n)
  BY <1>1
<1>4. (a \o b)[n + 1] = b[1]
  BY <1>2, <1>3
<1> QED
  BY <1>1, <1>2, <1>3, <1>4 DEF n

LEMMA OnlyOne ==
    ASSUME NEW T, NEW a \in Seq(T), NEW b \in Seq(T), NEW x, a \o b = <<x>>, a # <<>>
    PROVE  a = <<x>>
<1> DEFINE n == Len(a)
           m == Len(b)
<1>1. n \in Nat /\ m \in Nat /\ n >= 1
  BY QueueMoves
<1>2. n + m = 1
  <2>1. Len(<<x>>) = 1
    OBVIOUS
  <2>2. Len(a \o b) = n + m
    BY ConcatProperties
  <2> QED
    BY <2>1, <2>2
<1> HIDE DEF n, m
<1>3. m = 0
  BY <1>1, <1>2
<1>4. b = <<>>
  BY <1>3, EmptySeq DEF m
<1> QED
  BY <1>4, ConcatEmptySeq

LEMMA StoredGoesOn ==
    ASSUME WriteInv, WriteStored
    PROVE  /\ SameCall(rs, rs')
           /\ Batch(nextId, Head(work).write) \in StoredBatch
           /\ disk' = [disk EXCEPT ![user] = Append(disk[user], Batch(nextId, Head(work).write))]
<1> DEFINE q == disk[user]
           b == Batch(nextId, Head(work).write)
<1>1. Head(work) \in WorkMessage /\ Head(work).kind = "write"
  BY HeadOfWork DEF WriteStored
<1>2. Head(work).write \in Write
  BY <1>1 DEF WorkMessage, Notice
<1>3. b \in StoredBatch /\ b.id = nextId
  BY <1>2, WriteFacts DEF Batch, StoredBatch
<1>4. /\ q \in Seq(StoredBatch) /\ Ordered(q) /\ Below(q, nextId)
      /\ rs \in Stream /\ rs.pipeline = FullFront(q)
  BY WriteFacts
<1>5. disk' = [disk EXCEPT ![user] = Append(q, b)] /\ disk'[user] = Append(q, b)
  BY WriteFacts DEF WriteStored
<1> HIDE DEF q, b
<1>6. /\ Append(q, b) \in Seq(StoredBatch) /\ Ordered(Append(q, b))
      /\ FrontOf(rs.pipeline, Append(q, b))
  BY <1>3, <1>4, StoredQueue
<1>7. rs' = FillWritePipeline(rs, Append(q, b))
  BY <1>5 DEF WriteStored
<1>8. SameCall(rs, rs')
  BY <1>4, <1>6, <1>7, FillSame, WriteFacts DEF Served
<1> QED
  BY <1>3, <1>5, <1>8 DEF q, b

LEMMA CredentialsGiveUp ==
    ASSUME WriteInv, CredentialChanges
    PROVE  GivenUp(rs') /\ user' \in Account
<1>1. Head(work) \in WorkMessage /\ Head(work).kind = "notice"
  BY HeadOfWork DEF CredentialChanges
<1>2. user' \in Account
  BY <1>1 DEF CredentialChanges, WorkMessage, Notice
<1> DEFINE q == disk[user']
<1>3. q \in Seq(StoredBatch) /\ Ordered(q)
  BY <1>2, WriteFacts
<1>4. rs' = Restart(rs, q)
  BY DEF CredentialChanges
<1> HIDE DEF q
<1> QED
  BY <1>2, <1>3, <1>4, RestartGivesUp, WriteFacts

\* A call begins with nobody's answers.
LEMMA TokenOpens ==
    ASSUME WriteInv, TokenFindsStarting, TokenTaken
    PROVE  \/ rs' = rs
           \/ GivenUp(rs')
           \/ /\ rs'.state = "Open" /\ rs'.as = Head(work).user /\ Head(work).user # Failed
              /\ ~rs'.handshake /\ rs'.results = <<>> /\ rs'.ended = "no"
<1> DEFINE t == Head(work)
<1>1. t \in WorkMessage /\ t.kind = "token"
  BY HeadOfWork DEF TokenTaken
<1>2. t.closes = rs.closes => rs.state = "Starting"
  <2>1. work # <<>> /\ work \in Seq(WorkMessage)
    BY WriteFacts DEF TokenTaken
  <2>2. 1 \in DOMAIN work /\ t = work[1]
    BY <2>1, EmptySeq, LenProperties
  <2> QED
    BY <1>1, <2>2 DEF TokenFindsStarting
<1>3. CASE TokenIsLate(t, rs)
  BY <1>3 DEF TokenTaken
<1>4. CASE ~TokenIsLate(t, rs) /\ t.user = Failed
  BY <1>4, ErrorGivesUp, WriteFacts DEF TokenTaken
<1>5. CASE ~TokenIsLate(t, rs) /\ t.user # Failed
  <2>1. rs' = Opened(rs, t.user)
    BY <1>5 DEF TokenTaken
  <2>2. rs.state = "Starting" /\ rs \in Stream /\ Served(rs) /\ Carried(rs)
    BY <1>2, <1>5, WriteFacts DEF TokenIsLate
  <2>3. ~rs.handshake /\ rs.results = <<>> /\ rs.ended = "no"
    BY <2>2 DEF Served, Carried
  <2> HIDE DEF t
  <2>4. /\ rs'.state = "Open" /\ rs'.as = t.user /\ rs'.handshake = rs.handshake
        /\ rs'.results = rs.results /\ rs'.ended = rs.ended
    BY <2>1, <2>2 DEF Opened, Send, Stream
  <2> QED
    BY <1>5, <2>3, <2>4 DEF t
<1> QED
  BY <1>3, <1>4, <1>5

LEMMA BrokenGivesUp ==
    ASSUME WriteInv, CallBroken \/ IdleTimeout
    PROVE  GivenUp(rs')
BY ErrorGivesUp, StopGivesUp, WriteFacts DEF CallBroken, IdleTimeout

LEMMA BackoffGoesOn ==
    ASSUME WriteInv, BackoffElapsed
    PROVE  SameCall(rs, rs')
BY WriteFacts DEF BackoffElapsed, Start, RequestCredentials, SameCall, Stream

LEMMA CrashGivesUp ==
    ASSUME WriteInv, Dies
    PROVE  GivenUp(rs')
<1> DEFINE q == disk'[authUser]
           s == NewRemoteStore
<1>1. q \in Seq(StoredBatch) /\ Ordered(q)
  BY DiesFromOrder, WriteFacts DEF AuthTyped
<1>2. /\ s \in Stream /\ GivenUp(s) /\ Serving(s) /\ Carried(s) /\ s.pipeline = <<>>
  BY EmptySeq, RemoteStoreAssumption
     DEF NewRemoteStore, Stream, Account, GivenUp, Serving, Carried, CanWrite, IsStarted
<1>3. rs' = FillWritePipeline(s, q)
  BY DiesFromOrder DEF Relaunched
<1> HIDE DEF q, s
<1>4. FrontOf(s.pipeline, q)
  BY <1>1, <1>2, FrontIsLimited
<1>5. SameCall(s, rs')
  BY <1>1, <1>2, <1>3, <1>4, FillSame
<1> QED
  BY <1>2, <1>5 DEF SameCall, GivenUp

\* The handshake's answer is none about a write.
LEMMA HandshakeGoesOn ==
    ASSUME WriteInv, HandshakeAnswered
    PROVE  /\ rs'.state = rs.state /\ rs'.as = rs.as /\ rs'.ended = rs.ended
           /\ rs.results = <<HANDSHAKE>> /\ rs'.handshake /\ rs'.results = <<>>
<1>1. /\ rs \in Stream /\ Served(rs) /\ Carried(rs) /\ ~rs.handshake
      /\ rs.results # <<>> /\ rs' = HandshakeCompleted(rs)
  BY WriteFacts DEF HandshakeAnswered
<1>2. PICK rest \in Seq(Message) : rs.results \o rest = <<HANDSHAKE>>
  BY <1>1 DEF Carried, Due
<1>3. rs.results \in Seq(Message) /\ HANDSHAKE \in Message
  BY <1>1, MessageTypes DEF Stream
<1>4. rs.results = <<HANDSHAKE>>
  BY <1>1, <1>2, <1>3, OnlyOne
<1>5. Tail(rs.results) = <<>>
  BY <1>4
<1>6. /\ rs'.state = rs.state /\ rs'.as = rs.as /\ rs'.ended = rs.ended
      /\ rs'.handshake /\ rs'.results = Tail(rs.results)
  BY <1>1 DEF HandshakeCompleted, Send, Stream
<1> QED
  BY <1>4, <1>5, <1>6

\* The head of the queue leaves it.
LEMMA HeadLeavesQueue ==
    ASSUME WriteInv, NEW done, HeadLeaves(done), rs.pipeline # <<>>
    PROVE  /\ disk[user] # <<>> /\ Head(disk[user]) \in StoredBatch
           /\ disk' = [disk EXCEPT ![user] = Tail(disk[user])]
           /\ answers' = Append(answers, [write |-> Head(disk[user]).write, done |-> done])
           /\ FrontOf(Tail(rs.pipeline), disk'[user])
<1> DEFINE q == disk[user]
           b == Head(rs.pipeline)
<1>1. q \in Seq(StoredBatch) /\ Ordered(q) /\ rs.pipeline = FullFront(q)
  BY WriteFacts
<1>2. /\ disk' = [disk EXCEPT ![user] = Without(q, b.id)]
      /\ answers' = Append(answers, [write |-> b.write, done |-> done])
  BY DEF HeadLeaves
<1> HIDE DEF q
<1>3. /\ q # <<>> /\ b = Head(q) /\ b \in StoredBatch /\ Without(q, b.id) = Tail(q)
      /\ FrontOf(Tail(rs.pipeline), Tail(q))
  BY <1>1, AnsweredQueue
<1> HIDE DEF b
<1>4. disk'[user] = Tail(q)
  BY <1>2, <1>3, WriteFacts
<1> QED
  BY <1>2, <1>3, <1>4 DEF q

LEMMA HeadGoes ==
    ASSUME WriteInv, NEW done, HeadAnswered(done), rs.pipeline # <<>>
    PROVE  /\ disk[user] # <<>> /\ Head(disk[user]) \in StoredBatch
           /\ disk' = [disk EXCEPT ![user] = Tail(disk[user])]
           /\ answers' = Append(answers, [write |-> Head(disk[user]).write, done |-> done])
           /\ user' = user /\ FrontOf(Tail(rs.pipeline), disk'[user])
BY HeadLeavesQueue DEF HeadAnswered

LEMMA AnswerGoesOn ==
    ASSUME WriteInv, WriteAnswered
    PROVE  /\ rs.pipeline # <<>> /\ rs.state = "Open" /\ rs'.state = "Open"
           /\ rs'.handshake /\ rs'.as = rs.as /\ rs'.ended = rs.ended
           /\ rs'.results = Tail(rs.results)
<1> DEFINE e == [rs EXCEPT !.pipeline = Tail(@), !.results = Tail(@)]
           q == disk'[user]
<1>1. /\ rs \in Stream /\ Served(rs) /\ Carried(rs)
      /\ rs.results # <<>> /\ rs.handshake /\ HeadAnswered(TRUE)
      /\ rs' = FillWritePipeline(e, q)
  BY WriteFacts DEF WriteAnswered, AnswerShown
<1>2. /\ rs.pipeline # <<>> /\ e \in Stream /\ e.pipeline = Tail(rs.pipeline)
      /\ e.state = rs.state /\ e.handshake /\ Serving(e) /\ Carried(e) /\ rs.state = "Open"
  BY <1>1, AnswerServes
<1>3. e.as = rs.as /\ e.results = Tail(rs.results) /\ e.ended = rs.ended
  BY <1>1 DEF Stream
<1>4. q \in Seq(StoredBatch) /\ Ordered(q) /\ FrontOf(Tail(rs.pipeline), q)
  BY <1>1, <1>2, HeadAnsweredQueues, WriteFacts
<1> HIDE DEF e, q
<1>5. SameCall(e, rs')
  BY <1>1, <1>2, <1>4, FillSame
<1>6. rs'.state = "Open"
  BY <1>2, <1>5 DEF SameCall
<1> QED
  BY <1>2, <1>3, <1>5, <1>6 DEF SameCall

LEMMA RefusedGivesUp ==
    ASSUME WriteInv, CallRefused
    PROVE  GivenUp(rs')
<1> DEFINE q == disk'[user]
<1>1. rs.pipeline # <<>> /\ HeadAnswered(FALSE) /\ rs' = ClosedByRefusal(rs, q)
  BY DEF CallRefused, RefusalShown
<1>2. q \in Seq(StoredBatch) /\ Ordered(q) /\ FrontOf(Tail(rs.pipeline), q)
  BY <1>1, HeadAnsweredQueues, WriteFacts
<1> HIDE DEF q
<1> QED
  BY <1>1, <1>2, RefusalGivesUp, WriteFacts

\* What is served is the handshake, first of all, or the write of the signed-in
\* user's queue that comes after those the call has answers for.
LEMMA ServedIsDue ==
    ASSUME WriteInv, rs.ended = "no", rs.sent # <<>>
    PROVE  /\ rs.state = "Open"
           /\ \/ ~rs.handshake /\ rs.results = <<>> /\ Head(rs.sent) = HANDSHAKE
              \/ /\ rs.handshake
                 /\ Len(rs.results) + 1 \in DOMAIN disk[user]
                 /\ Head(rs.sent) = disk[user][Len(rs.results) + 1]
                 /\ Head(rs.sent) # HANDSHAKE
<1> DEFINE q == disk[user]
           n == Len(rs.results)
<1>1. /\ rs \in Stream /\ Served(rs) /\ Carried(rs)
      /\ q \in Seq(StoredBatch) /\ Ordered(q) /\ rs.pipeline = FullFront(q)
  BY WriteFacts
<1>2. rs.state = "Open" /\ rs.results \o rs.sent = Due(rs)
  BY <1>1 DEF Carried
<1>3. rs.results \in Seq(Message) /\ rs.sent \in Seq(Message)
  BY <1>1 DEF Stream
<1>4. /\ n \in Nat
      /\ n + 1 \in 1..Len(Due(rs)) /\ Due(rs)[n + 1] = Head(rs.sent)
  <2>1. n \in Nat
    BY <1>3, LenProperties
  <2>2. /\ n + 1 \in 1..Len(rs.results \o rs.sent)
        /\ (rs.results \o rs.sent)[n + 1] = Head(rs.sent)
    BY <1>3, ComesBehind
  <2> QED
    BY <1>2, <2>1, <2>2
<1> HIDE DEF q, n
<1>5. CASE ~rs.handshake
  <2>1. Due(rs) = <<HANDSHAKE>>
    BY <1>5 DEF Due
  <2>2. Len(<<HANDSHAKE>>) = 1 /\ <<HANDSHAKE>>[1] = HANDSHAKE
    OBVIOUS
  <2>3. n + 1 \in 1..1
    BY <1>4, <2>1, <2>2
  <2>4. n = 0
    BY <1>4, <2>3
  <2>5. Head(rs.sent) = HANDSHAKE
    BY <1>4, <2>1, <2>2, <2>4
  <2>6. rs.results = <<>>
    BY <1>3, <2>4, EmptySeq DEF n
  <2> QED
    BY <1>2, <1>5, <2>5, <2>6
<1>6. CASE rs.handshake
  <2>1. Due(rs) = FullFront(q)
    BY <1>1, <1>6 DEF Due
  <2>2. n + 1 \in 1..Len(FullFront(q)) /\ FullFront(q)[n + 1] = Head(rs.sent)
    BY <1>4, <2>1
  <2>3. /\ Len(FullFront(q)) \in Nat /\ Len(FullFront(q)) <= Len(q)
        /\ \A i \in 1..Len(FullFront(q)) : FullFront(q)[i] = q[i]
    BY <1>1, FrontLooksAlike
  <2>4. n + 1 \in 1..Len(q) /\ q[n + 1] = Head(rs.sent)
    BY <1>1, <1>4, <2>2, <2>3, QueueFacts
  <2>5. Head(rs.sent) # HANDSHAKE
    BY <1>1, <2>4, QueueFacts DEF HANDSHAKE
  <2>6. n + 1 \in DOMAIN q
    BY <1>1, <2>4, QueueFacts
  <2> QED
    BY <1>2, <1>6, <2>4, <2>5, <2>6 DEF q, n
<1> QED
  BY <1>5, <1>6

-----------------------------------------------------------------------------
(***************************************************************************)
(* Every action keeps writes, tokens and calls with their users.           *)
(***************************************************************************)

\* The parts that a step leaves alone.
LEMMA WorkStays ==
    ASSUME WorkInv, work' = work, user' = user, author' = author, known' = known
    PROVE  WorkInv'
BY DEF WorkInv

LEMMA MainStays ==
    ASSUME MainInv, main' = main, known' = known, authUser' = authUser,
           rs'.requests = rs.requests
    PROVE  MainInv'
BY DEF MainInv

LEMMA DiskStays ==
    ASSUME DiskAuthors, disk' = disk, AuthorsStay
    PROVE  DiskAuthors'
BY DEF DiskAuthors, AuthorsStay

LEMMA LogStays ==
    ASSUME LogAuthors, log' = log, AuthorsStay
    PROVE  LogAuthors'
BY DEF LogAuthors, AuthorsStay

LEMMA CallStays ==
    ASSUME CallUser, (user' = user /\ SameCall(rs, rs')) \/ GivenUp(rs')
    PROVE  CallUser'
BY DEF CallUser, SameCall, GivenUp

LEMMA SameAuthors ==
    ASSUME author' = author
    PROVE  AuthorsStay
BY DEF AuthorsStay

LEMMA InitAuthors == Init => AuthorInv
<1> SUFFICES ASSUME Init PROVE AuthorInv
  OBVIOUS
<1>1. /\ work = <<>> /\ main = <<>> /\ log = <<>> /\ rs.requests = {}
      /\ rs.state = "Initial" /\ known.user = authUser /\ user = authUser
      /\ \A u \in Account : disk[u] = <<>>
  BY DEF Init, NewRemoteStore
<1>2. Len(<<>>) = 0 /\ DOMAIN <<>> = {} /\ \A u : NoNotice(<<>>, 1, (0 + 1) - 1)
  BY EmptySeq DEF NoNotice
<1>3. \A u : UserBefore(<<>>, u, 0 + 1, u)
  BY <1>2 DEF UserBefore
<1>4. WorkInv /\ MainInv
  BY <1>1, <1>2, <1>3 DEF WorkInv, MainInv
<1>5. DiskAuthors /\ CallUser /\ LogAuthors
  BY <1>1, <1>2 DEF DiskAuthors, CallUser, LogAuthors
<1> QED
  BY <1>4, <1>5 DEF AuthorInv

LEMMA UserChangesAuthors ==
    ASSUME WriteInv, AuthorInv, UserChanges
    PROVE  AuthorInv'
<1> DEFINE e == [kind |-> "notice", user |-> authUser']
<1>1. /\ main' = Append(main, e) /\ e.kind = "notice" /\ e.user = authUser'
      /\ UNCHANGED <<author, known, work, rs, log, user, disk>>
  BY DEF UserChanges, localVars
<1>2. e \in MainMessage
  BY WriteFacts DEF UserChanges, AuthTyped, MainMessage, Notice, Account
<1> HIDE DEF e
<1>3. MainInv'
  BY <1>1, <1>2, MainJoined DEF AuthorInv
<1>4. SameCall(rs, rs')
  BY <1>1 DEF SameCall
<1> QED
  BY <1>1, <1>3, <1>4, WorkStays, DiskStays, LogStays, CallStays, SameAuthors DEF AuthorInv

LEMMA IssueAuthors ==
    ASSUME WriteInv, AuthorInv, Issue
    PROVE  AuthorInv' /\ AuthorsStay
<1> DEFINE n == Len(author')
           e == [kind |-> "write", write |-> n]
<1>1. author \in Seq(Account) /\ Len(author) \in Nat /\ known.user \in Account
  BY WriteFacts DEF WriteInv, TypeOK, AuthTyped
<1>2. /\ author' = Append(author, known.user) /\ work' = Append(work, e)
      /\ UNCHANGED <<authUser, main, known, rs, log, user, disk>>
      /\ Len(author) < MaxWrites
  BY DEF Issue, authVars, localVars
<1>3. n = Len(author) + 1
  BY <1>1, <1>2, AppendProperties
<1>4. /\ DOMAIN author = 1..Len(author) /\ DOMAIN author' = 1..Len(author) + 1
      /\ author'[n] = known.user /\ n \in DOMAIN author'
      /\ \A i \in 1..Len(author) : author'[i] = author[i]
  BY <1>1, <1>2, <1>3, QueueMoves
<1>5. AuthorsStay
  BY <1>1, <1>4 DEF AuthorsStay
<1>6. e \in WorkMessage
  BY <1>1, <1>2, <1>3, RemoteStoreAssumption DEF WorkMessage, Write
<1>7. e.kind = "write" /\ e.write = n
  OBVIOUS
<1> HIDE DEF e, n
<1>8. WorkInv'
  BY <1>2, <1>4, <1>5, <1>6, <1>7, WorkJoined DEF AuthorInv
<1>9. SameCall(rs, rs')
  BY <1>2 DEF SameCall
<1> QED
  BY <1>2, <1>5, <1>8, <1>9, MainStays, DiskStays, LogStays, CallStays DEF AuthorInv

LEMMA NoticeDeliveredAuthors ==
    ASSUME WriteInv, AuthorInv, NoticeDelivered
    PROVE  AuthorInv'
<1> DEFINE e == Head(main)
<1>1. /\ main # <<>> /\ main' = Tail(main) /\ work' = Append(work, e) /\ e.kind = "notice"
      /\ known' = [user |-> e.user, counter |-> known.counter + 1]
      /\ UNCHANGED <<author, authUser, rs, log, user, disk>>
  BY DEF NoticeDelivered, localVars
<1>2. e \in WorkMessage
  BY <1>1, HeadOfMain DEF MainMessage, WorkMessage
<1>3. MainInv'
  BY <1>1, MainTaken DEF AuthorInv
<1> HIDE DEF e
<1>4. known'.user = e.user
  BY <1>1
<1>5. WorkInv'
  BY <1>1, <1>2, <1>4, WorkJoined, SameAuthors DEF AuthorInv
<1>6. SameCall(rs, rs')
  BY <1>1 DEF SameCall
<1> QED
  BY <1>1, <1>3, <1>5, <1>6, DiskStays, LogStays, CallStays, SameAuthors DEF AuthorInv

LEMMA TokenDeliveredAuthors ==
    ASSUME WriteInv, AuthorInv, TokenDelivered
    PROVE  AuthorInv'
<1> DEFINE t == Head(main)
           e == [kind |-> "token", closes |-> t.closes,
                 user |-> IF t.counter = known.counter THEN t.user ELSE Failed]
<1>1. /\ main # <<>> /\ main' = Tail(main) /\ work' = Append(work, e) /\ t.kind = "token"
      /\ UNCHANGED <<author, authUser, known, rs, log, user, disk>>
  BY DEF TokenDelivered, localVars
<1>2. e \in WorkMessage /\ e.kind = "token"
  BY <1>1, HeadOfMain DEF MainMessage, WorkMessage, Notice
<1>3. MainInv'
  BY <1>1, MainTaken DEF AuthorInv
<1>4. e.user # Failed => e.user = known.user
  <2>1. 1 \in DOMAIN main /\ main[1] = t
    BY <1>1, QueueMoves, WriteFacts
  <2>2. IsToken(main, 1) /\ NoNotice(main, 1, 1 - 1)
    BY <1>1, <2>1 DEF IsToken, NoNotice
  <2>3. t.counter = known.counter /\ t.user # Failed => t.user = known.user
    BY <2>1, <2>2 DEF AuthorInv, MainInv
  <2> QED
    BY <2>3
<1> HIDE DEF e
<1>5. WorkInv'
  BY <1>1, <1>2, <1>4, WorkJoined, SameAuthors DEF AuthorInv
<1>6. SameCall(rs, rs')
  BY <1>1 DEF SameCall
<1> QED
  BY <1>1, <1>3, <1>5, <1>6, DiskStays, LogStays, CallStays, SameAuthors DEF AuthorInv

\* Auth answers for a user that was the provider's when it was asked, or is Auth's.
LEMMA TokenAnswerAuthors ==
    ASSUME WriteInv, AuthorInv, NEW r \in rs.requests, NEW u \in {r.user, authUser, Failed},
           TokenAnswer(r, u)
    PROVE  AuthorInv'
<1> DEFINE e == [kind |-> "token", closes |-> r.closes, counter |-> r.counter, user |-> u]
<1>1. r \in Request /\ authUser \in Account /\ rs \in Stream
  BY WriteFacts DEF Stream, AuthTyped
<1>2. /\ main' = Append(main, e) /\ rs' = [rs EXCEPT !.requests = @ \ {r}]
      /\ UNCHANGED <<author, authUser, known, work, log, user, disk>>
  BY DEF TokenAnswer, localVars
<1>3. /\ e \in MainMessage /\ e.kind = "token"
      /\ e.counter = r.counter /\ e.user = u
  BY <1>1 DEF MainMessage, Request
<1>4. /\ e.counter <= known.counter
      /\ e.counter = known.counter /\ e.user # Failed
             /\ NoNotice(main, 1, Len(main)) => e.user = known.user
  BY <1>3, QuietMain DEF AuthorInv, MainInv
<1> HIDE DEF e
<1>5. rs'.requests \subseteq rs.requests /\ SameCall(rs, rs')
  BY <1>1, <1>2 DEF Stream, SameCall
<1>6. MainInv'
  BY <1>2, <1>3, <1>4, <1>5, MainJoined DEF AuthorInv
<1> QED
  BY <1>2, <1>5, <1>6, WorkStays, DiskStays, LogStays, CallStays, SameAuthors DEF AuthorInv

\* Whoever is the user before the head of the work queue is the user now.
LEMMA HeadIsOurs ==
    ASSUME WriteInv, AuthorInv, work # <<>>
    PROVE  /\ Head(work).kind = "write" =>
                 /\ Head(work).write \in DOMAIN author
                 /\ author[Head(work).write] = user
           /\ Head(work).kind = "token" /\ Head(work).user # Failed => Head(work).user = user
<1>1. 1 \in DOMAIN work /\ work[1] = Head(work)
  BY QueueMoves, WriteFacts
<1>2. \A a : UserBefore(work, user, 1, a) => a = user
  BY DEF UserBefore
<1> QED
  BY <1>1, <1>2 DEF AuthorInv, WorkInv, IsWrite, IsToken

LEMMA WriteStoredAuthors ==
    ASSUME WriteInv, AuthorInv, WriteStored
    PROVE  AuthorInv'
<1> DEFINE n == Head(work).write
           q == disk[user]
           b == Batch(nextId, n)
<1>1. /\ work # <<>> /\ work' = Tail(work) /\ Head(work).kind = "write"
      /\ UNCHANGED <<author, user, log, authUser, main, known>>
  BY DEF WriteStored, authVars
<1>2. n \in DOMAIN author /\ author[n] = user
  BY <1>1, HeadIsOurs
<1>3. /\ SameCall(rs, rs') /\ b \in StoredBatch
      /\ disk' = [disk EXCEPT ![user] = Append(q, b)]
  BY StoredGoesOn
<1>4. b.write = n
  BY DEF Batch
<1>5. WorkInv'
  BY <1>1, WorkTaken DEF AuthorInv
<1>6. MainInv'
  BY <1>1, WriteStoredWrites, RequestsMove DEF AuthorInv
<1> HIDE DEF n, b
<1>7. DiskAuthors'
  <2> SUFFICES ASSUME NEW u \in Account, NEW i \in DOMAIN disk'[u]
               PROVE  disk'[u][i].write \in DOMAIN author' /\ author'[disk'[u][i].write] = u
    BY DEF DiskAuthors
  <2>1. disk \in [Account -> Seq(StoredBatch)] /\ user \in Account
    BY WriteFacts
  <2>2. CASE u # user
    <3>1. disk'[u] = disk[u]
      BY <1>3, <2>1, <2>2
    <3> QED
      BY <1>1, <3>1 DEF AuthorInv, DiskAuthors
  <2>3. CASE u = user
    <3>1. disk'[u] = Append(q, b) /\ q \in Seq(StoredBatch)
      BY <1>3, <2>1, <2>3
    <3>2. \/ i \in DOMAIN q /\ disk'[u][i] = q[i]
          \/ disk'[u][i] = b
      BY <1>3, <3>1, QueueMoves
    <3> QED
      BY <1>1, <1>2, <1>4, <2>3, <3>2 DEF AuthorInv, DiskAuthors
  <2> QED
    BY <2>2, <2>3
<1> QED
  BY <1>1, <1>3, <1>5, <1>6, <1>7, LogStays, CallStays, SameAuthors DEF AuthorInv

LEMMA CredentialChangesAuthors ==
    ASSUME WriteInv, AuthorInv, CredentialChanges
    PROVE  AuthorInv'
<1>1. /\ work # <<>> /\ work' = Tail(work) /\ Head(work).kind = "notice"
      /\ user' = Head(work).user
      /\ UNCHANGED <<author, disk, log, authUser, main, known>>
  BY DEF CredentialChanges, authVars
<1>2. WorkInv'
  BY <1>1, WorkTaken DEF AuthorInv
<1>3. MainInv'
  BY <1>1, CredentialChangesWrites, RequestsMove DEF AuthorInv
<1> QED
  BY <1>1, <1>2, <1>3, CredentialsGiveUp, DiskStays, LogStays, CallStays, SameAuthors
     DEF AuthorInv

LEMMA TokenTakenAuthors ==
    ASSUME WriteInv, AuthorInv, TokenFindsStarting, TokenTaken
    PROVE  AuthorInv'
<1>1. /\ work # <<>> /\ work' = Tail(work) /\ Head(work).kind = "token"
      /\ UNCHANGED <<author, user, disk, log, authUser, main, known>>
  BY DEF TokenTaken, authVars, localVars
<1>2. WorkInv'
  BY <1>1, WorkTaken DEF AuthorInv
<1>3. MainInv'
  BY <1>1, TokenTakenWrites, RequestsMove, MainStays DEF AuthorInv
<1>4. CallUser'
  BY <1>1, TokenOpens, HeadIsOurs DEF AuthorInv, CallUser, GivenUp
<1> QED
  BY <1>1, <1>2, <1>3, <1>4, DiskStays, LogStays, SameAuthors DEF AuthorInv

\* Steps of the stream that read from the call, or end it.
LEMMA StreamAuthors ==
    ASSUME WriteInv, AuthorInv,
           HandshakeAnswered \/ CallBroken \/ IdleTimeout \/ BackoffElapsed
    PROVE  AuthorInv'
<1>1. UNCHANGED <<author, work, user, disk, log, authUser, main, known>>
  BY DEF HandshakeAnswered, CallBroken, IdleTimeout, BackoffElapsed, authVars, localVars
<1>2. TokenStep(rs, rs')
  BY HandshakeAnsweredWrites, CallBrokenWrites, IdleTimeoutWrites, BackoffElapsedWrites
<1>3. WorkInv' /\ MainInv'
  BY <1>1, <1>2, WorkStays, RequestsMove DEF AuthorInv
<1>4. CallUser'
  BY <1>1, HandshakeGoesOn, BrokenGivesUp, BackoffGoesOn DEF AuthorInv, CallUser, GivenUp, SameCall
<1> QED
  BY <1>1, <1>3, <1>4, DiskStays, LogStays, SameAuthors DEF AuthorInv

\* Whoever removes the head, the rest of the disk keeps its authors.
LEMMA HeadLeavesAuthors ==
    ASSUME WriteInv, AuthorInv, NEW done, HeadLeaves(done), rs.pipeline # <<>>,
           author' = author
    PROVE  DiskAuthors'
<1>1. disk' = [disk EXCEPT ![user] = Tail(disk[user])] /\ disk[user] # <<>>
  BY HeadLeavesQueue
<1> SUFFICES ASSUME NEW u \in Account, NEW i \in DOMAIN disk'[u]
             PROVE  disk'[u][i].write \in DOMAIN author' /\ author'[disk'[u][i].write] = u
  BY DEF DiskAuthors
<1>2. disk \in [Account -> Seq(StoredBatch)] /\ user \in Account
  BY WriteFacts
<1>3. CASE u # user
  <2>1. disk'[u] = disk[u]
    BY <1>1, <1>2, <1>3
  <2> QED
    BY <2>1 DEF AuthorInv, DiskAuthors
<1>4. CASE u = user
  <2>1. disk'[u] = Tail(disk[u]) /\ disk[u] \in Seq(StoredBatch) /\ disk[u] # <<>>
    BY <1>1, <1>2, <1>4
  <2>2. i + 1 \in DOMAIN disk[u] /\ disk'[u][i] = disk[u][i + 1]
    BY <2>1, QueueMoves
  <2> QED
    BY <2>2 DEF AuthorInv, DiskAuthors
<1> QED
  BY <1>3, <1>4

LEMMA HeadAnsweredAuthors ==
    ASSUME WriteInv, AuthorInv, WriteAnswered \/ CallRefused
    PROVE  AuthorInv'
<1>1. rs.pipeline # <<>> /\ \E done : HeadAnswered(done)
  BY AnswerGoesOn DEF WriteAnswered, CallRefused, RefusalShown
<1>2. UNCHANGED <<author, work, log, authUser, main, known>>
  BY DEF WriteAnswered, CallRefused, authVars
<1>3. user' = user /\ DiskAuthors'
  BY <1>1, <1>2, HeadLeavesAuthors DEF HeadAnswered
<1>4. WorkInv' /\ MainInv'
  BY <1>2, <1>3, WriteAnsweredWrites, CallRefusedWrites, WorkStays, RequestsMove DEF AuthorInv
<1>5. CallUser'
  BY <1>3, AnswerGoesOn, RefusedGivesUp DEF AuthorInv, CallUser, GivenUp
<1> QED
  BY <1>2, <1>3, <1>4, <1>5, LogStays, SameAuthors DEF AuthorInv

\* What a step of the backend adds to the log.
LEMMA ServeLogs ==
    ASSUME WriteInv, Serve
    PROVE  /\ rs.state = "Open" /\ rs'.as = rs.as /\ rs'.handshake = rs.handshake
           /\ \/ /\ log' = log /\ ~rs.handshake
                 /\ rs'.results = Append(rs.results, HANDSHAKE) /\ rs'.ended = "no"
              \/ LET i == Len(rs.results) + 1
                     m == disk[user][i]
                 IN  /\ rs.handshake /\ i \in DOMAIN disk[user] /\ m \in Message /\ m # HANDSHAKE
                     /\ \/ /\ m.write \in Refused /\ log' = log
                           /\ rs'.results = rs.results /\ rs'.ended = "permanent"
                        \/ /\ m.write \notin Refused
                           /\ log' = Append(log, [write |-> m.write, as |-> rs.as])
                           /\ rs'.results = Append(rs.results, m) /\ rs'.ended = "no"
<1> DEFINE i == Len(rs.results) + 1
           m == Head(rs.sent)
<1>1. /\ rs.ended = "no" /\ rs.sent # <<>> /\ rs \in Stream
      /\ \/ /\ m # HANDSHAKE /\ m.write \in Refused
            /\ rs' = [rs EXCEPT !.sent = Tail(@), !.ended = "permanent"] /\ log' = log
         \/ /\ ~(m # HANDSHAKE /\ m.write \in Refused)
            /\ rs' = [rs EXCEPT !.sent = Tail(@), !.results = Append(@, m)]
            /\ log' = IF m = HANDSHAKE THEN log
                      ELSE Append(log, [write |-> m.write, as |-> rs.as])
  BY WriteFacts DEF Serve
<1>2. /\ rs.state = "Open"
      /\ \/ ~rs.handshake /\ rs.results = <<>> /\ m = HANDSHAKE
         \/ /\ rs.handshake /\ i \in DOMAIN disk[user] /\ m = disk[user][i]
            /\ m # HANDSHAKE
  BY <1>1, ServedIsDue
<1>3. m \in Message
  BY <1>1, HeadTailProperties DEF Stream
<1> HIDE DEF m, i
<1>4. rs'.as = rs.as /\ rs'.handshake = rs.handshake
  BY <1>1 DEF Stream
<1>5. CASE m = HANDSHAKE
  <2>1. rs'.results = Append(rs.results, m) /\ rs'.ended = rs.ended /\ log' = log
    BY <1>1, <1>5 DEF Stream
  <2> QED
    BY <1>1, <1>2, <1>4, <1>5, <2>1
<1>6. CASE m # HANDSHAKE /\ m.write \in Refused
  <2>1. rs'.results = rs.results /\ rs'.ended = "permanent" /\ log' = log
    BY <1>1, <1>6 DEF Stream
  <2> QED
    BY <1>2, <1>3, <1>4, <1>6, <2>1 DEF i
<1>7. CASE m # HANDSHAKE /\ m.write \notin Refused
  <2>1. /\ rs'.results = Append(rs.results, m) /\ rs'.ended = rs.ended
        /\ log' = Append(log, [write |-> m.write, as |-> rs.as])
    BY <1>1, <1>7 DEF Stream
  <2> QED
    BY <1>1, <1>2, <1>3, <1>4, <1>7, <2>1 DEF i
<1> QED
  BY <1>5, <1>6, <1>7

LEMMA ServeAuthors ==
    ASSUME WriteInv, AuthorInv, Serve
    PROVE  AuthorInv'
<1>1. /\ UNCHANGED <<author, work, user, disk, authUser, main, known>>
      /\ rs'.state = rs.state /\ rs'.requests = rs.requests
  BY ServeWrites DEF Serve, authVars, localVars
<1>2. WorkInv' /\ MainInv' /\ DiskAuthors'
  BY <1>1, WorkStays, MainStays, DiskStays, SameAuthors DEF AuthorInv
<1>3. rs.state = "Open" /\ rs'.as = rs.as
  BY ServeLogs
<1>4. CallUser' /\ rs.as = user
  BY <1>1, <1>3 DEF AuthorInv, CallUser
<1>5. LogAuthors'
  <2>1. CASE log' = log
    BY <1>1, <2>1, LogStays, SameAuthors DEF AuthorInv
  <2>2. CASE \E i \in DOMAIN disk[user] :
                 log' = Append(log, [write |-> disk[user][i].write, as |-> rs.as])
    <3>1. PICK i \in DOMAIN disk[user] :
              log' = Append(log, [write |-> disk[user][i].write, as |-> rs.as])
      BY <2>2
    <3> DEFINE n == disk[user][i].write
               e == [write |-> n, as |-> rs.as]
               T == [write : 0..MaxWrites, as : Account]
    <3>2. n \in DOMAIN author /\ author[n] = user
      BY WriteFacts DEF AuthorInv, DiskAuthors
    <3>3. log \in Seq(T) /\ e \in T
      <4>1. n \in 1..MaxWrites
        BY QueueFacts, WriteFacts DEF Write
      <4>2. user \in Account /\ MaxWrites \in Nat
        BY WriteFacts, RemoteStoreAssumption
      <4> HIDE DEF n
      <4> QED
        BY <1>4, <4>1, <4>2 DEF WriteInv, TypeOK
    <3>4. e.write = n /\ e.as = user
      BY <1>4
    <3> HIDE DEF n, e, T
    <3>5. log' = Append(log, e)
      BY <3>1 DEF e, n
    <3>6. \A j \in DOMAIN log' : (j \in DOMAIN log /\ log'[j] = log[j]) \/ log'[j] = e
      BY <3>3, <3>5, QueueMoves
    <3> QED
      BY <1>1, <3>2, <3>4, <3>6 DEF AuthorInv, LogAuthors
  <2> QED
    BY <2>1, <2>2, ServeLogs
<1> QED
  BY <1>2, <1>4, <1>5 DEF AuthorInv

LEMMA BreakAuthors ==
    ASSUME WriteInv, AuthorInv, Break
    PROVE  AuthorInv'
<1>1. /\ UNCHANGED <<author, work, user, disk, log, authUser, main, known>>
      /\ rs'.state = rs.state /\ rs'.requests = rs.requests
  BY BreakWrites DEF Break, authVars, localVars
<1>2. rs'.as = rs.as
  BY WriteFacts DEF Break, Stream
<1>3. CallUser'
  BY <1>1, <1>2 DEF AuthorInv, CallUser
<1> QED
  BY <1>1, <1>3, WorkStays, MainStays, DiskStays, LogStays, SameAuthors DEF AuthorInv

\* Nothing waits after a crash, and everybody has Auth's user.
LEMMA CrashAuthors ==
    ASSUME WriteInv, AuthorInv, Dies
    PROVE  AuthorInv'
<1>1. /\ main' = <<>> /\ work' = <<>> /\ user' = authUser /\ authUser' = authUser
      /\ known' = [known EXCEPT !.user = authUser]
      /\ UNCHANGED <<author, log>>
  BY DiesFromOrder DEF Relaunched
<1>2. known'.user = authUser /\ known'.counter = known.counter /\ known.counter \in Nat
  BY <1>1, WriteFacts DEF AuthTyped
<1>3. Len(<<>>) = 0 /\ DOMAIN <<>> = {} /\ NoNotice(<<>>, 1, (0 + 1) - 1)
  BY EmptySeq DEF NoNotice
<1>4. UserBefore(<<>>, authUser, 0 + 1, authUser)
  BY <1>3 DEF UserBefore
<1>5. WorkInv'
  BY <1>1, <1>2, <1>3, <1>4 DEF WorkInv
<1>6. \A r \in rs'.requests : r.counter = known.counter /\ r.user = authUser
  BY CrashWrites, <1>1, <1>2 DEF RequestOf
<1>7. MainInv'
  BY <1>1, <1>2, <1>3, <1>4, <1>6 DEF MainInv
<1>8. DiskAuthors'
  <2>1. CASE Crash \/ CrashAfterBlock
    <3>1. disk' = disk
      BY <2>1 DEF Crash, CrashAfterBlock
    <3> QED
      BY <1>1, <3>1 DEF AuthorInv, DiskAuthors
  <2>2. CASE CrashBeforeBlock
    BY <1>1, <2>2, HeadIsThere, HeadLeavesAuthors DEF CrashBeforeBlock
  <2> QED
    BY <2>1, <2>2 DEF Dies
<1> QED
  BY <1>1, <1>5, <1>7, <1>8, CrashGivesUp, CallStays, LogStays, SameAuthors DEF AuthorInv

LEMMA NextAuthors == Inv /\ AuthorInv /\ [Next]_vars => AuthorInv'
<1> SUFFICES ASSUME WriteInv, TokenInv, AuthorInv, [Next]_vars PROVE AuthorInv'
  BY DEF Inv
<1>1. ASSUME NEW r \in rs.requests, TokenFetched(r) \/ TokenFails(r) PROVE AuthorInv'
  BY <1>1, TokenAnswerAuthors DEF TokenFetched, TokenFails
<1>2. CASE NoticeDelivered \/ TokenDelivered
  BY <1>2, NoticeDeliveredAuthors, TokenDeliveredAuthors
<1>3. CASE WriteStored \/ CredentialChanges
  BY <1>3, WriteStoredAuthors, CredentialChangesAuthors
<1>4. CASE TokenTaken
  BY <1>4, TokensFindStarting, TokenTakenAuthors
<1>5. CASE HandshakeAnswered \/ CallBroken \/ IdleTimeout \/ BackoffElapsed
  BY <1>5, StreamAuthors
<1>6. CASE WriteAnswered \/ CallRefused
  BY <1>6, HeadAnsweredAuthors
<1>7. CASE Serve \/ Break \/ Dies
  BY <1>7, ServeAuthors, BreakAuthors, CrashAuthors
<1>8. CASE UserChanges \/ Issue
  BY <1>8, UserChangesAuthors, IssueAuthors
<1>9. CASE UNCHANGED vars
  <2>1. UNCHANGED <<author, authUser, main, known, work, user, disk, rs, log>>
    BY <1>9 DEF vars
  <2>2. SameCall(rs, rs')
    BY <2>1 DEF SameCall
  <2> QED
    BY <2>1, <2>2, WorkStays, MainStays, DiskStays, LogStays, CallStays, SameAuthors
       DEF AuthorInv
<1> QED
  BY <1>1, <1>2, <1>3, <1>4, <1>5, <1>6, <1>7, <1>8, <1>9 DEF Next, MainStep, WorkerStep, Dies

LEMMA AuthorInvariance == Spec => [](Inv /\ AuthorInv)
<1>1. AuthorInv /\ Inv /\ [Next]_vars => AuthorInv'
  BY NextAuthors
<1> QED
  BY <1>1, InitAuthors, Invariance, PTL DEF Spec

\* The backend applies every write under the credentials of the user who issued it,
\* however the user changes between issue, token, call and answer.
THEOREM AuthorsApply == Spec => []AppliedAsAuthor
<1>1. AuthorInv => AppliedAsAuthor
  BY DEF AuthorInv, LogAuthors, AppliedAsAuthor
<1> QED
  BY <1>1, AuthorInvariance, PTL

-----------------------------------------------------------------------------
(***************************************************************************)
(* The second inductive invariant: writes keep their order.                *)
(***************************************************************************)

\* Writes reach the disk in the order of issue ...
WorkOrder ==
    \A i, j \in DOMAIN work :
        i < j /\ IsWrite(work, i) /\ IsWrite(work, j) => work[i].write < work[j].write
StoredBefore ==
    \A i \in DOMAIN work :
        IsWrite(work, i) =>
            /\ \A u \in Account : \A k \in DOMAIN disk[u] : disk[u][k].write < work[i].write
            /\ \A k \in DOMAIN answers : answers[k].write < work[i].write

\* ... and stay in it, and those that are answered are gone.
DiskOrder ==
    \A u \in Account : \A i, j \in DOMAIN disk[u] :
        i < j => disk[u][i].write < disk[u][j].write
AnsweredGone ==
    \A k \in DOMAIN answers :
        /\ answers[k].write \in DOMAIN author
        /\ \A u \in Account : \A i \in DOMAIN disk[u] : disk[u][i].write # answers[k].write

OrderInv == WorkOrder /\ StoredBefore /\ DiskOrder /\ AnsweredGone

LEMMA WriteTypes ==
    ASSUME WriteInv
    PROVE  /\ DOMAIN author = 1..Len(author) /\ Len(author) \in Nat
           /\ \A u \in Account : \A i \in DOMAIN disk[u] : disk[u][i].write \in Nat
           /\ \A k \in DOMAIN answers : answers[k].write \in Nat
           /\ \A i \in DOMAIN work : IsWrite(work, i) => work[i].write \in Nat
<1>1. DOMAIN author = 1..Len(author) /\ Len(author) \in Nat
  BY LenProperties DEF WriteInv, TypeOK
<1>2. \A u \in Account : \A i \in DOMAIN disk[u] : disk[u][i].write \in Nat
  BY QueueFacts, WriteFacts, RemoteStoreAssumption DEF Write
<1>3. ASSUME NEW k \in DOMAIN answers PROVE answers[k].write \in Nat
  <2> DEFINE T == [write : 0..MaxWrites, done : BOOLEAN]
  <2>1. answers \in Seq(T)
    BY DEF WriteInv, TypeOK
  <2>2. answers[k] \in T
    <3> HIDE DEF T
    <3> QED
      BY <1>3, <2>1, ElementOfSeq, LenProperties
  <2> QED
    BY <2>2, RemoteStoreAssumption
<1>4. ASSUME NEW i \in DOMAIN work, IsWrite(work, i) PROVE work[i].write \in Nat
  <2>1. work[i] \in WorkMessage
    BY QueueDomains
  <2> QED
    BY <1>4, <2>1, RemoteStoreAssumption DEF IsWrite, WorkMessage, Notice, Write
<1> QED
  BY <1>1, <1>2, <1>3, <1>4

LEMMA InitOrder == Init => OrderInv
<1> SUFFICES ASSUME Init PROVE OrderInv
  OBVIOUS
<1>1. work = <<>> /\ answers = <<>> /\ \A u \in Account : disk[u] = <<>>
  BY DEF Init
<1>2. DOMAIN <<>> = {}
  BY EmptySeq
<1> QED
  BY <1>1, <1>2 DEF OrderInv, WorkOrder, StoredBefore, DiskOrder, AnsweredGone

\* A step that leaves the queues and answers alone, and no write behind another.
LEMMA OrderStays ==
    ASSUME OrderInv, disk' = disk, answers' = answers, author' = author,
           \/ work' = work
           \/ work' = <<>>
           \/ /\ work \in Seq(WorkMessage)
              /\ \/ work # <<>> /\ work' = Tail(work)
                 \/ \E e \in WorkMessage : e.kind # "write" /\ work' = Append(work, e)
    PROVE  OrderInv'
<1>1. DiskOrder' /\ AnsweredGone'
  BY DEF OrderInv, DiskOrder, AnsweredGone
<1>2. CASE work' = work
  BY <1>1, <1>2 DEF OrderInv, WorkOrder, StoredBefore
<1>3. CASE work' = <<>>
  BY <1>1, <1>3, EmptySeq DEF OrderInv, WorkOrder, StoredBefore
<1>4. CASE work \in Seq(WorkMessage) /\ work # <<>> /\ work' = Tail(work)
  <2> DEFINE n == Len(work)
  <2>1. /\ DOMAIN work' = 1..n - 1 /\ DOMAIN work = 1..n /\ n \in Nat
        /\ \A i \in 1..n - 1 : work'[i] = work[i + 1]
    BY <1>4, QueueMoves
  <2> HIDE DEF n
  <2>2. \A i \in DOMAIN work' :
            i + 1 \in DOMAIN work /\ work'[i] = work[i + 1]
            /\ (IsWrite(work', i) => IsWrite(work, i + 1))
    BY <2>1 DEF IsWrite
  <2>3. \A i, j \in DOMAIN work' : i < j => i + 1 < j + 1
    BY <2>1
  <2>4. WorkOrder'
    BY <2>2, <2>3 DEF OrderInv, WorkOrder
  <2>5. StoredBefore'
    BY <2>2 DEF OrderInv, StoredBefore
  <2> QED
    BY <1>1, <2>4, <2>5 DEF OrderInv
<1>5. ASSUME work \in Seq(WorkMessage),
             NEW e \in WorkMessage, e.kind # "write", work' = Append(work, e)
      PROVE  OrderInv'
  <2>1. \A i \in DOMAIN work' :
            IsWrite(work', i) => i \in DOMAIN work /\ IsWrite(work, i) /\ work'[i] = work[i]
    BY <1>5, QueueMoves DEF IsWrite
  <2>2. WorkOrder'
    BY <2>1 DEF OrderInv, WorkOrder
  <2>3. StoredBefore'
    BY <2>1 DEF OrderInv, StoredBefore
  <2> QED
    BY <1>1, <2>2, <2>3 DEF OrderInv
<1> QED
  BY <1>2, <1>3, <1>4, <1>5

\* A write that is issued comes after all others.
LEMMA IssueOrder ==
    ASSUME WriteInv, AuthorInv, OrderInv, Issue
    PROVE  OrderInv'
<1> DEFINE n == Len(author')
           e == [kind |-> "write", write |-> n]
           l == Len(author)
<1>1. author' = Append(author, known.user) /\ work' = Append(work, e) /\ UNCHANGED <<disk, answers>>
  BY DEF Issue, localVars
<1>2. /\ DOMAIN author = 1..l /\ l \in Nat /\ n = l + 1
      /\ \A k \in DOMAIN author : k < n
  <2>1. author \in Seq(Account) /\ known.user \in Account
    BY WriteFacts DEF WriteInv, TypeOK, AuthTyped
  <2>2. n = l + 1
    BY <1>1, <2>1, AppendProperties
  <2>3. DOMAIN author = 1..l /\ l \in Nat
    BY WriteTypes
  <2> QED
    BY <2>2, <2>3
<1>3. e \in WorkMessage /\ e.write = n
  BY <1>2, RemoteStoreAssumption DEF Issue, WorkMessage, Write
<1>4. AuthorsStay
  BY IssueAuthors
<1> HIDE DEF n, e, l
<1>5. \A i \in DOMAIN work' :
          \/ i \in DOMAIN work /\ work'[i] = work[i] /\ (IsWrite(work', i) => IsWrite(work, i))
          \/ work'[i] = e /\ \A j \in DOMAIN work : j < i
  BY <1>1, <1>3, QueueMoves, WriteFacts DEF IsWrite
<1>6. /\ \A i \in DOMAIN work : IsWrite(work, i) => work[i].write < n
      /\ \A u \in Account : \A k \in DOMAIN disk[u] : disk[u][k].write < n
      /\ \A k \in DOMAIN answers : answers[k].write < n
  BY <1>2 DEF AuthorInv, WorkInv, DiskAuthors, OrderInv, AnsweredGone
<1>7. WorkOrder'
  <2> SUFFICES ASSUME NEW i \in DOMAIN work', NEW j \in DOMAIN work', i < j,
                      IsWrite(work', i), IsWrite(work', j)
               PROVE  work'[i].write < work'[j].write
    BY DEF WorkOrder
  <2>1. DOMAIN work' = 1..Len(work) + 1 /\ DOMAIN work = 1..Len(work) /\ Len(work) \in Nat
    BY <1>1, <1>3, QueueMoves, WriteFacts
  <2>2. i \in DOMAIN work /\ work'[i] = work[i] /\ IsWrite(work, i)
    BY <1>1, <1>3, <2>1, QueueMoves, WriteFacts DEF IsWrite
  <2>3. CASE j \in DOMAIN work /\ work'[j] = work[j] /\ IsWrite(work, j)
    BY <2>2, <2>3 DEF OrderInv, WorkOrder
  <2>4. CASE work'[j] = e
    BY <1>3, <1>6, <2>2, <2>4
  <2> QED
    BY <1>5, <2>3, <2>4
<1>8. StoredBefore'
  <2> SUFFICES ASSUME NEW i \in DOMAIN work', IsWrite(work', i)
               PROVE  /\ \A u \in Account : \A k \in DOMAIN disk[u] : disk[u][k].write < work'[i].write
                      /\ \A k \in DOMAIN answers : answers[k].write < work'[i].write
    BY <1>1 DEF StoredBefore
  <2>1. CASE i \in DOMAIN work /\ work'[i] = work[i] /\ IsWrite(work, i)
    BY <2>1 DEF OrderInv, StoredBefore
  <2>2. CASE work'[i] = e
    BY <1>3, <1>6, <2>2
  <2> QED
    BY <1>5, <2>1, <2>2
<1>9. DiskOrder' /\ AnsweredGone'
  BY <1>1, <1>4 DEF OrderInv, DiskOrder, AnsweredGone, AuthorsStay
<1> QED
  BY <1>7, <1>8, <1>9 DEF OrderInv

\* The next write comes after all that are stored or answered.
LEMMA NextIsLast ==
    ASSUME WriteInv, OrderInv, WriteStored
    PROVE  /\ \A u \in Account : \A k \in DOMAIN disk[u] : disk[u][k].write < Head(work).write
           /\ \A k \in DOMAIN answers : answers[k].write < Head(work).write
           /\ \A i \in DOMAIN work : i > 1 /\ IsWrite(work, i) => Head(work).write < work[i].write
<1>1. 1 \in DOMAIN work /\ work[1] = Head(work) /\ DOMAIN work = 1..Len(work)
  BY QueueMoves, WriteFacts DEF WriteStored
<1>2. IsWrite(work, 1)
  BY <1>1 DEF WriteStored, IsWrite
<1> QED
  BY <1>1, <1>2 DEF OrderInv, WorkOrder, StoredBefore

LEMMA WriteStoredOrder ==
    ASSUME WriteInv, AuthorInv, OrderInv, WriteStored
    PROVE  OrderInv'
<1> DEFINE n == Head(work).write
           q == disk[user]
           b == Batch(nextId, n)
<1>1. /\ work # <<>> /\ work' = Tail(work) /\ Head(work).kind = "write"
      /\ UNCHANGED <<author, user, answers>>
  BY DEF WriteStored
<1>2. b \in StoredBatch /\ disk' = [disk EXCEPT ![user] = Append(q, b)] /\ b.write = n
  BY StoredGoesOn DEF Batch
<1>3. disk \in [Account -> Seq(StoredBatch)] /\ user \in Account
  BY WriteFacts
<1>4. /\ \A u \in Account : \A k \in DOMAIN disk[u] : disk[u][k].write < n
      /\ \A k \in DOMAIN answers : answers[k].write < n /\ answers[k].write \in Nat
      /\ \A i \in DOMAIN work : i > 1 /\ IsWrite(work, i) => n < work[i].write
  BY NextIsLast, WriteTypes
<1> HIDE DEF n, b
<1>5. /\ \A u \in Account : u # user => disk'[u] = disk[u]
      /\ disk'[user] = Append(q, b)
  BY <1>2, <1>3
<1>6. /\ DOMAIN q = 1..Len(q) /\ Len(q) \in Nat
      /\ DOMAIN disk'[user] = 1..Len(q) + 1 /\ disk'[user][Len(q) + 1] = b
      /\ \A i \in 1..Len(q) : disk'[user][i] = q[i]
  BY <1>2, <1>3, <1>5, QueueMoves
<1>7. \A u \in Account : \A i \in DOMAIN disk'[u] :
          (i \in DOMAIN disk[u] /\ disk'[u][i] = disk[u][i]) \/ disk'[u][i].write = n
  BY <1>2, <1>5, <1>6
<1>8. \A i \in DOMAIN work' :
          i + 1 \in DOMAIN work /\ work'[i] = work[i + 1] /\ i + 1 > 1
          /\ (IsWrite(work', i) => IsWrite(work, i + 1))
  BY <1>1, QueueMoves, WriteFacts DEF IsWrite
<1>9. WorkOrder'
  <2>1. \A i, j \in DOMAIN work' : i < j => i + 1 < j + 1
    BY <1>1, QueueMoves, WriteFacts
  <2> QED
    BY <1>8, <2>1 DEF OrderInv, WorkOrder
<1>10. StoredBefore'
  <2> SUFFICES ASSUME NEW i \in DOMAIN work', IsWrite(work', i)
               PROVE  /\ \A u \in Account : \A k \in DOMAIN disk'[u] :
                             disk'[u][k].write < work'[i].write
                      /\ \A k \in DOMAIN answers : answers[k].write < work'[i].write
    BY <1>1 DEF StoredBefore
  <2>1. i + 1 \in DOMAIN work /\ work'[i] = work[i + 1] /\ IsWrite(work, i + 1) /\ i + 1 > 1
    BY <1>8
  <2>2. n < work'[i].write
    BY <1>4, <2>1
  <2>3. /\ \A u \in Account : \A k \in DOMAIN disk[u] : disk[u][k].write < work'[i].write
        /\ \A k \in DOMAIN answers : answers[k].write < work'[i].write
    BY <2>1 DEF OrderInv, StoredBefore
  <2> QED
    BY <1>7, <2>2, <2>3
<1>11. DiskOrder'
  <2> SUFFICES ASSUME NEW u \in Account, NEW i \in DOMAIN disk'[u], NEW j \in DOMAIN disk'[u],
                      i < j
               PROVE  disk'[u][i].write < disk'[u][j].write
    BY DEF DiskOrder
  <2>1. CASE u # user
    <3>1. disk'[u] = disk[u]
      BY <1>5, <2>1
    <3> QED
      BY <3>1 DEF OrderInv, DiskOrder
  <2>2. CASE u = user
    <3>1. i \in DOMAIN q /\ disk'[u][i] = q[i]
      BY <1>6, <2>2
    <3>2. CASE j \in DOMAIN q
      <4>1. disk'[u][j] = q[j]
        BY <1>6, <2>2, <3>2
      <4> QED
        BY <1>3, <2>2, <3>1, <3>2, <4>1 DEF OrderInv, DiskOrder
    <3>3. CASE j = Len(q) + 1
      <4>1. disk'[u][j].write = n
        BY <1>2, <1>6, <2>2, <3>3
      <4> QED
        BY <1>3, <1>4, <2>2, <3>1, <4>1
    <3> QED
      BY <1>6, <2>2, <3>2, <3>3
  <2> QED
    BY <2>1, <2>2
<1>12. AnsweredGone'
  <2> SUFFICES ASSUME NEW k \in DOMAIN answers, NEW u \in Account, NEW i \in DOMAIN disk'[u]
               PROVE  disk'[u][i].write # answers[k].write
    BY <1>1 DEF OrderInv, AnsweredGone
  <2>1. n # answers[k].write
    BY <1>4
  <2> QED
    BY <1>7, <2>1 DEF OrderInv, AnsweredGone
<1> QED
  BY <1>9, <1>10, <1>11, <1>12 DEF OrderInv

LEMMA HeadLeavesOrder ==
    ASSUME WriteInv, AuthorInv, OrderInv, NEW done, HeadLeaves(done), rs.pipeline # <<>>,
           author' = author, work' = work \/ work' = <<>>
    PROVE  OrderInv'
<1> DEFINE q == disk[user]
           n == Head(q).write
           a == [write |-> n, done |-> done]
<1>3. /\ disk' = [disk EXCEPT ![user] = Tail(q)] /\ q # <<>>
      /\ answers' = Append(answers, a)
  BY HeadLeavesQueue
<1>4. disk \in [Account -> Seq(StoredBatch)] /\ user \in Account /\ q \in Seq(StoredBatch)
  BY WriteFacts
<1>5. /\ \A u \in Account : u # user => disk'[u] = disk[u]
      /\ disk'[user] = Tail(q)
  BY <1>3, <1>4
<1>6. /\ DOMAIN q = 1..Len(q) /\ Len(q) \in Nat /\ Len(q) >= 1 /\ q[1].write = n
      /\ DOMAIN Tail(q) = 1..Len(q) - 1
      /\ \A i \in 1..Len(q) - 1 : Tail(q)[i] = q[i + 1]
  BY <1>3, <1>4, QueueMoves
<1>7. \A k \in DOMAIN answers' : (k \in DOMAIN answers /\ answers'[k] = answers[k]) \/ answers'[k].write = n
  <2> DEFINE T == [write : Nat, done : {done} \cup BOOLEAN]
  <2>1. n \in Nat
    BY <1>4, <1>6, QueueFacts, RemoteStoreAssumption DEF Write
  <2>2. answers \in Seq(T) /\ a \in T
    <3>1. [write : 0..MaxWrites, done : BOOLEAN] \subseteq T
      BY RemoteStoreAssumption
    <3>2. answers \in Seq([write : 0..MaxWrites, done : BOOLEAN])
      BY DEF WriteInv, TypeOK
    <3> QED
      BY <2>1, <3>1, <3>2, SeqMonotonic
  <2>3. a.write = n
    OBVIOUS
  <2> HIDE DEF T, a
  <2> QED
    BY <1>3, <2>2, <2>3, QueueMoves
<1> HIDE DEF q, n, a
<1>8. \A u \in Account : \A i \in DOMAIN disk'[u] :
          \E j \in DOMAIN disk[u] : disk[u][j] = disk'[u][i] /\ (u = user => j # 1)
  <2> SUFFICES ASSUME NEW u \in Account, NEW i \in DOMAIN disk'[u]
               PROVE  \E j \in DOMAIN disk[u] : disk[u][j] = disk'[u][i] /\ (u = user => j # 1)
    OBVIOUS
  <2>1. CASE u # user
    BY <1>5, <2>1
  <2>2. CASE u = user
    <3>1. i \in 1..Len(q) - 1 /\ disk'[u][i] = q[i + 1] /\ i + 1 \in DOMAIN q /\ i + 1 # 1
      BY <1>5, <1>6, <2>2
    <3> QED
      BY <2>2, <3>1 DEF q
  <2> QED
    BY <2>1, <2>2
<1>9. n \in DOMAIN author /\ author[n] = user /\ 1 \in DOMAIN q /\ q[1].write = n
  BY <1>4, <1>6 DEF AuthorInv, DiskAuthors, q
<1>10. \A u \in Account : \A i \in DOMAIN disk'[u] : disk'[u][i].write # n
  <2> SUFFICES ASSUME NEW u \in Account, NEW i \in DOMAIN disk'[u], disk'[u][i].write = n
               PROVE  FALSE
    OBVIOUS
  <2>1. PICK j \in DOMAIN disk[u] : disk[u][j] = disk'[u][i] /\ (u = user => j # 1)
    BY <1>8
  <2>2. disk[u][j].write = n /\ u = user
    BY <1>9, <2>1 DEF AuthorInv, DiskAuthors
  <2>3. 1 < j /\ j \in DOMAIN q /\ q[j].write = n
    BY <1>6, <2>1, <2>2 DEF q
  <2>4. n < n /\ n \in Nat
    BY <1>4, <1>9, <2>3, WriteTypes DEF OrderInv, DiskOrder, q
  <2> QED
    BY <2>4
<1>11. WorkOrder'
  BY EmptySeq DEF OrderInv, WorkOrder
<1>12. StoredBefore'
  <2> SUFFICES ASSUME work' = work, NEW i \in DOMAIN work, IsWrite(work, i)
               PROVE  /\ \A u \in Account : \A k \in DOMAIN disk'[u] :
                             disk'[u][k].write < work[i].write
                      /\ \A k \in DOMAIN answers' : answers'[k].write < work[i].write
    BY EmptySeq DEF StoredBefore, IsWrite
  <2>1. /\ \A u \in Account : \A k \in DOMAIN disk[u] : disk[u][k].write < work[i].write
        /\ \A k \in DOMAIN answers : answers[k].write < work[i].write
    BY DEF OrderInv, StoredBefore
  <2>2. n < work[i].write
    BY <1>4, <1>9, <2>1 DEF q
  <2> QED
    BY <1>7, <1>8, <2>1, <2>2
<1>13. DiskOrder'
  <2> SUFFICES ASSUME NEW u \in Account, NEW i \in DOMAIN disk'[u], NEW j \in DOMAIN disk'[u],
                      i < j
               PROVE  disk'[u][i].write < disk'[u][j].write
    BY DEF DiskOrder
  <2>1. CASE u # user
    <3>1. disk'[u] = disk[u]
      BY <1>5, <2>1
    <3> QED
      BY <3>1 DEF OrderInv, DiskOrder
  <2>2. CASE u = user
    <3>1. i \in 1..Len(q) - 1 /\ j \in 1..Len(q) - 1
      BY <1>5, <1>6, <2>2
    <3>2. disk'[u][i] = q[i + 1] /\ disk'[u][j] = q[j + 1]
      BY <1>5, <1>6, <2>2, <3>1
    <3>3. i + 1 \in DOMAIN q /\ j + 1 \in DOMAIN q /\ i + 1 < j + 1
      BY <1>6, <3>1
    <3> QED
      BY <1>4, <3>2, <3>3 DEF OrderInv, DiskOrder, q
  <2> QED
    BY <2>1, <2>2
<1>14. AnsweredGone'
  <2> SUFFICES ASSUME NEW k \in DOMAIN answers'
               PROVE  /\ answers'[k].write \in DOMAIN author
                      /\ \A u \in Account : \A i \in DOMAIN disk'[u] :
                             disk'[u][i].write # answers'[k].write
    BY DEF AnsweredGone
  <2>1. CASE answers'[k].write = n
    BY <1>9, <1>10, <2>1
  <2>2. CASE k \in DOMAIN answers /\ answers'[k] = answers[k]
    BY <1>8, <2>2 DEF OrderInv, AnsweredGone
  <2> QED
    BY <1>7, <2>1, <2>2
<1> QED
  BY <1>11, <1>12, <1>13, <1>14 DEF OrderInv

LEMMA HeadAnsweredOrder ==
    ASSUME WriteInv, AuthorInv, OrderInv, WriteAnswered \/ CallRefused
    PROVE  OrderInv'
<1>1. rs.pipeline # <<>> /\ \E done : HeadLeaves(done)
  BY AnswerGoesOn DEF WriteAnswered, CallRefused, RefusalShown, HeadAnswered
<1>2. UNCHANGED <<author, work>>
  BY DEF WriteAnswered, CallRefused
<1> QED
  BY <1>1, <1>2, HeadLeavesOrder

LEMMA CrashOrder ==
    ASSUME WriteInv, AuthorInv, OrderInv, Dies
    PROVE  OrderInv'
<1>1. work' = <<>> /\ author' = author
  BY DiesFromOrder DEF Relaunched
<1>2. CASE Crash \/ CrashAfterBlock
  BY <1>1, <1>2, OrderStays DEF Crash, CrashAfterBlock
<1>3. CASE CrashBeforeBlock
  BY <1>1, <1>3, HeadIsThere, HeadLeavesOrder DEF CrashBeforeBlock
<1> QED
  BY <1>2, <1>3 DEF Dies

LEMMA NextOrder == Inv /\ AuthorInv /\ OrderInv /\ [Next]_vars => OrderInv'
<1> SUFFICES ASSUME WriteInv, AuthorInv, OrderInv, [Next]_vars PROVE OrderInv'
  BY DEF Inv
<1>0. work \in Seq(WorkMessage)
  BY WriteFacts
<1>1. ASSUME NEW r \in rs.requests, TokenFetched(r) \/ TokenFails(r) PROVE OrderInv'
  <2>1. UNCHANGED <<author, work, disk, answers>>
    BY <1>1 DEF TokenFetched, TokenFails, TokenAnswer, localVars
  <2> QED
    BY <2>1, OrderStays
<1>2. CASE NoticeDelivered \/ TokenDelivered
  <2>1. UNCHANGED <<author, disk, answers>>
    BY <1>2 DEF NoticeDelivered, TokenDelivered, localVars
  <2>2. \E e \in WorkMessage : e.kind # "write" /\ work' = Append(work, e)
    BY <1>2, HeadOfMain DEF NoticeDelivered, TokenDelivered, MainMessage, WorkMessage, Notice
  <2> QED
    BY <1>0, <2>1, <2>2, OrderStays
<1>3. CASE CredentialChanges \/ TokenTaken
  <2>1. work # <<>> /\ work' = Tail(work) /\ UNCHANGED <<author, disk, answers>>
    BY <1>3 DEF CredentialChanges, TokenTaken, localVars
  <2> QED
    BY <1>0, <2>1, OrderStays
<1>4. CASE \/ HandshakeAnswered \/ CallBroken \/ IdleTimeout \/ BackoffElapsed
           \/ Serve \/ Break \/ UserChanges
  <2>1. UNCHANGED <<author, work, disk, answers>>
    BY <1>4 DEF HandshakeAnswered, CallBroken, IdleTimeout, BackoffElapsed, Serve, Break,
                UserChanges, localVars
  <2> QED
    BY <2>1, OrderStays
<1>5. CASE WriteAnswered \/ CallRefused
  BY <1>5, HeadAnsweredOrder
<1>6. CASE WriteStored
  BY <1>6, WriteStoredOrder
<1>7. CASE Issue
  BY <1>7, IssueOrder
<1>8. CASE Dies
  BY <1>8, CrashOrder
<1>9. CASE UNCHANGED vars
  BY <1>9, OrderStays DEF vars
<1> QED
  BY <1>1, <1>2, <1>3, <1>4, <1>5, <1>6, <1>7, <1>8, <1>9 DEF Next, MainStep, WorkerStep, Dies

LEMMA OrderInvariance == Spec => [](Inv /\ AuthorInv /\ OrderInv)
<1>1. OrderInv /\ Inv /\ AuthorInv /\ [Next]_vars => OrderInv'
  BY NextOrder
<1> QED
  BY <1>1, InitOrder, AuthorInvariance, PTL DEF Spec

\* What a step adds to the log was on the disk.
LEMMA AppliedIsStored ==
    ASSUME WriteInv, [Next]_vars, NEW i \in DOMAIN log', i \notin DOMAIN log
    PROVE  \E k \in DOMAIN disk[user] : log'[i].write = disk[user][k].write
<1>1. Serve
  BY DEF Next, MainStep, WorkerStep, UserChanges, Issue, TokenFetched, TokenFails, TokenAnswer,
         NoticeDelivered, TokenDelivered, WriteStored, CredentialChanges, TokenTaken,
         HandshakeAnswered, WriteAnswered, CallRefused, CallBroken, IdleTimeout,
         BackoffElapsed, Break, Crash, CrashAfterBlock, CrashBeforeBlock, Relaunched, vars
<1>2. PICK k \in DOMAIN disk[user] :
          log' = Append(log, [write |-> disk[user][k].write, as |-> rs.as])
  BY <1>1, ServeLogs
<1> DEFINE e == [write |-> disk[user][k].write, as |-> rs.as]
           T == [write : 0..MaxWrites, as : Account]
<1>3. log \in Seq(T)
  BY DEF WriteInv, TypeOK
<1>4. e \in T
  <2>1. disk[user][k].write \in 0..MaxWrites
    BY QueueFacts, WriteFacts, RemoteStoreAssumption DEF Write
  <2>2. rs.as \in Account
    BY WriteFacts DEF Stream
  <2> QED
    BY <2>1, <2>2
<1>5. e.write = disk[user][k].write
  OBVIOUS
<1> HIDE DEF e, T
<1>6. log' = Append(log, e)
  BY <1>2 DEF e
<1>7. log'[i] = e
  BY <1>3, <1>4, <1>6, QueueMoves
<1> QED
  BY <1>5, <1>7

\* A write whose block was called is off the disk, or the process died in between.
RanGone == \A r \in ran : r.write \in interrupted \/ Answered(r.write)

\* The history of answers only grows.
AnswersGrow == \A n : Answered(n) => Answered(n)'

LEMMA AnswersStay ==
    ASSUME answers' = answers
    PROVE  AnswersGrow
BY DEF AnswersGrow, Answered

LEMMA HeadLeavesAnswers ==
    ASSUME WriteInv, NEW done \in BOOLEAN, HeadLeaves(done), rs.pipeline # <<>>
    PROVE  /\ AnswersGrow
           /\ \E i \in DOMAIN answers' : answers'[i].write = Head(rs.pipeline).write
<1> DEFINE a == [write |-> Head(rs.pipeline).write, done |-> done]
           T == [write : 0..MaxWrites, done : BOOLEAN]
<1>1. answers' = Append(answers, a)
  BY DEF HeadLeaves
<1>2. answers \in Seq(T) /\ a \in T
  <2>1. Head(rs.pipeline) \in StoredBatch
    BY AnsweredQueue, WriteFacts
  <2>2. Head(rs.pipeline).write \in 0..MaxWrites
    BY <2>1, RemoteStoreAssumption DEF StoredBatch, Write
  <2> QED
    BY <2>2 DEF WriteInv, TypeOK
<1>3. a.write = Head(rs.pipeline).write
  OBVIOUS
<1> HIDE DEF a, T
<1>4. /\ DOMAIN answers \subseteq DOMAIN answers'
      /\ \A i \in DOMAIN answers : answers'[i] = answers[i]
      /\ \E i \in DOMAIN answers' : answers'[i] = a
  BY <1>1, <1>2, QueueMoves
<1>5. AnswersGrow
  BY <1>4 DEF AnswersGrow, Answered
<1> QED
  BY <1>3, <1>4, <1>5

LEMMA RanStays ==
    ASSUME RanGone, AnswersGrow, ran' = ran, interrupted' = interrupted
    PROVE  RanGone'
BY DEF RanGone, AnswersGrow

LEMMA HeadAnsweredRan ==
    ASSUME WriteInv, RanGone, WriteAnswered \/ CallRefused
    PROVE  RanGone'
<1>1. PICK done \in BOOLEAN : HeadAnswered(done)
  BY DEF WriteAnswered, CallRefused
<1>2. rs.pipeline # <<>>
  BY HeadIsThere DEF WriteAnswered, CallRefused
<1>3. /\ AnswersGrow
      /\ \E i \in DOMAIN answers' : answers'[i].write = Head(rs.pipeline).write
  BY <1>1, <1>2, HeadLeavesAnswers DEF HeadAnswered
<1>4. \A r \in ran' : r \in ran \/ r.write = Head(rs.pipeline).write
  BY <1>1 DEF HeadAnswered, HeadCalled
<1>5. interrupted' = interrupted
  BY <1>1 DEF HeadAnswered
<1> QED
  BY <1>3, <1>4, <1>5 DEF RanGone, AnswersGrow, Answered

LEMMA CrashRan ==
    ASSUME WriteInv, RanGone, Dies
    PROVE  RanGone'
<1>1. CASE Crash
  BY <1>1, AnswersStay, RanStays DEF Crash
<1>2. CASE CrashAfterBlock
  <2>1. \A r \in ran' : r \in ran \/ r.write = Head(rs.pipeline).write
    BY <1>2 DEF CrashAfterBlock, HeadCalled
  <2>2. AnswersGrow /\ interrupted' = interrupted \cup {Head(rs.pipeline).write}
    BY <1>2, AnswersStay DEF CrashAfterBlock
  <2> QED
    BY <2>1, <2>2 DEF RanGone, AnswersGrow
<1>3. CASE CrashBeforeBlock
  BY <1>3, HeadIsThere, HeadLeavesAnswers, RanStays DEF CrashBeforeBlock
<1> QED
  BY <1>1, <1>2, <1>3 DEF Dies

LEMMA NextRan == Inv /\ RanGone /\ [Next]_vars => RanGone'
<1> SUFFICES ASSUME WriteInv, RanGone, [Next]_vars PROVE RanGone'
  BY DEF Inv
<1>1. CASE MainStep \/ \E r \in rs.requests : TokenFails(r)
  BY <1>1, AnswersStay, RanStays
     DEF MainStep, TokenFetched, TokenFails, TokenAnswer, NoticeDelivered, TokenDelivered,
         localVars
<1>2. CASE \/ WriteStored \/ CredentialChanges \/ TokenTaken \/ HandshakeAnswered
           \/ CallBroken \/ BackoffElapsed
  BY <1>2, AnswersStay, RanStays
     DEF WriteStored, CredentialChanges, TokenTaken, HandshakeAnswered, CallBroken,
         BackoffElapsed, localVars
<1>3. CASE Serve \/ UserChanges \/ Issue \/ IdleTimeout \/ Break
  BY <1>3, AnswersStay, RanStays DEF Serve, UserChanges, Issue, IdleTimeout, Break, localVars
<1>4. CASE WriteAnswered \/ CallRefused
  BY <1>4, HeadAnsweredRan
<1>5. CASE Dies
  BY <1>5, CrashRan
<1>6. CASE UNCHANGED vars
  BY <1>6, AnswersStay, RanStays DEF vars
<1> QED
  BY <1>1, <1>2, <1>3, <1>4, <1>5, <1>6 DEF Next, WorkerStep, Dies

\* acknowledgeBatch and processUserCallbacksForBatchID: a write that left the disk is
\* not applied by the backend any more, and one whose completion block was called only
\* if the process died between the two: a pipeline that is sent again begins behind the
\* answered writes.
THEOREM AnswersAreLast == Spec => NeverAppliedAfterAnswer
<1> DEFINE Old(n) == \/ \E j \in DOMAIN answers : answers[j].write = n
                     \/ (\E r \in ran : r.write = n) /\ n \notin interrupted
<1>1. Inv /\ AuthorInv /\ OrderInv /\ RanGone /\ [Next]_vars =>
          [\A i \in DOMAIN log' \ DOMAIN log :
              LET n == log'[i].write
              IN  /\ \A j \in DOMAIN answers : answers[j].write # n
                  /\ (\E r \in ran : r.write = n) => n \in interrupted]_vars
  <2> SUFFICES ASSUME WriteInv, OrderInv, RanGone, [Next]_vars,
                      NEW i \in DOMAIN log', i \notin DOMAIN log
               PROVE  ~Old(log'[i].write)
    BY DEF Inv
  <2>1. \A j \in DOMAIN answers : answers[j].write # log'[i].write
    BY AppliedIsStored, WriteFacts DEF OrderInv, AnsweredGone
  <2> QED
    BY <2>1 DEF RanGone, Answered
<1>2. Init => RanGone
  BY DEF Init, RanGone
<1>3. Inv /\ RanGone /\ [Next]_vars => RanGone'
  BY NextRan
<1> QED
  BY <1>1, <1>2, <1>3, OrderInvariance, PTL DEF Spec, NeverAppliedAfterAnswer

-----------------------------------------------------------------------------
(***************************************************************************)
(* The promise of WriteLog.                                                *)
(***************************************************************************)

\* A write that ended its call is the one that comes after the answered ones.
RefusedNext ==
    rs.ended = "permanent" =>
        /\ rs.handshake
        /\ Len(rs.results) + 1 \in DOMAIN disk[user]
        /\ disk[user][Len(rs.results) + 1].write \in Refused

\* How many of the signed-in user's writes the call has applied.
Reached(s) == IF s.handshake THEN Len(s.results) ELSE 0

\* The variables of WriteLog, as RemoteStore maps them.
BarQueue == [u \in Account |-> WritesOf(disk[u])]
BarReached ==
    [u \in Account |->
        IF u = user THEN Cardinality({i \in DOMAIN rs.results : rs.results[i] # HANDSHAKE})
        ELSE 0]
BarLog ==
    [i \in DOMAIN log |-> IF log[i].as = author[log[i].write] THEN log[i].write ELSE 0]

\* The answer of the handshake is alone on the call, and writes' answers are not it.
LEMMA AnswersAreCounted ==
    ASSUME NEW s \in Stream, NEW q \in Seq(StoredBatch), s.pipeline = FullFront(q),
           Served(s), Carried(s)
    PROVE  /\ Cardinality({i \in DOMAIN s.results : s.results[i] # HANDSHAKE}) = Reached(s)
           /\ Reached(s) \in Nat
<1> DEFINE r == s.results
           n == Len(r)
<1>1. r \in Seq(Message) /\ DOMAIN r = 1..n /\ n \in Nat
  BY LenProperties DEF Stream
<1>2. CASE s.state # "Open"
  <2>1. r = <<>> /\ ~s.handshake
    BY <1>2 DEF Served, Carried
  <2>2. {i \in DOMAIN r : r[i] # HANDSHAKE} = {}
    BY <2>1, EmptySeq
  <2> QED
    BY <2>1, <2>2, FS_EmptySet DEF Reached
<1>3. CASE s.state = "Open"
  <2>1. PICK rest \in Seq(Message) : r \o rest = Due(s)
    BY <1>3 DEF Carried
  <2>2. Len(Due(s)) = n + Len(rest) /\ \A i \in 1..n : i \in 1..Len(Due(s)) /\ r[i] = Due(s)[i]
    <3>1. Len(rest) \in Nat
      BY LenProperties
    <3>2. /\ Len(r \o rest) = n + Len(rest)
          /\ \A i \in 1..n + Len(rest) : (r \o rest)[i] = IF i <= n THEN r[i] ELSE rest[i - n]
      BY <1>1, ConcatProperties
    <3> HIDE DEF r, n
    <3>3. \A i \in 1..n : i \in 1..n + Len(rest) /\ i <= n
      BY <1>1, <3>1
    <3> QED
      BY <2>1, <3>2, <3>3
  <2>3. CASE ~s.handshake
    <3>1. Due(s) = <<HANDSHAKE>> /\ Len(<<HANDSHAKE>>) = 1 /\ <<HANDSHAKE>>[1] = HANDSHAKE
      BY <2>3 DEF Due
    <3>2. \A i \in 1..Len(Due(s)) : Due(s)[i] = HANDSHAKE
      BY <3>1
    <3>3. {i \in DOMAIN r : r[i] # HANDSHAKE} = {}
      BY <1>1, <2>2, <3>2
    <3> QED
      BY <2>3, <3>3, FS_EmptySet DEF Reached
  <2>4. CASE s.handshake
    <3>1. Due(s) = FullFront(q)
      BY <2>4 DEF Due
    <3>2. FullFront(q) \in Seq(StoredBatch)
      BY FrontLooksAlike
    <3>3. \A i \in 1..Len(Due(s)) : Due(s)[i] # HANDSHAKE
      BY <3>1, <3>2, QueueFacts DEF HANDSHAKE
    <3>4. {i \in DOMAIN r : r[i] # HANDSHAKE} = 1..n
      BY <1>1, <2>2, <3>3
    <3> HIDE DEF n
    <3>5. Cardinality(1..n) = n
      BY <1>1, FS_Interval
    <3> QED
      BY <1>1, <2>4, <3>4, <3>5 DEF Reached, n
  <2> QED
    BY <2>3, <2>4
<1> QED
  BY <1>2, <1>3

\* The same in this state, and in the next one.
LEMMA ReachedNow ==
    ASSUME WriteInv
    PROVE  /\ BarReached = [u \in Account |-> IF u = user THEN Reached(rs) ELSE 0]
           /\ Reached(rs) \in Nat /\ user \in Account
<1>1. disk[user] \in Seq(StoredBatch) /\ rs.pipeline = FullFront(disk[user]) /\ user \in Account
  BY WriteFacts
<1>2. /\ Cardinality({i \in DOMAIN rs.results : rs.results[i] # HANDSHAKE}) = Reached(rs)
      /\ Reached(rs) \in Nat
  BY <1>1, AnswersAreCounted, WriteFacts
<1> QED
  BY <1>1, <1>2 DEF BarReached

LEMMA ReachedNext ==
    ASSUME WriteInv'
    PROVE  /\ BarReached' = [u \in Account |-> IF u = user' THEN Reached(rs') ELSE 0]
           /\ Reached(rs') \in Nat /\ user' \in Account
<1>1. /\ disk'[user'] \in Seq(StoredBatch) /\ rs'.pipeline = FullFront(disk'[user'])
      /\ user' \in Account /\ rs' \in Stream /\ Served(rs') /\ Carried(rs')
  BY DEF WriteInv, TypeOK, FullFront
<1>2. /\ Cardinality({i \in DOMAIN rs'.results : rs'.results[i] # HANDSHAKE}) = Reached(rs')
      /\ Reached(rs') \in Nat
  BY <1>1, AnswersAreCounted
<1> QED
  BY <1>1, <1>2 DEF BarReached

\* A step that touches neither queues nor answers forgets, or does nothing.
LEMMA ForgetSimulates ==
    ASSUME WriteInv, WriteInv', UNCHANGED <<author, disk, log, answers>>,
           (user' = user /\ Reached(rs') \in 0..Reached(rs)) \/ Reached(rs') = 0
    PROVE  Promise!Next
<1>1. BarQueue' = BarQueue /\ BarLog' = BarLog
  BY DEF BarQueue, BarLog
<1>2. /\ BarReached = [u \in Account |-> IF u = user THEN Reached(rs) ELSE 0]
      /\ Reached(rs) \in Nat /\ user \in Account
  BY ReachedNow
<1>3. BarReached' = [u \in Account |-> IF u = user' THEN Reached(rs') ELSE 0]
  BY ReachedNext
<1>4. \E k \in 0..BarReached[user] : BarReached' = [BarReached EXCEPT ![user] = k]
  <2>1. BarReached[user] = Reached(rs)
    BY <1>2
  <2>2. CASE Reached(rs') = 0
    <3>1. BarReached' = [BarReached EXCEPT ![user] = 0]
      BY <1>2, <1>3, <2>2
    <3> QED
      BY <1>2, <2>1, <3>1
  <2>3. CASE user' = user /\ Reached(rs') \in 0..Reached(rs)
    <3>1. BarReached' = [BarReached EXCEPT ![user] = Reached(rs')]
      BY <1>2, <1>3, <2>3
    <3> QED
      BY <2>1, <2>3, <3>1
  <2> QED
    BY <2>2, <2>3
<1>5. Promise!Forget(user)
  BY <1>1, <1>4 DEF Promise!Forget, BarQueue, BarReached, BarLog
<1> QED
  BY <1>2, <1>5 DEF Promise!Next, Promise!Forget

\* The writes of a sequence move as the sequence does.
LEMMA WritesMove ==
    ASSUME NEW T, \A t \in T : t.write \in Nat, NEW q \in Seq(T)
    PROVE  /\ WritesOf(q) \in Seq(Nat) /\ Len(WritesOf(q)) = Len(q)
           /\ \A i \in 1..Len(q) : WritesOf(q)[i] = q[i].write
           /\ \A e \in T : WritesOf(Append(q, e)) = Append(WritesOf(q), e.write)
           /\ q # <<>> =>
                 /\ WritesOf(Tail(q)) = Tail(WritesOf(q))
                 /\ Head(WritesOf(q)) = Head(q).write /\ WritesOf(q) # <<>>
<1>1. \A p \in Seq(T) : /\ WritesOf(p) \in Seq(Nat) /\ Len(WritesOf(p)) = Len(p)
                        /\ Len(p) \in Nat
                        /\ \A i \in 1..Len(p) : WritesOf(p)[i] = p[i].write
  <2> SUFFICES ASSUME NEW p \in Seq(T)
               PROVE  /\ WritesOf(p) \in Seq(Nat) /\ Len(WritesOf(p)) = Len(p)
                      /\ Len(p) \in Nat
                      /\ \A i \in 1..Len(p) : WritesOf(p)[i] = p[i].write
    OBVIOUS
  <2>1. DOMAIN p = 1..Len(p) /\ Len(p) \in Nat /\ \A i \in 1..Len(p) : p[i].write \in Nat
    BY LenProperties, ElementOfSeq
  <2>2. WritesOf(p) = [i \in 1..Len(p) |-> p[i].write]
    BY <2>1 DEF WritesOf
  <2>3. WritesOf(p) \in Seq(Nat) /\ Len(WritesOf(p)) = Len(p)
    BY <2>1, <2>2
  <2> QED
    BY <2>1, <2>2, <2>3
<1> DEFINE n == Len(q)
<1>2. n \in Nat
  BY <1>1
<1>3. ASSUME NEW e \in T
      PROVE  WritesOf(Append(q, e)) = Append(WritesOf(q), e.write)
  <2> DEFINE a == WritesOf(Append(q, e))
             b == Append(WritesOf(q), e.write)
  <2>1. /\ Append(q, e) \in Seq(T) /\ Len(Append(q, e)) = n + 1
        /\ Append(q, e)[n + 1] = e /\ \A i \in 1..n : Append(q, e)[i] = q[i]
    BY AppendProperties, QueueMoves
  <2>2. /\ a \in Seq(Nat) /\ Len(a) = n + 1
        /\ \A i \in 1..n + 1 : a[i] = Append(q, e)[i].write
    BY <1>1, <2>1
  <2>3. /\ b \in Seq(Nat) /\ Len(b) = n + 1
        /\ b[n + 1] = e.write /\ \A i \in 1..n : b[i] = q[i].write
    BY <1>1, AppendProperties
  <2> HIDE DEF a, b, n
  <2>4. \A i \in 1..n + 1 : i \in 1..n \/ i = n + 1
    BY <1>2
  <2>5. \A i \in 1..n + 1 : a[i] = b[i]
    BY <2>1, <2>2, <2>3, <2>4
  <2>6. a = b
    BY <2>2, <2>3, <2>5, SeqEqual
  <2> QED
    BY <2>6 DEF a, b
<1>4. ASSUME q # <<>>
      PROVE  /\ WritesOf(Tail(q)) = Tail(WritesOf(q))
             /\ Head(WritesOf(q)) = Head(q).write /\ WritesOf(q) # <<>>
  <2> DEFINE a == WritesOf(Tail(q))
             b == Tail(WritesOf(q))
  <2>1. /\ Tail(q) \in Seq(T) /\ Len(Tail(q)) = n - 1 /\ n >= 1 /\ Head(q) = q[1]
        /\ \A i \in 1..n - 1 : Tail(q)[i] = q[i + 1]
    BY <1>4, HeadTailProperties, QueueMoves
  <2>2. /\ a \in Seq(Nat) /\ Len(a) = n - 1
        /\ \A i \in 1..n - 1 : a[i] = q[i + 1].write
    <3>1. /\ a \in Seq(Nat) /\ Len(a) = Len(Tail(q))
          /\ \A i \in 1..Len(Tail(q)) : a[i] = Tail(q)[i].write
      BY <1>1, <2>1
    <3> HIDE DEF a, n
    <3> QED
      BY <2>1, <3>1
  <2>3. WritesOf(q) # <<>> /\ WritesOf(q) \in Seq(Nat) /\ Len(WritesOf(q)) = n
    BY <1>1, <1>2, <2>1, EmptySeq
  <2>4. /\ b \in Seq(Nat) /\ Len(b) = n - 1 /\ Head(WritesOf(q)) = WritesOf(q)[1]
        /\ \A i \in 1..n - 1 : b[i] = WritesOf(q)[i + 1]
    BY <2>3, HeadTailProperties, QueueMoves
  <2> HIDE DEF a, b, n
  <2>5. \A i \in 1..n - 1 : i + 1 \in 1..n
    BY <1>2
  <2>6. \A i \in 1..n : WritesOf(q)[i] = q[i].write
    BY <1>1 DEF n
  <2>7. \A i \in 1..n - 1 : a[i] = b[i]
    BY <2>2, <2>4, <2>5, <2>6
  <2>8. a = b
    BY <2>2, <2>4, <2>7, SeqEqual
  <2>9. 1 \in 1..n
    BY <1>2, <2>1
  <2> QED
    BY <2>1, <2>3, <2>4, <2>6, <2>8, <2>9 DEF a, b
<1> QED
  BY <1>1, <1>3, <1>4

LEMMA StoredWrites ==
    ASSUME WriteInv
    PROVE  /\ \A b \in StoredBatch : b.write \in Nat
           /\ \A u \in Account : disk[u] \in Seq(StoredBatch)
<1>1. \A b \in StoredBatch : b.write \in Nat
  BY RemoteStoreAssumption DEF StoredBatch, Write
<1>2. \A u \in Account : disk[u] \in Seq(StoredBatch)
  BY WriteFacts
<1> QED
  BY <1>1, <1>2

\* What the log is when every write in it is its author's.
LEMMA LogNow ==
    ASSUME LogAuthors
    PROVE  BarLog = WritesOf(log)
BY DEF LogAuthors, BarLog, WritesOf

LEMMA LogNext ==
    ASSUME LogAuthors'
    PROVE  BarLog' = WritesOf(log')
BY DEF LogAuthors, BarLog, WritesOf

LEMMA IssueSimulates ==
    ASSUME WriteInv, AuthorInv, AuthorInv', Issue
    PROVE  Promise!Next
<1>1. /\ author' = Append(author, known.user)
      /\ UNCHANGED <<user, disk, log, answers, rs>>
  BY DEF Issue, localVars
<1>2. BarLog' = BarLog
  BY <1>1, LogNow, LogNext DEF AuthorInv, WritesOf
<1>3. BarQueue' = BarQueue /\ BarReached' = BarReached
  BY <1>1 DEF BarQueue, BarReached
<1>4. known.user \in Account
  BY WriteFacts DEF AuthTyped
<1>5. Promise!Issue(known.user)
  BY <1>1, <1>2, <1>3 DEF Promise!Issue, BarQueue, BarReached, BarLog
<1> QED
  BY <1>4, <1>5 DEF Promise!Next, Promise!Issue

LEMMA WriteStoredSimulates ==
    ASSUME WriteInv, WriteInv', AuthorInv, AuthorInv', OrderInv, WriteStored
    PROVE  Promise!Next
<1> DEFINE n == Head(work).write
           b == Batch(nextId, n)
           q == disk[user]
<1>1. UNCHANGED <<author, user, log, answers>> /\ work # <<>> /\ Head(work).kind = "write"
  BY DEF WriteStored
<1>2. /\ SameCall(rs, rs') /\ b \in StoredBatch /\ b.write = n
      /\ disk' = [disk EXCEPT ![user] = Append(q, b)]
  BY StoredGoesOn DEF Batch
<1>3. n \in DOMAIN author /\ author[n] = user
  BY <1>1, HeadIsOurs
<1>4. /\ \A u \in Account : \A k \in DOMAIN disk[u] : disk[u][k].write < n
      /\ \A k \in DOMAIN answers : answers[k].write < n
  BY NextIsLast
<1> HIDE DEF n, b
<1>5. BarLog' = BarLog
  BY <1>1 DEF BarLog
<1>6. BarReached' = BarReached
  <2>1. Reached(rs') = Reached(rs)
    BY <1>2 DEF Reached, SameCall
  <2> QED
    BY <1>1, <2>1, ReachedNow, ReachedNext
<1>7. disk \in [Account -> Seq(StoredBatch)] /\ user \in Account
  BY WriteFacts
<1>8. BarQueue' = [BarQueue EXCEPT ![author[n]] = Append(@, n)]
  <2>1. WritesOf(disk'[user]) = Append(WritesOf(disk[user]), n)
    BY <1>2, <1>7, StoredWrites, WritesMove
  <2>2. \A u \in Account : u # user => disk'[u] = disk[u]
    BY <1>2, <1>7
  <2> QED
    BY <1>3, <1>7, <2>1, <2>2 DEF BarQueue
<1>9. \A m \in Promise!Stored : m < n
  <2> SUFFICES ASSUME NEW m \in Promise!Stored PROVE m < n
    OBVIOUS
  <2>1. \/ \E u \in Account : m \in Promise!Range(BarQueue[u])
        \/ \E k \in DOMAIN answers : m = answers[k].write
    BY DEF Promise!Stored, BarQueue
  <2>2. ASSUME NEW u \in Account, m \in Promise!Range(BarQueue[u]) PROVE m < n
    BY <1>4, <2>2 DEF Promise!Range, BarQueue, WritesOf
  <2> QED
    BY <1>4, <2>1, <2>2
<1>10. Promise!Store(n)
  BY <1>1, <1>5, <1>6, <1>8, <1>9 DEF Promise!Store, BarQueue, BarReached, BarLog
<1> QED
  BY <1>3, <1>10 DEF Promise!Next, Promise!Store, n

\* The queue of the signed-in user without its head.
LEMMA HeadGoesOnPaper ==
    ASSUME WriteInv, NEW done, HeadLeaves(done), rs.pipeline # <<>>
    PROVE  LET q == WritesOf(disk[user])
           IN  /\ BarQueue' = [BarQueue EXCEPT ![user] = Tail(@)]
               /\ answers' = Append(answers, [write |-> Head(BarQueue[user]), done |-> done])
               /\ BarQueue[user] # <<>> /\ BarQueue[user] = q
               /\ Head(BarQueue[user]) = Head(disk[user]).write
<1>1. /\ disk[user] # <<>> /\ disk' = [disk EXCEPT ![user] = Tail(disk[user])]
      /\ answers' = Append(answers, [write |-> Head(disk[user]).write, done |-> done])
  BY HeadLeavesQueue
<1>2. disk \in [Account -> Seq(StoredBatch)] /\ user \in Account
  BY WriteFacts
<1>3. /\ WritesOf(Tail(disk[user])) = Tail(WritesOf(disk[user]))
      /\ Head(WritesOf(disk[user])) = Head(disk[user]).write /\ WritesOf(disk[user]) # <<>>
  BY <1>1, <1>2, StoredWrites, WritesMove
<1>4. BarQueue[user] = WritesOf(disk[user])
  BY <1>2 DEF BarQueue
<1>5. BarQueue' = [BarQueue EXCEPT ![user] = Tail(@)]
  <2>1. disk'[user] = Tail(disk[user]) /\ \A u \in Account : u # user => disk'[u] = disk[u]
    BY <1>1, <1>2
  <2> QED
    BY <1>2, <1>3, <2>1 DEF BarQueue
<1> QED
  BY <1>1, <1>3, <1>4, <1>5

LEMMA WriteAnsweredSimulates ==
    ASSUME WriteInv, WriteInv', WriteAnswered
    PROVE  Promise!Next
<1>1. /\ rs.results # <<>> /\ rs.handshake /\ HeadAnswered(TRUE)
      /\ UNCHANGED <<author, log>>
  BY DEF WriteAnswered, AnswerShown
<1>2. rs.pipeline # <<>> /\ rs'.handshake /\ rs'.results = Tail(rs.results)
  BY AnswerGoesOn
<1>3. /\ Len(rs.results) \in Nat /\ Len(rs.results) >= 1
      /\ Len(Tail(rs.results)) = Len(rs.results) - 1
  <2>1. rs.results \in Seq(Message)
    BY WriteFacts DEF Stream
  <2> QED
    BY <1>1, <2>1, QueueMoves, HeadTailProperties
<1>4. Reached(rs) > 0 /\ Reached(rs') = Reached(rs) - 1
  BY <1>1, <1>2, <1>3 DEF Reached
<1>5. /\ BarQueue' = [BarQueue EXCEPT ![user] = Tail(@)]
      /\ answers' = Append(answers, [write |-> Head(BarQueue[user]), done |-> TRUE])
      /\ user' = user
  BY <1>1, <1>2, HeadGoesOnPaper DEF HeadAnswered
<1>6. /\ user \in Account /\ BarReached[user] > 0
      /\ BarReached' = [BarReached EXCEPT ![user] = @ - 1]
  BY <1>4, <1>5, ReachedNow, ReachedNext
<1>7. BarLog' = BarLog
  BY <1>1 DEF BarLog
<1>8. Promise!Commit(user)
  BY <1>1, <1>5, <1>6, <1>7 DEF Promise!Commit, Promise!Answer, BarQueue, BarReached, BarLog
<1> QED
  BY <1>6, <1>8 DEF Promise!Next, Promise!Commit

\* Here the answers must have been shown before the end of the call.
LEMMA CallRefusedSimulates ==
    ASSUME AnswersFirst, WriteInv, WriteInv', RefusedNext, CallRefused \/ CrashBeforeBlock
    PROVE  Promise!Next
<1>1. /\ rs.results = <<>> /\ rs.ended = "permanent" /\ rs.handshake
      /\ rs.pipeline # <<>> /\ HeadLeaves(FALSE) /\ UNCHANGED <<author, log>>
  BY DEF CallRefused, CrashBeforeBlock, RefusalShown, EndShown, HeadAnswered, Relaunched
<1>2. Reached(rs) = 0 /\ Reached(rs') = 0
  BY <1>1, EmptySeq, RefusedGivesUp, CrashGivesUp DEF Reached, GivenUp, Dies
<1>3. /\ BarQueue' = [BarQueue EXCEPT ![user] = Tail(@)]
      /\ answers' = Append(answers, [write |-> Head(BarQueue[user]), done |-> FALSE])
      /\ BarQueue[user] # <<>>
      /\ Head(BarQueue[user]) = Head(disk[user]).write
  BY <1>1, HeadGoesOnPaper
<1>4. /\ user \in Account /\ BarReached[user] = 0 /\ BarReached' = BarReached
  BY <1>2, <1>3, ReachedNow, ReachedNext
<1>5. Head(BarQueue[user]) \in Refused
  <2>1. Len(rs.results) + 1 = 1
    BY <1>1, EmptySeq
  <2>2. disk[user][1].write \in Refused
    BY <1>1, <2>1 DEF RefusedNext
  <2>3. disk[user] # <<>> /\ disk[user] \in Seq(StoredBatch)
    BY <1>1, HeadLeavesQueue, WriteFacts
  <2> QED
    BY <1>3, <2>2, <2>3, QueueMoves
<1>6. BarLog' = BarLog
  BY <1>1 DEF BarLog
<1>7. Promise!Reject(user)
  BY <1>1, <1>3, <1>4, <1>5, <1>6
     DEF Promise!Reject, Promise!Answer, BarQueue, BarReached, BarLog
<1> QED
  BY <1>4, <1>7 DEF Promise!Next, Promise!Reject

LEMMA ServeSimulates ==
    ASSUME WriteInv, WriteInv', AuthorInv, AuthorInv', Serve
    PROVE  Promise!Next
<1> DEFINE r == Len(rs.results)
           m == disk[user][r + 1]
<1>1. UNCHANGED <<author, user, disk, answers>>
  BY DEF Serve, localVars
<1>2. rs.results \in Seq(Message) /\ r \in Nat /\ user \in Account /\ disk[user] \in Seq(StoredBatch)
  BY WriteFacts, LenProperties DEF Stream
<1>3. rs'.handshake = rs.handshake
  BY ServeLogs
<1>4. CASE ~rs.handshake /\ log' = log
  BY <1>1, <1>3, <1>4, ForgetSimulates DEF Reached
<1>5. CASE rs.handshake /\ log' = log /\ rs'.results = rs.results
  <2>1. Reached(rs') = Reached(rs) /\ Reached(rs) \in 0..Reached(rs)
    BY <1>2, <1>3, <1>5 DEF Reached
  <2> QED
    BY <1>1, <1>5, <2>1, ForgetSimulates
<1>6. CASE /\ rs.handshake /\ r + 1 \in DOMAIN disk[user] /\ m \in Message
           /\ m.write \notin Refused
           /\ log' = Append(log, [write |-> m.write, as |-> rs.as])
           /\ rs'.results = Append(rs.results, m)
  <2>1. Reached(rs) = r /\ Reached(rs') = r + 1
    BY <1>2, <1>3, <1>6, AppendProperties DEF Reached
  <2>2. BarQueue[user] = WritesOf(disk[user]) /\ BarQueue' = BarQueue
    BY <1>1, <1>2 DEF BarQueue
  <2>3. BarReached[user] = r /\ BarReached' = [BarReached EXCEPT ![user] = @ + 1]
    BY <1>1, <1>2, <2>1, ReachedNow, ReachedNext
  <2>4. r < Len(BarQueue[user]) /\ BarQueue[user][r + 1] = m.write
    <3>1. /\ Len(WritesOf(disk[user])) = Len(disk[user])
          /\ \A i \in 1..Len(disk[user]) : WritesOf(disk[user])[i] = disk[user][i].write
      BY <1>2, StoredWrites, WritesMove
    <3>2. DOMAIN disk[user] = 1..Len(disk[user]) /\ Len(disk[user]) \in Nat
      BY <1>2, LenProperties
    <3> HIDE DEF r
    <3>3. r + 1 \in 1..Len(disk[user]) /\ r < Len(disk[user])
      BY <1>2, <1>6, <3>2
    <3> QED
      BY <2>2, <3>1, <3>3 DEF r
  <2>5. BarLog' = Append(BarLog, m.write)
    <3> DEFINE T == [write : 0..MaxWrites, as : Account]
               e == [write |-> m.write, as |-> rs.as]
    <3>1. log \in Seq(T)
      BY DEF WriteInv, TypeOK
    <3>2. e \in T /\ e.write = m.write
      BY <1>6, WriteFacts DEF Message, Stream
    <3>3. \A t \in T : t.write \in Nat
      BY RemoteStoreAssumption
    <3> HIDE DEF T, m
    <3>4. WritesOf(Append(log, e)) = Append(WritesOf(log), e.write)
      BY <3>1, <3>2, <3>3, WritesMove
    <3> QED
      BY <1>6, <3>2, <3>4, LogNow, LogNext DEF AuthorInv
  <2> HIDE DEF r, m
  <2>6. Promise!Apply(user)
    BY <1>1, <1>6, <2>2, <2>3, <2>4, <2>5 DEF Promise!Apply, BarQueue, BarReached, BarLog
  <2> QED
    BY <1>2, <2>6 DEF Promise!Next, Promise!Apply
<1> QED
  BY <1>4, <1>5, <1>6, ServeLogs

\* What the other steps do to the answers that are coming.
LEMMA OthersSimulate ==
    ASSUME WriteInv, WriteInv', TokenFindsStarting,
           \/ \E r \in rs.requests : TokenFetched(r) \/ TokenFails(r)
           \/ NoticeDelivered \/ TokenDelivered \/ UserChanges
           \/ CredentialChanges \/ TokenTaken \/ HandshakeAnswered
           \/ CallBroken \/ IdleTimeout \/ BackoffElapsed \/ Break \/ Crash \/ CrashAfterBlock
    PROVE  Promise!Next
<1>0. Reached(rs) \in Nat /\ rs \in Stream
  BY ReachedNow, WriteFacts
<1>1. CASE \/ \E r \in rs.requests : TokenFetched(r) \/ TokenFails(r)
           \/ NoticeDelivered \/ TokenDelivered \/ UserChanges
  <2>1. UNCHANGED <<author, user, disk, log, answers>>
    BY <1>1 DEF TokenFetched, TokenFails, TokenAnswer, NoticeDelivered, TokenDelivered,
                UserChanges, localVars
  <2>2. rs'.handshake = rs.handshake /\ rs'.results = rs.results
    BY <1>0, <1>1 DEF TokenFetched, TokenFails, TokenAnswer, NoticeDelivered, TokenDelivered,
                UserChanges, Stream
  <2>3. Reached(rs') = Reached(rs)
    BY <2>2 DEF Reached
  <2> QED
    BY <1>0, <2>1, <2>3, ForgetSimulates
<1>2. CASE CredentialChanges \/ Crash \/ CrashAfterBlock
  <2>1. UNCHANGED <<author, disk, log, answers>>
    BY <1>2 DEF CredentialChanges, Crash, CrashAfterBlock, Relaunched
  <2>2. Reached(rs') = 0
    BY <1>2, CredentialsGiveUp, CrashGivesUp DEF GivenUp, Reached, Dies
  <2> QED
    BY <2>1, <2>2, ForgetSimulates
<1>3. CASE TokenTaken
  <2>1. UNCHANGED <<author, user, disk, log, answers>>
    BY <1>3 DEF TokenTaken, localVars
  <2>2. Reached(rs') = Reached(rs) \/ Reached(rs') = 0
    BY <1>3, TokenOpens DEF GivenUp, Reached
  <2> QED
    BY <1>0, <2>1, <2>2, ForgetSimulates
<1>4. CASE HandshakeAnswered \/ CallBroken \/ IdleTimeout \/ BackoffElapsed
  <2>1. UNCHANGED <<author, user, disk, log, answers>>
    BY <1>4 DEF HandshakeAnswered, CallBroken, IdleTimeout, BackoffElapsed, localVars
  <2>2. CASE HandshakeAnswered
    BY <2>1, <2>2, HandshakeGoesOn, EmptySeq, ForgetSimulates DEF Reached
  <2>3. CASE CallBroken \/ IdleTimeout
    BY <2>1, <2>3, BrokenGivesUp, ForgetSimulates DEF GivenUp, Reached
  <2>4. CASE BackoffElapsed
    <3>1. Reached(rs') = Reached(rs)
      BY <2>4, BackoffGoesOn DEF SameCall, Reached
    <3> QED
      BY <1>0, <2>1, <3>1, ForgetSimulates
  <2> QED
    BY <1>4, <2>2, <2>3, <2>4
<1>5. CASE Break
  <2>1. UNCHANGED <<author, user, disk, log, answers>>
    BY <1>5 DEF Break, localVars
  <2>2. PICK k \in 0..Len(rs.results) :
            rs' = [rs EXCEPT !.ended = "transient", !.sent = <<>>, !.results = SubSeq(@, 1, k)]
    BY <1>5 DEF Break
  <2>3. rs'.handshake = rs.handshake /\ rs'.results = SubSeq(rs.results, 1, k)
    BY <1>0, <2>2 DEF Stream
  <2>4. k \in Nat /\ k <= Len(rs.results) /\ Len(SubSeq(rs.results, 1, k)) = k
    <3>1. rs.results \in Seq(Message) /\ Len(rs.results) \in Nat
      BY <1>0, LenProperties DEF Stream
    <3>2. \A i \in 1..k : rs.results[i] \in Message
      BY <3>1, ElementOfSeq
    <3> QED
      BY <3>1, <3>2, SubSeqProperties
  <2>5. Reached(rs') \in 0..Reached(rs)
    BY <1>0, <2>3, <2>4 DEF Reached
  <2> QED
    BY <2>1, <2>5, ForgetSimulates
<1> QED
  BY <1>1, <1>2, <1>3, <1>4, <1>5

\* A call that was refused stays so until it is given up.
LEMMA RefusalStays ==
    ASSUME WriteInv, WriteInv', RefusedNext,
           \/ GivenUp(rs')
           \/ rs'.ended # "permanent"
           \/ /\ user' = user /\ disk' = disk
              /\ rs'.handshake = rs.handshake /\ rs'.results = rs.results /\ rs'.ended = rs.ended
    PROVE  RefusedNext'
BY DEF WriteInv, Carried, GivenUp, RefusedNext

LEMMA NextRefused == Inv /\ Inv' /\ RefusedNext /\ [Next]_vars => RefusedNext'
<1> SUFFICES ASSUME WriteInv, TokenInv, WriteInv', RefusedNext, [Next]_vars
             PROVE  RefusedNext'
  BY DEF Inv
<1>0. rs \in Stream /\ disk \in [Account -> Seq(StoredBatch)] /\ user \in Account
  BY WriteFacts
<1>1. ASSUME NEW r \in rs.requests, TokenFetched(r) \/ TokenFails(r) PROVE RefusedNext'
  <2>1. /\ user' = user /\ disk' = disk
        /\ rs'.handshake = rs.handshake /\ rs'.results = rs.results /\ rs'.ended = rs.ended
    BY <1>0, <1>1 DEF TokenFetched, TokenFails, TokenAnswer, localVars, Stream
  <2> QED
    BY <2>1, RefusalStays
<1>2. CASE NoticeDelivered \/ TokenDelivered \/ UserChanges \/ Issue
  BY <1>2, RefusalStays DEF NoticeDelivered, TokenDelivered, UserChanges, Issue, localVars
<1>3. CASE WriteStored
  <2> DEFINE q == disk[user]
             b == Batch(nextId, Head(work).write)
  <2>1. /\ SameCall(rs, rs') /\ b \in StoredBatch /\ user' = user
        /\ disk' = [disk EXCEPT ![user] = Append(q, b)]
    BY <1>3, StoredGoesOn DEF WriteStored
  <2>2. disk'[user] = Append(q, b) /\ q \in Seq(StoredBatch)
    BY <1>0, <2>1
  <2>3. \A i \in DOMAIN q : i \in DOMAIN Append(q, b) /\ Append(q, b)[i] = q[i]
    BY <2>1, <2>2, QueueMoves
  <2> HIDE DEF b
  <2> QED
    BY <2>1, <2>2, <2>3 DEF RefusedNext, SameCall
<1>4. CASE CredentialChanges \/ CallBroken \/ IdleTimeout \/ CallRefused \/ Dies
  BY <1>4, CredentialsGiveUp, BrokenGivesUp, RefusedGivesUp, CrashGivesUp, RefusalStays
<1>5. CASE TokenTaken
  <2>1. user' = user /\ disk' = disk
    BY <1>5 DEF TokenTaken, localVars
  <2> QED
    BY <1>5, <2>1, TokensFindStarting, TokenOpens, RefusalStays
<1>6. CASE HandshakeAnswered
  <2>1. ~rs.handshake
    BY <1>6 DEF HandshakeAnswered
  <2>2. rs'.ended # "permanent"
    BY <1>6, <2>1, HandshakeGoesOn DEF RefusedNext
  <2> QED
    BY <2>2, RefusalStays
<1>7. CASE WriteAnswered
  <2> DEFINE q == disk[user]
             r == rs.results
             n == Len(r)
  <2>1. /\ rs.pipeline # <<>> /\ HeadAnswered(TRUE) /\ r # <<>> /\ rs.handshake
        /\ rs'.handshake /\ rs'.ended = rs.ended /\ rs'.results = Tail(r)
    BY <1>7, AnswerGoesOn DEF WriteAnswered, AnswerShown
  <2>2. q # <<>> /\ q \in Seq(StoredBatch) /\ disk'[user] = Tail(q) /\ user' = user
    BY <1>0, <2>1, HeadGoes
  <2>3. r \in Seq(Message) /\ n \in Nat /\ n >= 1 /\ Len(Tail(r)) = n - 1
    BY <1>0, <2>1, HeadTailProperties, QueueMoves DEF Stream
  <2>4. /\ DOMAIN q = 1..Len(q) /\ Len(q) \in Nat
        /\ DOMAIN Tail(q) = 1..Len(q) - 1
        /\ \A i \in 1..Len(q) - 1 : Tail(q)[i] = q[i + 1]
    BY <2>2, QueueMoves
  <2>5. rs.ended = "permanent" => n + 1 \in DOMAIN q /\ q[n + 1].write \in Refused
    BY DEF RefusedNext
  <2>6. Len(rs'.results) + 1 = n
    BY <2>1, <2>3
  <2> HIDE DEF n, q
  <2>7. rs.ended = "permanent" => n \in DOMAIN Tail(q) /\ Tail(q)[n].write \in Refused
    BY <2>3, <2>4, <2>5
  <2> QED
    BY <2>1, <2>2, <2>6, <2>7 DEF RefusedNext
<1>8. CASE BackoffElapsed
  BY <1>8, BackoffGoesOn, RefusalStays DEF BackoffElapsed, localVars, SameCall
<1>9. CASE Serve
  <2>1. user' = user /\ disk' = disk
    BY <1>9 DEF Serve, localVars
  <2>2. CASE rs'.ended # "permanent"
    BY <2>2, RefusalStays
  <2>3. CASE /\ rs.handshake /\ rs'.results = rs.results
             /\ Len(rs.results) + 1 \in DOMAIN disk[user]
             /\ disk[user][Len(rs.results) + 1].write \in Refused
    BY <1>9, <2>1, <2>3, ServeLogs DEF RefusedNext
  <2> QED
    BY <1>9, <2>2, <2>3, ServeLogs
<1>10. CASE Break
  BY <1>0, <1>10, RefusalStays DEF Break, Stream
<1>11. CASE UNCHANGED vars
  BY <1>11, RefusalStays DEF vars
<1> QED
  BY <1>1, <1>2, <1>3, <1>4, <1>5, <1>6, <1>7, <1>8, <1>9, <1>10, <1>11
     DEF Next, MainStep, WorkerStep, Dies

LEMMA InitRefused == Init => RefusedNext
BY DEF Init, NewRemoteStore, RefusedNext

LEMMA InitSimulates == Init => Promise!Init
<1> SUFFICES ASSUME Init PROVE Promise!Init
  OBVIOUS
<1>1. DOMAIN <<>> = {} /\ WritesOf(<<>>) = <<>>
  BY EmptySeq DEF WritesOf
<1>2. /\ author = <<>> /\ answers = <<>> /\ log = <<>> /\ rs.results = <<>>
      /\ disk = [u \in Account |-> <<>>]
  BY DEF Init, NewRemoteStore
<1>3. BarQueue = [u \in Account |-> <<>>]
  BY <1>1, <1>2 DEF BarQueue
<1>4. BarReached = [u \in Account |-> 0]
  <2>1. {i \in DOMAIN rs.results : rs.results[i] # HANDSHAKE} = {}
    BY <1>1, <1>2
  <2> QED
    BY <2>1, FS_EmptySet DEF BarReached
<1>5. BarLog = <<>>
  BY <1>1, <1>2 DEF BarLog
<1> QED
  BY <1>2, <1>3, <1>4, <1>5 DEF Promise!Init, BarQueue, BarReached, BarLog

LEMMA StutterSimulates == UNCHANGED vars => UNCHANGED Promise!vars
BY DEF vars, Promise!vars

LEMMA NextSimulates ==
    ASSUME AnswersFirst,
           Inv, Inv', AuthorInv, AuthorInv', OrderInv, RefusedNext, [Next]_vars
    PROVE  [Promise!Next]_(Promise!vars)
<1>1. WriteInv /\ WriteInv' /\ TokenFindsStarting
  BY TokensFindStarting DEF Inv
<1>2. CASE UNCHANGED vars
  BY <1>2, StutterSimulates
<1>3. CASE Issue
  BY <1>1, <1>3, IssueSimulates
<1>4. CASE WriteStored
  BY <1>1, <1>4, WriteStoredSimulates
<1>5. CASE WriteAnswered
  BY <1>1, <1>5, WriteAnsweredSimulates
<1>6. CASE CallRefused \/ CrashBeforeBlock
  BY <1>1, <1>6, CallRefusedSimulates
<1>7. CASE Serve
  BY <1>1, <1>7, ServeSimulates
<1>8. CASE \/ \E r \in rs.requests : TokenFetched(r) \/ TokenFails(r)
           \/ NoticeDelivered \/ TokenDelivered \/ UserChanges
           \/ CredentialChanges \/ TokenTaken \/ HandshakeAnswered
           \/ CallBroken \/ IdleTimeout \/ BackoffElapsed \/ Break \/ Crash \/ CrashAfterBlock
  BY <1>1, <1>8, OthersSimulate
<1> QED
  BY <1>2, <1>3, <1>4, <1>5, <1>6, <1>7, <1>8 DEF Next, MainStep, WorkerStep

\* RemoteStore implements WriteLog, when the answers of a call are shown before its
\* end: streams, tokens, batch numbers, restarts and changes of user do not show,
\* each write is applied in its user's order and leaves the queue with one true answer.
THEOREM PromiseIsKept ==
    ASSUME AnswersFirst
    PROVE  Spec => KeepsPromise
<1>1. Inv /\ Inv' /\ RefusedNext /\ [Next]_vars => RefusedNext'
  BY NextRefused
<1>2. Inv /\ Inv' /\ AuthorInv /\ AuthorInv' /\ OrderInv /\ RefusedNext /\ [Next]_vars
      => [Promise!Next]_(Promise!vars)
  BY NextSimulates
<1> QED
  BY <1>1, <1>2, InitRefused, InitSimulates, OrderInvariance, PTL
     DEF Spec, KeepsPromise, Promise!Spec

-----------------------------------------------------------------------------
\* WriteLog as RemoteStore implements it, with what is proved of it.
Order == INSTANCE WriteLogOrder_proofs WITH
    User <- Account, queue <- BarQueue, reached <- BarReached, log <- BarLog

LEMMA SameInit == Promise!Init => Order!Init
BY DEF Promise!Init, Order!Init, BarQueue, BarReached, BarLog

LEMMA SameVars == UNCHANGED Promise!vars => UNCHANGED Order!vars
BY DEF Promise!vars, Order!vars, BarQueue, BarReached, BarLog

LEMMA SameNext == Promise!Next => Order!Next
<1>1. ASSUME NEW u \in Account, Promise!Issue(u) PROVE Order!Issue(u)
  BY <1>1 DEF Promise!Issue, Order!Issue, BarQueue, BarReached, BarLog
<1>2. ASSUME NEW u \in Account, Promise!Apply(u) PROVE Order!Apply(u)
  BY <1>2 DEF Promise!Apply, Order!Apply, BarQueue, BarReached, BarLog
<1>3. ASSUME NEW u \in Account, Promise!Forget(u) PROVE Order!Forget(u)
  BY <1>3 DEF Promise!Forget, Order!Forget, BarQueue, BarReached, BarLog
<1>4. ASSUME NEW u \in Account, Promise!Commit(u) PROVE Order!Commit(u)
  BY <1>4 DEF Promise!Commit, Order!Commit, Promise!Answer, Order!Answer,
              BarQueue, BarReached, BarLog
<1>5. ASSUME NEW u \in Account, Promise!Reject(u) PROVE Order!Reject(u)
  BY <1>5 DEF Promise!Reject, Order!Reject, Promise!Answer, Order!Answer,
              BarQueue, BarReached, BarLog
<1>6. ASSUME NEW n \in DOMAIN author, Promise!Store(n) PROVE Order!Store(n)
  BY <1>6 DEF Promise!Store, Order!Store, Promise!Stored, Order!Stored,
              Promise!Range, Order!Range, BarQueue, BarReached, BarLog
<1> QED
  BY <1>1, <1>2, <1>3, <1>4, <1>5, <1>6 DEF Promise!Next, Order!Next

LEMMA SameOrder == Order!LaterWritesWait => AppliedInOrder
BY DEF AppliedInOrder, Promise!LaterWritesWait, Order!LaterWritesWait,
       Promise!Answer, Order!Answer, Promise!Stored, Order!Stored,
       Promise!Range, Order!Range, BarQueue, BarReached, BarLog

\* Of one user's writes that came to the disk the backend applies a later one only
\* when every earlier one has been applied or was reported refused: through resends,
\* crashes, reused batch numbers and other users' turns. WriteLog promises it, and
\* RemoteStore keeps its promise.
THEOREM UsersWritesInOrder ==
    ASSUME AnswersFirst
    PROVE  Spec => []AppliedInOrder
<1>1. [Promise!Next]_(Promise!vars) => [Order!Next]_(Order!vars)
  BY SameNext, SameVars
<1>2. Promise!Spec => Order!Spec
  BY <1>1, SameInit, PTL DEF Promise!Spec, Order!Spec
<1>3. Order!Spec => []Order!LaterWritesWait
  BY Order!OrderIsPromised
<1>4. Spec => Promise!Spec
  BY PromiseIsKept DEF KeepsPromise
<1> QED
  BY <1>2, <1>3, <1>4, SameOrder, PTL

=============================================================================
