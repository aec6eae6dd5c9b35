-------------------------- MODULE WriteLogOrder_proofs --------------------------
(***************************************************************************)
(* What WriteLog promises of the order of a user's writes.                 *)
(***************************************************************************)
EXTENDS WriteLog, TLAPS

Reply == [write : Nat, done : BOOLEAN]

Typed ==
    /\ author \in Seq(User)
    /\ queue \in [User -> Seq(Nat)]
    /\ reached \in [User -> Nat]
    /\ log \in Seq(Nat)
    /\ answers \in Seq(Reply)

\* A queue holds its user's writes in the order of issue.
QueuesInOrder ==
    \A u \in User :
        /\ reached[u] <= Len(queue[u])
        /\ \A i \in 1..Len(queue[u]) : queue[u][i] \in DOMAIN author /\ author[queue[u][i]] = u
        /\ \A i, j \in 1..Len(queue[u]) : i < j => queue[u][i] < queue[u][j]

Applied(n) == \E i \in 1..Len(log) : log[i] = n

Replied(n, done) == \E i \in 1..Len(answers) : answers[i].write = n /\ answers[i].done = done

Waiting(n) == \E u \in User : \E i \in 1..Len(queue[u]) : queue[u][i] = n

\* A write that came to the disk waits or has an answer.
Known(n) == Waiting(n) \/ Replied(n, TRUE) \/ Replied(n, FALSE)

\* What has been reached or committed was applied, what was applied came to the disk, and
\* what came to the disk was issued.
LogTrue ==
    /\ \A u \in User : \A i \in 1..reached[u] : Applied(queue[u][i])
    /\ \A n \in Nat : Replied(n, TRUE) => Applied(n)
    /\ \A i \in 1..Len(log) : Known(log[i])
    /\ \A n \in Nat : Known(n) => n \in DOMAIN author

\* LaterWritesWait, place by place of the log.
InTurn ==
    \A i \in 1..Len(log) : \A m \in Nat :
        Known(m) /\ m < log[i] /\ author[m] = author[log[i]] =>
            (\E j \in 1..i - 1 : log[j] = m) \/ Replied(m, FALSE)

OrderInv == Typed /\ QueuesInOrder /\ LogTrue /\ InTurn

-----------------------------------------------------------------------------
LEMMA Moves ==
    ASSUME NEW T, NEW q \in Seq(T)
    PROVE  /\ Len(q) \in Nat /\ DOMAIN q = 1..Len(q)
           /\ \A i \in 1..Len(q) : q[i] \in T
           /\ \A e \in T : /\ Append(q, e) \in Seq(T)
                           /\ Len(Append(q, e)) = Len(q) + 1
                           /\ Append(q, e)[Len(q) + 1] = e
                           /\ \A i \in 1..Len(q) : Append(q, e)[i] = q[i]
           /\ q # <<>> => /\ Len(q) >= 1 /\ Head(q) = q[1]
                          /\ Tail(q) \in Seq(T) /\ Len(Tail(q)) = Len(q) - 1
                          /\ \A i \in 1..Len(q) - 1 : Tail(q)[i] = q[i + 1]
OBVIOUS

LEMMA InRange ==
    ASSUME NEW T, NEW q \in Seq(T), NEW x
    PROVE  x \in Range(q) <=> \E i \in 1..Len(q) : q[i] = x
BY Moves DEF Range

LEMMA Replies ==
    ASSUME Typed
    PROVE  /\ Len(answers) \in Nat /\ DOMAIN answers = 1..Len(answers)
           /\ \A i \in 1..Len(answers) : answers[i].write \in Nat /\ answers[i].done \in BOOLEAN
           /\ \A i \in 1..Len(answers) : answers[i] = Answer(answers[i].write, answers[i].done)
<1>1. answers \in Seq(Reply)
  BY DEF Typed
<1>2. \A r \in Reply : /\ r.write \in Nat /\ r.done \in BOOLEAN
                       /\ r = Answer(r.write, r.done)
  BY DEF Reply, Answer
<1>3. /\ Len(answers) \in Nat /\ DOMAIN answers = 1..Len(answers)
      /\ \A i \in 1..Len(answers) : answers[i] \in Reply
  BY <1>1, Moves
<1> QED
  BY <1>2, <1>3

LEMMA StoredKnown ==
    ASSUME Typed
    PROVE  /\ Stored \subseteq Nat
           /\ \A n : n \in Stored <=> Known(n)
<1>1. Stored \subseteq Nat
  <2>1. \A u \in User : Range(queue[u]) \subseteq Nat
    <3> SUFFICES ASSUME NEW u \in User, NEW x \in Range(queue[u]) PROVE x \in Nat
      OBVIOUS
    <3>1. queue[u] \in Seq(Nat)
      BY DEF Typed
    <3> QED
      BY <3>1, InRange, Moves
  <2>2. \A i \in DOMAIN answers : answers[i].write \in Nat
    BY Replies
  <2> QED
    BY <2>1, <2>2 DEF Stored
<1>2. ASSUME NEW n PROVE n \in Stored <=> Known(n)
  <2>1. (\E u \in User : n \in Range(queue[u])) <=> Waiting(n)
    <3>1. \A u \in User : n \in Range(queue[u]) <=> \E i \in 1..Len(queue[u]) : queue[u][i] = n
      <4> TAKE u \in User
      <4>1. queue[u] \in Seq(Nat)
        BY DEF Typed
      <4> QED
        BY <4>1, InRange
    <3> QED
      BY <3>1 DEF Waiting
  <2>2. DOMAIN answers = 1..Len(answers) /\ \A i \in DOMAIN answers : answers[i].done \in BOOLEAN
    BY Replies
  <2>3. (\E i \in DOMAIN answers : answers[i].write = n) <=> Replied(n, TRUE) \/ Replied(n, FALSE)
    BY <2>2 DEF Replied
  <2>4. n \in Stored <=> \/ \E u \in User : n \in Range(queue[u])
                       \/ \E i \in DOMAIN answers : answers[i].write = n
    BY DEF Stored
  <2> QED
    BY <2>1, <2>3, <2>4 DEF Known
<1> QED
  BY <1>1, <1>2

\* The invariant says what it should.
LEMMA InTurnWaits == OrderInv => LaterWritesWait
<1> SUFFICES ASSUME OrderInv, NEW i \in DOMAIN log, NEW m \in Stored,
                    m < log[i], author[m] = author[log[i]]
             PROVE  (\E j \in 1..i - 1 : log[j] = m) \/ Answer(m, FALSE) \in Range(answers)
  BY DEF LaterWritesWait
<1>1. i \in 1..Len(log) /\ m \in Nat /\ Known(m)
  BY StoredKnown, Moves DEF OrderInv, Typed
<1>2. (\E j \in 1..i - 1 : log[j] = m) \/ Replied(m, FALSE)
  BY <1>1 DEF OrderInv, InTurn
<1>3. ASSUME Replied(m, FALSE) PROVE Answer(m, FALSE) \in Range(answers)
  <2>1. answers \in Seq(Reply)
    BY DEF OrderInv, Typed
  <2>2. PICK k \in 1..Len(answers) : answers[k].write = m /\ answers[k].done = FALSE
    BY <1>3 DEF Replied
  <2>3. answers[k] = Answer(m, FALSE)
    BY <2>2, Replies DEF OrderInv
  <2> QED
    BY <2>1, <2>2, <2>3, InRange
<1> QED
  BY <1>2, <1>3

-----------------------------------------------------------------------------
LEMMA IssueKeeps == ASSUME OrderInv, NEW u \in User, Issue(u) PROVE OrderInv'
<1>1. UNCHANGED <<queue, reached, log, answers>> /\ author \in Seq(User) /\ author' = Append(author, u)
  BY DEF Issue, OrderInv, Typed
<1>2. /\ author' \in Seq(User)
      /\ \A n \in DOMAIN author : n \in DOMAIN author' /\ author'[n] = author[n]
  BY <1>1, Moves
<1>3. \A n, done : /\ Known(n)' <=> Known(n)
                   /\ Replied(n, done)' <=> Replied(n, done)
                   /\ Applied(n)' <=> Applied(n)
  BY <1>1 DEF Known, Waiting, Replied, Applied
<1>4. Typed' /\ QueuesInOrder' /\ LogTrue'
  <2>1. Typed'
    BY <1>1, <1>2 DEF OrderInv, Typed
  <2>2. QueuesInOrder'
    BY <1>1, <1>2 DEF OrderInv, QueuesInOrder
  <2>3. LogTrue'
    BY <1>1, <1>2, <1>3 DEF OrderInv, LogTrue
  <2> QED
    BY <2>1, <2>2, <2>3
<1>5. InTurn'
  <2> SUFFICES ASSUME NEW i \in 1..Len(log), NEW m \in Nat,
                      Known(m), m < log[i], author'[m] = author'[log[i]]
               PROVE  (\E j \in 1..i - 1 : log[j] = m) \/ Replied(m, FALSE)
    BY <1>1, <1>3 DEF InTurn
  <2>1. log[i] \in Nat
    BY Moves DEF OrderInv, Typed
  <2>2. author[m] = author[log[i]]
    BY <1>2, <2>1 DEF OrderInv, LogTrue
  <2> QED
    BY <2>2 DEF OrderInv, InTurn
<1> QED
  BY <1>4, <1>5 DEF OrderInv

LEMMA StoreKeeps == ASSUME OrderInv, NEW n \in DOMAIN author, Store(n) PROVE OrderInv'
<1> DEFINE u == author[n]
           q == queue[u]
<1>1. /\ UNCHANGED <<author, reached, log, answers>>
      /\ queue' = [queue EXCEPT ![u] = Append(@, n)]
  BY DEF Store
<1>2. n \in Nat /\ u \in User /\ q \in Seq(Nat) /\ queue \in [User -> Seq(Nat)]
  BY Moves DEF OrderInv, Typed
<1>3. \A m \in Nat : Known(m) => m < n
  BY StoredKnown DEF Store, OrderInv
<1>4. /\ queue'[u] = Append(q, n) /\ Len(q) \in Nat
      /\ Len(queue'[u]) = Len(q) + 1 /\ queue'[u][Len(q) + 1] = n
      /\ \A i \in 1..Len(q) : queue'[u][i] = q[i] /\ q[i] \in Nat
      /\ queue' \in [User -> Seq(Nat)]
      /\ \A v \in User : v # u => queue'[v] = queue[v]
  BY <1>1, <1>2, Moves
<1>5. \A i \in 1..Len(q) : Known(q[i])
  BY <1>2 DEF Known, Waiting
<1>6. \A m, done : /\ Replied(m, done)' <=> Replied(m, done)
                   /\ Applied(m)' <=> Applied(m)
  BY <1>1 DEF Replied, Applied
<1> HIDE DEF q, u
<1>7. \A m : Known(m)' <=> Known(m) \/ m = n
  <2>1. \A m : Waiting(m)' <=> Waiting(m) \/ m = n
    <3> TAKE m
    <3>1. ASSUME Waiting(m)' PROVE Waiting(m) \/ m = n
      <4>1. PICK v \in User : \E i \in 1..Len(queue'[v]) : queue'[v][i] = m
        BY <3>1 DEF Waiting
      <4>2. CASE v # u
        BY <1>4, <4>1, <4>2 DEF Waiting
      <4>3. CASE v = u
        <5>1. PICK i \in 1..Len(q) + 1 : queue'[u][i] = m
          BY <1>4, <4>1, <4>3
        <5>2. CASE i = Len(q) + 1
          BY <1>4, <5>1, <5>2
        <5>3. CASE i # Len(q) + 1
          <6>1. i \in 1..Len(q)
            BY <1>4, <5>3
          <6> QED
            BY <1>2, <1>4, <5>1, <6>1 DEF Waiting, q
        <5> QED
          BY <5>2, <5>3
      <4> QED
        BY <4>2, <4>3
    <3>2. ASSUME Waiting(m) PROVE Waiting(m)'
      <4>1. PICK v \in User : \E i \in 1..Len(queue[v]) : queue[v][i] = m
        BY <3>2 DEF Waiting
      <4>2. CASE v # u
        BY <1>4, <4>1, <4>2 DEF Waiting
      <4>3. CASE v = u
        <5>1. PICK i \in 1..Len(q) : q[i] = m
          BY <4>1, <4>3 DEF q
        <5>2. i \in 1..Len(queue'[u]) /\ queue'[u][i] = m
          BY <1>4, <5>1
        <5> QED
          BY <1>2, <5>2 DEF Waiting
      <4> QED
        BY <4>2, <4>3
    <3>3. Waiting(n)'
      <4>1. Len(q) + 1 \in 1..Len(queue'[u])
        BY <1>4
      <4> QED
        BY <1>2, <1>4, <4>1 DEF Waiting
    <3> QED
      BY <3>1, <3>2, <3>3
  <2> QED
    BY <1>6, <2>1 DEF Known
<1>8. Typed'
  BY <1>1, <1>4 DEF OrderInv, Typed
<1>9. QueuesInOrder'
  <2> SUFFICES ASSUME NEW v \in User
               PROVE  /\ reached[v] <= Len(queue'[v])
                      /\ \A i \in 1..Len(queue'[v]) :
                            queue'[v][i] \in DOMAIN author /\ author[queue'[v][i]] = v
                      /\ \A i, j \in 1..Len(queue'[v]) : i < j => queue'[v][i] < queue'[v][j]
    BY <1>1 DEF QueuesInOrder
  <2>1. /\ reached[v] <= Len(queue[v]) /\ reached[v] \in Nat
        /\ \A i \in 1..Len(queue[v]) : queue[v][i] \in DOMAIN author /\ author[queue[v][i]] = v
        /\ \A i, j \in 1..Len(queue[v]) : i < j => queue[v][i] < queue[v][j]
    BY DEF OrderInv, QueuesInOrder, Typed
  <2>2. CASE v # u
    BY <1>4, <2>1, <2>2
  <2>3. CASE v = u
    <3>1. /\ reached[u] <= Len(q)
          /\ \A i \in 1..Len(q) : q[i] \in DOMAIN author /\ author[q[i]] = u
          /\ \A i, j \in 1..Len(q) : i < j => q[i] < q[j]
      BY <2>1, <2>3 DEF q
    <3>2. \A i \in 1..Len(q) : q[i] < n
      BY <1>3, <1>4, <1>5
    <3>3. \A i \in 1..Len(q) + 1 : i \in 1..Len(q) \/ i = Len(q) + 1
      BY <1>4
    <3>4. \A i \in 1..Len(queue'[u]) : queue'[u][i] \in DOMAIN author /\ author[queue'[u][i]] = u
      BY <1>4, <3>1, <3>3 DEF u
    <3>5. \A i, j \in 1..Len(queue'[u]) : i < j => queue'[u][i] < queue'[u][j]
      BY <1>4, <3>1, <3>2, <3>3
    <3>6. reached[u] <= Len(queue'[u])
      BY <1>4, <2>1, <2>3, <3>1
    <3> QED
      BY <2>3, <3>4, <3>5, <3>6
  <2> QED
    BY <2>2, <2>3
<1>10. LogTrue'
  <2>1. ASSUME NEW v \in User, NEW i \in 1..reached[v] PROVE Applied(queue'[v][i])
    <3>1. Applied(queue[v][i]) /\ i \in 1..Len(queue[v])
      BY Moves DEF OrderInv, LogTrue, QueuesInOrder, Typed
    <3>2. queue'[v][i] = queue[v][i]
      BY <1>4, <3>1 DEF q
    <3> QED
      BY <3>1, <3>2
  <2>2. /\ \A m \in Nat : Replied(m, TRUE) => Applied(m)
        /\ \A i \in 1..Len(log) : Known(log[i])
        /\ \A m \in Nat : Known(m) => m \in DOMAIN author
    BY DEF OrderInv, LogTrue
  <2> QED
    BY <1>1, <1>6, <1>7, <2>1, <2>2 DEF LogTrue
<1>11. InTurn'
  <2> SUFFICES ASSUME NEW i \in 1..Len(log), NEW m \in Nat,
                      Known(m) \/ m = n, m < log[i], author[m] = author[log[i]]
               PROVE  (\E j \in 1..i - 1 : log[j] = m) \/ Replied(m, FALSE)
    BY <1>1, <1>6, <1>7 DEF InTurn
  <2>1. log[i] \in Nat /\ Known(log[i])
    BY Moves DEF OrderInv, Typed, LogTrue
  <2>2. m # n
    BY <1>2, <1>3, <2>1
  <2> QED
    BY <2>2 DEF OrderInv, InTurn
<1> QED
  BY <1>8, <1>9, <1>10, <1>11 DEF OrderInv

\* The write that is applied comes after all of its user's that came to the disk
\* before it: they are answered, or in front of it and reached.
LEMMA ApplyKeeps == ASSUME OrderInv, NEW u \in User, Apply(u) PROVE OrderInv'
<1> DEFINE q == queue[u]
           k == reached[u] + 1
<1>0. PICK n : n = q[k]
  OBVIOUS
<1>1. /\ UNCHANGED <<author, queue, answers>>
      /\ log' = Append(log, n)
      /\ reached' = [reached EXCEPT ![u] = @ + 1]
      /\ reached[u] < Len(q)
  BY <1>0 DEF Apply
<1>2. /\ q \in Seq(Nat) /\ Len(q) \in Nat /\ reached[u] \in Nat
      /\ k \in 1..Len(q) /\ n \in Nat /\ log \in Seq(Nat)
  BY <1>0, <1>1, Moves DEF OrderInv, Typed
<1>3. /\ log' \in Seq(Nat) /\ Len(log) \in Nat /\ Len(log') = Len(log) + 1
      /\ log'[Len(log) + 1] = n
      /\ \A i \in 1..Len(log) : log'[i] = log[i] /\ log[i] \in Nat
  BY <1>1, <1>2, Moves
<1>4. Known(n)
  BY <1>0, <1>2 DEF Known, Waiting
<1>5. \A m, done : /\ Replied(m, done)' <=> Replied(m, done)
                   /\ Known(m)' <=> Known(m)
  BY <1>1 DEF Replied, Known, Waiting
<1>6. Applied(n)' /\ \A m : Applied(m) => Applied(m)'
  <2>1. Len(log) + 1 \in 1..Len(log') /\ \A i \in 1..Len(log) : i \in 1..Len(log')
    BY <1>3
  <2>2. Applied(n)'
    BY <1>3, <2>1 DEF Applied
  <2>3. ASSUME NEW m, Applied(m) PROVE Applied(m)'
    <3>1. PICK i \in 1..Len(log) : log[i] = m
      BY <2>3 DEF Applied
    <3>2. i \in 1..Len(log') /\ log'[i] = m
      BY <1>3, <2>1, <3>1
    <3> QED
      BY <3>2 DEF Applied
  <2> QED
    BY <2>2, <2>3
<1>7. /\ reached'[u] = k /\ reached' \in [User -> Nat]
      /\ \A v \in User : v # u => reached'[v] = reached[v]
  BY <1>1, <1>2 DEF OrderInv, Typed
<1>8. /\ n \in DOMAIN author /\ author[n] = u
      /\ \A i, j \in 1..Len(q) : i < j => q[i] < q[j]
  BY <1>0, <1>2 DEF OrderInv, QueuesInOrder
<1>9. \A i \in 1..reached[u] : Applied(q[i])
  BY DEF OrderInv, LogTrue
<1>10. \A m \in Nat : Known(m) /\ m < n /\ author[m] = u => Applied(m) \/ Replied(m, FALSE)
  <2> SUFFICES ASSUME NEW m \in Nat, Known(m), m < n, author[m] = u
               PROVE  Applied(m) \/ Replied(m, FALSE)
    OBVIOUS
  <2>1. CASE Replied(m, TRUE)
    BY <2>1 DEF OrderInv, LogTrue
  <2>2. CASE Waiting(m)
    <3>1. PICK v \in User : \E i \in 1..Len(queue[v]) : queue[v][i] = m
      BY <2>2 DEF Waiting
    <3>2. PICK i \in 1..Len(queue[v]) : queue[v][i] = m
      BY <3>1
    <3>3. v = u
      BY <3>2 DEF OrderInv, QueuesInOrder
    <3>4. i \in 1..Len(q) /\ q[i] = m
      BY <3>2, <3>3
    <3> HIDE DEF q
    <3>5. i \in 1..reached[u]
      <4>1. CASE i < k
        BY <1>2, <3>4, <4>1
      <4>2. CASE i = k
        BY <1>0, <1>2, <3>4, <4>2
      <4>3. CASE k < i
        <5>1. q[k] < q[i]
          BY <1>0, <1>2, <1>8, <3>4, <4>3
        <5> QED
          BY <1>0, <1>2, <3>4, <5>1
      <4> QED
        BY <1>2, <3>4, <4>1, <4>2, <4>3
    <3> QED
      BY <1>9, <3>4, <3>5
  <2> QED
    BY <2>1, <2>2 DEF Known
<1> HIDE DEF q
<1>11. Typed'
  BY <1>1, <1>3, <1>7 DEF OrderInv, Typed
<1>12. QueuesInOrder'
  <2>1. \A v \in User : reached[v] <= Len(queue[v])
    BY DEF OrderInv, QueuesInOrder
  <2>2. k <= Len(q)
    BY <1>2
  <2>3. \A v \in User : reached'[v] <= Len(queue[v])
    BY <1>7, <2>1, <2>2 DEF q
  <2> QED
    BY <1>1, <2>3 DEF OrderInv, QueuesInOrder
<1>13. LogTrue'
  <2>1. ASSUME NEW v \in User, NEW i \in 1..reached'[v] PROVE Applied(queue[v][i])'
    <3>1. CASE v # u
      <4>1. i \in 1..reached[v]
        BY <1>7, <3>1
      <4>2. Applied(queue[v][i])
        BY <4>1 DEF OrderInv, LogTrue
      <4> QED
        BY <1>1, <1>6, <4>2
    <3>2. CASE v = u /\ i = k
      BY <1>0, <1>1, <1>6, <3>2 DEF q
    <3>3. CASE v = u /\ i # k
      <4>1. i \in 1..reached[u]
        BY <1>2, <1>7, <2>1, <3>3
      <4> QED
        BY <1>1, <1>6, <1>9, <3>3, <4>1 DEF q
    <3> QED
      BY <3>1, <3>2, <3>3
  <2>2. \A m \in Nat : Replied(m, TRUE)' => Applied(m)'
    BY <1>5, <1>6 DEF OrderInv, LogTrue
  <2>3. \A i \in 1..Len(log') : Known(log'[i])
    <3>1. \A i \in 1..Len(log') : i \in 1..Len(log) \/ i = Len(log) + 1
      BY <1>3
    <3> QED
      BY <1>3, <1>4, <3>1 DEF OrderInv, LogTrue
  <2>4. \A m \in Nat : Known(m) => m \in DOMAIN author
    BY DEF OrderInv, LogTrue
  <2> QED
    BY <1>1, <1>5, <2>1, <2>2, <2>3, <2>4 DEF LogTrue
<1>14. InTurn'
  <2> SUFFICES ASSUME NEW i \in 1..Len(log'), NEW m \in Nat,
                      Known(m), m < log'[i], author[m] = author[log'[i]]
               PROVE  (\E j \in 1..i - 1 : log'[j] = m) \/ Replied(m, FALSE)
    BY <1>1, <1>5 DEF InTurn
  <2>1. CASE i = Len(log) + 1
    <3>1. Applied(m) \/ Replied(m, FALSE)
      BY <1>3, <1>8, <1>10, <2>1
    <3>2. ASSUME Applied(m) PROVE \E j \in 1..i - 1 : log'[j] = m
      <4>1. PICK j \in 1..Len(log) : log[j] = m
        BY <3>2 DEF Applied
      <4> QED
        BY <1>3, <2>1, <4>1
    <3> QED
      BY <3>1, <3>2
  <2>2. CASE i # Len(log) + 1
    <3>1. i \in 1..Len(log) /\ \A j \in 1..i - 1 : j \in 1..Len(log)
      BY <1>3, <2>2
    <3>2. (\E j \in 1..i - 1 : log[j] = m) \/ Replied(m, FALSE)
      BY <1>3, <3>1 DEF OrderInv, InTurn
    <3> QED
      BY <1>3, <3>1, <3>2
  <2> QED
    BY <2>1, <2>2
<1> QED
  BY <1>11, <1>12, <1>13, <1>14 DEF OrderInv

LEMMA ForgetKeeps == ASSUME OrderInv, NEW u \in User, Forget(u) PROVE OrderInv'
<1>1. UNCHANGED <<author, queue, log, answers>>
  BY DEF Forget
<1>2. PICK k \in 0..reached[u] : reached' = [reached EXCEPT ![u] = k]
  BY DEF Forget
<1>3. /\ reached' \in [User -> Nat]
      /\ \A v \in User : reached'[v] <= reached[v] /\ reached[v] \in Nat /\ Len(queue[v]) \in Nat
  BY <1>2, Moves DEF OrderInv, Typed
<1>4. \A m, done : /\ Known(m)' <=> Known(m)
                   /\ Replied(m, done)' <=> Replied(m, done)
                   /\ Applied(m)' <=> Applied(m)
  BY <1>1 DEF Known, Waiting, Replied, Applied
<1>5. Typed'
  BY <1>1, <1>3 DEF OrderInv, Typed
<1>6. QueuesInOrder'
  <2>1. \A v \in User : reached'[v] <= Len(queue[v])
    BY <1>3 DEF OrderInv, QueuesInOrder, Typed
  <2> QED
    BY <1>1, <2>1 DEF OrderInv, QueuesInOrder
<1>7. LogTrue'
  <2>1. \A v \in User : \A i \in 1..reached'[v] : i \in 1..reached[v]
    BY <1>3 DEF OrderInv, Typed
  <2> QED
    BY <1>1, <1>4, <2>1 DEF OrderInv, LogTrue
<1>8. InTurn'
  BY <1>1, <1>4 DEF OrderInv, InTurn
<1> QED
  BY <1>5, <1>6, <1>7, <1>8 DEF OrderInv

\* The front write leaves its queue with an answer, committed if it was reached.
LEMMA HeadLeaves ==
    ASSUME OrderInv, NEW u \in User, NEW done \in BOOLEAN,
           queue[u] # <<>>,
           UNCHANGED <<author, log>>,
           answers' = Append(answers, Answer(Head(queue[u]), done)),
           queue' = [queue EXCEPT ![u] = Tail(@)],
           \/ reached[u] > 0 /\ reached' = [reached EXCEPT ![u] = @ - 1]
           \/ reached[u] = 0 /\ reached' = reached /\ done = FALSE
    PROVE  OrderInv'
<1> DEFINE q == queue[u]
           h == q[1]
<1>1. /\ q \in Seq(Nat) /\ Len(q) \in Nat /\ Len(q) >= 1 /\ Head(q) = h /\ h \in Nat
      /\ queue'[u] = Tail(q) /\ Len(queue'[u]) = Len(q) - 1
      /\ \A i \in 1..Len(q) - 1 : queue'[u][i] = q[i + 1]
      /\ queue' \in [User -> Seq(Nat)]
      /\ \A v \in User : v # u => queue'[v] = queue[v]
  <2>1. queue \in [User -> Seq(Nat)] /\ q \in Seq(Nat)
    BY DEF OrderInv, Typed
  <2>2. /\ Len(q) \in Nat /\ Len(q) >= 1 /\ Head(q) = h /\ h \in Nat
        /\ Tail(q) \in Seq(Nat) /\ Len(Tail(q)) = Len(q) - 1
        /\ \A i \in 1..Len(q) - 1 : Tail(q)[i] = q[i + 1]
    BY <2>1, Moves
  <2> QED
    BY <2>1, <2>2
<1>2. /\ answers' \in Seq(Reply) /\ Len(answers) \in Nat /\ Len(answers') = Len(answers) + 1
      /\ answers'[Len(answers) + 1].write = h /\ answers'[Len(answers) + 1].done = done
      /\ \A i \in 1..Len(answers) : answers'[i] = answers[i]
  <2>1. Answer(h, done) \in Reply /\ Answer(h, done).write = h /\ Answer(h, done).done = done
    BY <1>1 DEF Answer, Reply
  <2>2. answers \in Seq(Reply) /\ answers' = Append(answers, Answer(h, done))
    BY <1>1 DEF OrderInv, Typed
  <2> QED
    BY <2>1, <2>2, Moves
<1>3. /\ reached \in [User -> Nat] /\ reached' \in [User -> Nat]
      /\ \A v \in User : v # u => reached'[v] = reached[v]
      /\ reached[u] > 0 => reached'[u] = reached[u] - 1
      /\ reached[u] = 0 => reached'[u] = 0 /\ done = FALSE
  <2>1. reached \in [User -> Nat] /\ reached[u] \in Nat
    BY DEF OrderInv, Typed
  <2>2. CASE reached[u] > 0 /\ reached' = [reached EXCEPT ![u] = @ - 1]
    <3>1. reached[u] - 1 \in Nat
      BY <2>1, <2>2
    <3> QED
      BY <2>1, <2>2, <3>1
  <2>3. CASE reached[u] = 0 /\ reached' = reached /\ done = FALSE
    BY <2>1, <2>3
  <2> QED
    BY <2>2, <2>3
<1>4. /\ h \in DOMAIN author /\ author[h] = u
      /\ \A i, j \in 1..Len(q) : i < j => q[i] < q[j]
      /\ \A i \in 1..Len(q) : q[i] \in DOMAIN author /\ author[q[i]] = u
      /\ reached[u] <= Len(q)
  <2>1. 1 \in 1..Len(q)
    BY <1>1
  <2> QED
    BY <2>1 DEF OrderInv, QueuesInOrder
<1> HIDE DEF q, h
<1>5. \A m, d : Replied(m, d)' <=> Replied(m, d) \/ (m = h /\ d = done)
  <2> TAKE m, d
  <2>1. ASSUME NEW i \in 1..Len(answers'), answers'[i].write = m, answers'[i].done = d
        PROVE  Replied(m, d) \/ (m = h /\ d = done)
    <3>1. CASE i = Len(answers) + 1
      BY <1>2, <2>1, <3>1
    <3>2. CASE i # Len(answers) + 1
      <4>1. i \in 1..Len(answers)
        BY <1>2, <3>2
      <4> QED
        BY <1>2, <2>1, <4>1 DEF Replied
    <3> QED
      BY <3>1, <3>2
  <2>2. Len(answers) + 1 \in 1..Len(answers') /\ \A i \in 1..Len(answers) : i \in 1..Len(answers')
    BY <1>2
  <2> QED
    BY <1>2, <2>1, <2>2 DEF Replied
<1>6. \A m : Applied(m)' <=> Applied(m)
  BY DEF Applied
<1>7. \A m : Known(m)' <=> Known(m)
  <2> TAKE m
  <2>1. ASSUME Waiting(m) PROVE Waiting(m)' \/ m = h
    <3>1. PICK v \in User : \E i \in 1..Len(queue[v]) : queue[v][i] = m
      BY <2>1 DEF Waiting
    <3>2. CASE v # u
      BY <1>1, <3>1, <3>2 DEF Waiting
    <3>3. CASE v = u
      <4>1. PICK i \in 1..Len(q) : q[i] = m
        BY <3>1, <3>3 DEF q
      <4>2. CASE i = 1
        BY <4>1, <4>2 DEF h
      <4>3. CASE i # 1
        <5>1. i - 1 \in 1..Len(q) - 1 /\ (i - 1) + 1 = i
          BY <1>1, <4>3
        <5>2. i - 1 \in 1..Len(queue'[u]) /\ queue'[u][i - 1] = m
          BY <1>1, <4>1, <5>1
        <5> QED
          BY <5>2 DEF Waiting
      <4> QED
        BY <4>2, <4>3
    <3> QED
      BY <3>2, <3>3
  <2>2. ASSUME Waiting(m)' PROVE Waiting(m)
    <3>1. PICK v \in User : \E i \in 1..Len(queue'[v]) : queue'[v][i] = m
      BY <2>2 DEF Waiting
    <3>2. CASE v # u
      BY <1>1, <3>1, <3>2 DEF Waiting
    <3>3. CASE v = u
      <4>1. PICK i \in 1..Len(q) - 1 : queue'[u][i] = m
        BY <1>1, <3>1, <3>3
      <4>2. i + 1 \in 1..Len(q) /\ q[i + 1] = m
        BY <1>1, <4>1
      <4> QED
        BY <4>2 DEF Waiting, q
    <3> QED
      BY <3>2, <3>3
  <2>3. Waiting(h)
    <3>1. 1 \in 1..Len(queue[u]) /\ queue[u][1] = h
      BY <1>1 DEF q, h
    <3> QED
      BY <3>1 DEF Waiting
  <2>4. done = TRUE \/ done = FALSE
    OBVIOUS
  <2> QED
    BY <1>5, <2>1, <2>2, <2>3, <2>4 DEF Known
<1>8. Typed'
  BY <1>1, <1>2, <1>3 DEF OrderInv, Typed
<1>9. QueuesInOrder'
  <2> SUFFICES ASSUME NEW v \in User
               PROVE  /\ reached'[v] <= Len(queue'[v])
                      /\ \A i \in 1..Len(queue'[v]) :
                            queue'[v][i] \in DOMAIN author /\ author[queue'[v][i]] = v
                      /\ \A i, j \in 1..Len(queue'[v]) : i < j => queue'[v][i] < queue'[v][j]
    BY DEF QueuesInOrder
  <2>1. CASE v # u
    BY <1>1, <1>3, <2>1 DEF OrderInv, QueuesInOrder
  <2>2. CASE v = u
    <3>1. reached'[u] <= Len(queue'[u])
      BY <1>1, <1>3, <1>4
    <3>2. \A i \in 1..Len(queue'[u]) : i + 1 \in 1..Len(q) /\ queue'[u][i] = q[i + 1]
      BY <1>1
    <3>3. \A i, j \in 1..Len(queue'[u]) : i < j => i + 1 < j + 1
      BY <1>1
    <3>4. \A i, j \in 1..Len(queue'[u]) : i < j => queue'[u][i] < queue'[u][j]
      BY <1>4, <3>2, <3>3
    <3>5. \A i \in 1..Len(queue'[u]) : queue'[u][i] \in DOMAIN author /\ author[queue'[u][i]] = u
      BY <1>4, <3>2
    <3> QED
      BY <2>2, <3>1, <3>4, <3>5
  <2> QED
    BY <2>1, <2>2
<1>10. LogTrue'
  <2>1. ASSUME NEW v \in User, NEW i \in 1..reached'[v] PROVE Applied(queue'[v][i])
    <3>1. CASE v # u
      BY <1>1, <1>3, <2>1, <3>1 DEF OrderInv, LogTrue
    <3>2. CASE v = u
      <4>0. reached[u] \in Nat /\ Len(q) \in Nat /\ reached[u] <= Len(q)
        BY <1>1, <1>3, <1>4
      <4>1. i \in 1..reached[u] - 1
        BY <1>3, <2>1, <3>2, <4>0
      <4>2. i + 1 \in 1..reached[u] /\ i \in 1..Len(q) - 1
        BY <4>0, <4>1
      <4>3. queue'[u][i] = queue[u][i + 1]
        BY <1>1, <4>2 DEF q
      <4> QED
        BY <3>2, <4>2, <4>3 DEF OrderInv, LogTrue
    <3> QED
      BY <3>1, <3>2
  <2>2. done = TRUE => Applied(h)
    <3>1. done = TRUE => 1 \in 1..reached[u]
      BY <1>3
    <3> QED
      BY <3>1 DEF OrderInv, LogTrue, h, q
  <2>3. \A m \in Nat : Replied(m, TRUE)' => Applied(m)
    BY <1>5, <2>2 DEF OrderInv, LogTrue
  <2>4. /\ \A i \in 1..Len(log) : Known(log[i])
        /\ \A m \in Nat : Known(m) => m \in DOMAIN author
    BY DEF OrderInv, LogTrue
  <2> QED
    BY <1>6, <1>7, <2>1, <2>3, <2>4 DEF LogTrue
<1>11. InTurn'
  BY <1>5, <1>7 DEF OrderInv, InTurn
<1> QED
  BY <1>8, <1>9, <1>10, <1>11 DEF OrderInv

LEMMA CommitKeeps == ASSUME OrderInv, NEW u \in User, Commit(u) PROVE OrderInv'
<1>1. queue[u] # <<>>
  <2>1. reached[u] > 0 /\ reached[u] <= Len(queue[u]) /\ reached[u] \in Nat
    BY DEF Commit, OrderInv, QueuesInOrder, Typed
  <2>2. queue[u] \in Seq(Nat)
    BY DEF OrderInv, Typed
  <2> QED
    BY <2>1, <2>2
<1> QED
  BY <1>1, HeadLeaves DEF Commit

LEMMA RejectKeeps == ASSUME OrderInv, NEW u \in User, Reject(u) PROVE OrderInv'
BY HeadLeaves DEF Reject

LEMMA InitOrdered == Init => OrderInv
<1> SUFFICES ASSUME Init PROVE OrderInv
  OBVIOUS
<1>1. Len(<<>>) = 0 /\ \A T : <<>> \in Seq(T)
  OBVIOUS
<1>2. Typed
  BY <1>1 DEF Init, Typed
<1>3. /\ 1..0 = {} /\ Len(log) = 0 /\ Len(answers) = 0
      /\ \A u \in User : Len(queue[u]) = 0 /\ reached[u] = 0
  BY <1>1 DEF Init
<1>4. /\ \A m, done : ~Replied(m, done)
      /\ \A m : ~Waiting(m)
  BY <1>3 DEF Waiting, Replied
<1>5. \A m : ~Known(m)
  BY <1>4 DEF Known
<1>6. QueuesInOrder
  BY <1>3 DEF QueuesInOrder
<1>7. LogTrue
  BY <1>3, <1>4, <1>5 DEF LogTrue
<1>8. InTurn
  BY <1>3 DEF InTurn
<1> QED
  BY <1>2, <1>6, <1>7, <1>8 DEF OrderInv

LEMMA NextOrdered == OrderInv /\ [Next]_vars => OrderInv'
<1> SUFFICES ASSUME OrderInv, [Next]_vars PROVE OrderInv'
  OBVIOUS
<1>1. CASE UNCHANGED vars
  <2>1. UNCHANGED <<author, queue, reached, log, answers>>
    BY <1>1 DEF vars
  <2> QED
    BY <2>1 DEF OrderInv, Typed, QueuesInOrder, LogTrue, InTurn, Known, Waiting, Replied, Applied
<1>2. ASSUME NEW u \in User, Issue(u) \/ Apply(u) \/ Forget(u) \/ Commit(u) \/ Reject(u)
      PROVE  OrderInv'
  BY <1>2, IssueKeeps, ApplyKeeps, ForgetKeeps, CommitKeeps, RejectKeeps
<1>3. ASSUME NEW n \in DOMAIN author, Store(n) PROVE OrderInv'
  BY <1>3, StoreKeeps
<1> QED
  BY <1>1, <1>2, <1>3 DEF Next

\* WriteLog keeps the order: of the writes of one user on the disk, a later one is
\* applied only when every earlier one has been applied or answered as refused,
\* however often attempts are forgotten and made again.
THEOREM OrderIsPromised == Spec => []LaterWritesWait
BY InitOrdered, NextOrdered, InTurnWaits, PTL DEF Spec

=============================================================================
