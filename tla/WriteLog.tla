-------------------------------- MODULE WriteLog --------------------------------
(***************************************************************************)
(* What the Firestore client promises of the writes it is given, without   *)
(* streams, tokens, timers or batch numbers: each user's writes wait in a  *)
(* queue that survives a crash, the backend applies them in order and      *)
(* under their author's credentials, an attempt that loses its answers is  *)
(* made again from the front, and the front write leaves the queue with    *)
(* one answer that says what the backend did. An answer counts when the    *)
(* write leaves the queue. A crash may come between the call of the        *)
(* write's block and that: for the queue the answer was lost, and the      *)
(* write will be applied again.                                            *)
(***************************************************************************)
EXTENDS Naturals, Sequences, SequencesExt

CONSTANTS
    User,      \* the accounts
    Refused    \* the writes the backend turns down, by number

\* Writes are numbered in the order in which the application issues them.
VARIABLES
    author,    \* author[n]: who issued write n
    queue,     \* queue[u]: the writes of u that have no answer, oldest first
    reached,   \* reached[u]: how many of them the present attempt has applied
    log,       \* the writes the backend applied, in order, repetitions included
    answers    \* what became of each answered write, in order

vars == <<author, queue, reached, log, answers>>

Answer(n, done) == [write |-> n, done |-> done]

Stored ==
    (UNION {Range(queue[u]) : u \in User}) \cup {answers[i].write : i \in DOMAIN answers}

Init ==
    /\ author = <<>>
    /\ queue = [u \in User |-> <<>>]
    /\ reached = [u \in User |-> 0]
    /\ log = <<>>
    /\ answers = <<>>

Issue(u) ==
    /\ author' = Append(author, u)
    /\ UNCHANGED <<queue, reached, log, answers>>

\* A write that was issued reaches the disk, in its author's queue and in the
\* order of issue; a crash may come first, and then it never does.
Store(n) ==
    /\ \A m \in Stored : m < n
    /\ queue' = [queue EXCEPT ![author[n]] = Append(@, n)]
    /\ UNCHANGED <<author, reached, log, answers>>

Apply(u) ==
    /\ reached[u] < Len(queue[u])
    /\ LET n == queue[u][reached[u] + 1]
       IN  n \notin Refused /\ log' = Append(log, n)
    /\ reached' = [reached EXCEPT ![u] = @ + 1]
    /\ UNCHANGED <<author, queue, answers>>

\* Answers are lost: the writes they spoke of will be applied again.
Forget(u) ==
    /\ \E k \in 0..reached[u] : reached' = [reached EXCEPT ![u] = k]
    /\ UNCHANGED <<author, queue, log, answers>>

Commit(u) ==
    /\ reached[u] > 0
    /\ answers' = Append(answers, Answer(Head(queue[u]), TRUE))
    /\ queue' = [queue EXCEPT ![u] = Tail(@)]
    /\ reached' = [reached EXCEPT ![u] = @ - 1]
    /\ UNCHANGED <<author, log>>

Reject(u) ==
    /\ reached[u] = 0
    /\ queue[u] # <<>>
    /\ Head(queue[u]) \in Refused
    /\ answers' = Append(answers, Answer(Head(queue[u]), FALSE))
    /\ queue' = [queue EXCEPT ![u] = Tail(@)]
    /\ UNCHANGED <<author, reached, log>>

Next ==
    \/ \E u \in User : Issue(u) \/ Apply(u) \/ Forget(u) \/ Commit(u) \/ Reject(u)
    \/ \E n \in DOMAIN author : Store(n)

Spec == Init /\ [][Next]_vars

-----------------------------------------------------------------------------
\* Of the writes of one user that came to the disk, the backend applies a later one
\* only when every earlier one has been applied or its refusal has been answered.
LaterWritesWait ==
    \A i \in DOMAIN log : \A m \in Stored :
        m < log[i] /\ author[m] = author[log[i]] =>
            \/ \E j \in 1..i - 1 : log[j] = m
            \/ Answer(m, FALSE) \in Range(answers)

=============================================================================
