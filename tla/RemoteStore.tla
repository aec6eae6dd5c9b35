------------------------------- MODULE RemoteStore -------------------------------
(***************************************************************************)
(* The write path of the Firestore client: the mutation queues on disk,    *)
(* the worker queue, the pipeline and write stream of RemoteStore, the     *)
(* tokens it asks Auth for, and the backend at the other end of the call.  *)
(* RemoteStore and its stream are one record, and their methods operators  *)
(* from record to record that an operation of the worker queue composes.   *)
(*                                                                         *)
(* Left out: the watch stream, stream tokens (the handshake does not send  *)
(* them), the length of backoffs. A call that the client has dropped       *)
(* carries nothing more to the backend.                                    *)
(***************************************************************************)
EXTENDS Naturals, Sequences, FiniteSets, SequencesExt, FiniteSetsExt

CONSTANTS
    User,          \* the accounts of Auth
    NoUser,        \* nobody: signed out
    Refused,       \* the writes, by number, that the backend turns down
    MaxPending,    \* kMaxPendingWrites: the length of the pipeline
    AnswersFirst,  \* a call that the backend ends shows every answer before its end
    MaxWrites,     \* bound: writes issued
    MaxNotices,    \* bound: changes of the user and refreshed tokens
    MaxFaults      \* bound: broken calls, failed token requests and crashes

\* A token request that failed.
Failed == "failed"

ASSUME RemoteStoreAssumption ==
    /\ NoUser \notin User
    /\ Failed \notin User \cup {NoUser}
    /\ MaxPending \in Nat \ {0}
    /\ AnswersFirst \in BOOLEAN
    /\ {MaxWrites, MaxNotices, MaxFaults} \subseteq Nat

Account == User \cup {NoUser}

VARIABLES
    author,    \* author[n]: who issued write n
    authUser,  \* FIRAuth's current user
    main,      \* work posted to the main queue: notices and answered token requests
    known,     \* the credentials provider: [user, counter]
    work,      \* work posted to the worker queue by the main queue
    user,      \* the sync engine's current user
    disk,      \* disk[u]: the mutation queue of u, or of nobody: batches [id, write]
    nextId,    \* the next batch id
    blocks,    \* the sync engine's completion blocks: [user, id, write]
    rs,        \* the RemoteStore and its write stream
    log,       \* what the backend applied: [write, as]
    answers,   \* history: the writes that left the disk, [write, done], in order
    ran,       \* history: the completion blocks that were called, [block, write]
    interrupted, \* history: writes whose block was called by a process that died
                 \* before they left the disk
    notices,   \* how many notices Auth has posted
    faults     \* how many faults have happened

vars == <<author, authUser, main, known, work, user, disk, nextId, blocks, rs,
          log, answers, ran, interrupted, notices, faults>>
authVars == <<authUser, main, known, notices>>
localVars == <<user, disk, nextId, blocks, answers, ran, interrupted>>

HANDSHAKE == [id |-> 0, write |-> 0]

Batch(id, n) == [id |-> id, write |-> n]

-----------------------------------------------------------------------------
(***************************************************************************)
(* The write stream and RemoteStore.                                       *)
(***************************************************************************)

\* A stream before its first start. "requests" are the token requests Auth
\* has not answered, "as" the user of the call's token, "sent" and "results"
\* what is on its way, "ended" how the other end has finished the call.
NewRemoteStore ==
    [pipeline |-> <<>>, state |-> "Initial", closes |-> 0, handshake |-> FALSE,
     idle |-> FALSE, requests |-> {}, as |-> NoUser,
     sent |-> <<>>, results |-> <<>>, ended |-> "no"]

IsStarted(s) == s.state \in {"Starting", "Backoff", "Open"}

\* CanWrite before the handshake is answered.
OpenIsEnough(s) == s.state = "Open"

CanWrite(s) == s.state = "Open" /\ s.handshake

\* RequestCredentials: the request remembers this start of the stream and the
\* provider's count of notices; the user is the one Auth may read for it.
RequestCredentials(s) ==
    [s EXCEPT !.requests = @ \cup
        {[closes |-> s.closes, counter |-> known.counter, user |-> authUser]}]

Start(s) ==
    IF s.state = "Error" THEN [s EXCEPT !.state = "Backoff"]
    ELSE RequestCredentials([s EXCEPT !.state = "Starting"])

ShouldStartWriteStream(s) == ~IsStarted(s) /\ s.pipeline # <<>>

StartIfNeeded(s) == IF ShouldStartWriteStream(s) THEN Start(s) ELSE s

\* Send without CancelIdleCheck.
SendOnly(s, messages) == [s EXCEPT !.sent = @ \o messages]

\* Stream.Write, once for each message.
Send(s, messages) ==
    IF messages = <<>> THEN s
    ELSE [s EXCEPT !.sent = @ \o messages, !.idle = FALSE]

MarkIdle(s) == [s EXCEPT !.idle = @ \/ s.state = "Open"]

\* How far an ordered queue goes up to a batch number.
UpTo(queue, id) == Max({i \in DOMAIN queue : queue[i].id <= id} \cup {0})

LastId(pipeline) == IF pipeline = <<>> THEN 0 ELSE Last(pipeline).id

\* Fresh, off by one: the last batch of the pipeline again.
FreshFromLast(pipeline, queue) ==
    LET k == UpTo(queue, LastId(pipeline) - 1)
    IN  SubSeq(queue, k + 1, Min({Len(queue), k + MaxPending - Len(pipeline)}))

\* Fresh without the limit on the pipeline.
FreshUnlimited(pipeline, queue) ==
    SubSeq(queue, UpTo(queue, LastId(pipeline)) + 1, Len(queue))

\* The batches of the queue that come after the pipeline's last one and fit.
Fresh(pipeline, queue) ==
    LET k == UpTo(queue, LastId(pipeline))
    IN  SubSeq(queue, k + 1, Min({Len(queue), k + MaxPending - Len(pipeline)}))

AddToWritePipeline(s, batches) ==
    LET t == [s EXCEPT !.pipeline = @ \o batches]
    IN  IF CanWrite(t) THEN Send(t, batches) ELSE t

FillWritePipeline(s, queue) ==
    LET t == AddToWritePipeline(s, Fresh(s.pipeline, queue))
    IN  StartIfNeeded(IF t.pipeline = <<>> THEN MarkIdle(t) ELSE t)

\* Closed that does not count the close.
ClosedUncounted(s, state) ==
    [s EXCEPT !.state = state, !.idle = FALSE,
              !.sent = <<>>, !.results = <<>>, !.ended = "no"]

\* Closed that keeps the writes buffered for the old call.
ClosedWithBuffer(s, state) ==
    [s EXCEPT !.state = state, !.closes = @ + 1, !.idle = FALSE,
              !.results = <<>>, !.ended = "no"]

\* Steps 2 to 7 of Stream.Close, without the listener.
Closed(s, state) ==
    [s EXCEPT !.state = state, !.closes = @ + 1, !.idle = FALSE,
              !.sent = <<>>, !.results = <<>>, !.ended = "no"]

\* WriteStream.NotifyStreamClose forgets the handshake after the listener ran.
Notified(s) == [s EXCEPT !.handshake = FALSE]

\* A graceful stop of a stream that is not wanted any more.
Stop(s) == IF IsStarted(s) THEN Notified(Closed(s, "Initial")) ELSE s

\* HandleCredentialChange that kept the pipeline.
RestartKeeping(s, queue) == FillWritePipeline(Stop(s), queue)

\* HandleCredentialChange: DisableNetworkInternal, then EnableNetwork.
Restart(s, queue) == FillWritePipeline([Stop(s) EXCEPT !.pipeline = <<>>], queue)

\* ClosedByError that leaves the stream closed.
ClosedForGood(s) == Notified(Closed(s, "Error"))

\* An error that leaves the pipeline as it is.
ClosedByError(s) == Notified(StartIfNeeded(Closed(s, "Error")))

\* ClosedByRefusal without the refill that starts the stream again.
ClosedWithoutRefill(s, queue) ==
    Notified([Closed(s, "Initial") EXCEPT !.pipeline = Tail(@)])

\* HandleWriteError has the head batch removed, inhibits backoff and refills.
ClosedByRefusal(s, queue) ==
    Notified(StartIfNeeded(FillWritePipeline(
        [Closed(s, "Initial") EXCEPT !.pipeline = Tail(@)], queue)))

Opened(s, u) == Send([s EXCEPT !.state = "Open", !.as = u], <<HANDSHAKE>>)

HandshakeCompleted(s) ==
    Send([s EXCEPT !.handshake = TRUE, !.results = Tail(@)], s.pipeline)

-----------------------------------------------------------------------------
Init ==
    /\ author = <<>>
    /\ authUser \in User
    /\ main = <<>>
    /\ known = [user |-> authUser, counter |-> 0]
    /\ work = <<>>
    /\ user = authUser
    /\ disk = [u \in Account |-> <<>>]
    /\ nextId = 1
    /\ blocks = {}
    /\ rs = NewRemoteStore
    /\ log = <<>>
    /\ answers = <<>>
    /\ ran = {}
    /\ interrupted = {}
    /\ notices = 0
    /\ faults = 0

(***************************************************************************)
(* Auth and the main queue.                                                *)
(***************************************************************************)

\* FIRAuth changes its user, or refreshes the token of the one it has, and
\* posts a notice.
UserChanges ==
    /\ notices < MaxNotices
    /\ authUser' \in IF authUser = NoUser THEN User ELSE {authUser, NoUser}
    /\ main' = Append(main, [kind |-> "notice", user |-> authUser'])
    /\ notices' = notices + 1
    /\ UNCHANGED <<author, known, work, rs, log, faults, localVars>>

\* The application writes, for the user the main queue has heard of, or for nobody:
\* the record of a deleted account goes when its owner is signed out already.
Issue ==
    /\ Len(author) < MaxWrites
    /\ author' = Append(author, known.user)
    /\ work' = Append(work, [kind |-> "write", write |-> Len(author')])
    /\ UNCHANGED <<rs, log, faults, authVars, localVars>>

TokenAnswer(r, u) ==
    /\ rs' = [rs EXCEPT !.requests = @ \ {r}]
    /\ main' = Append(main, [kind |-> "token", closes |-> r.closes,
                             counter |-> r.counter, user |-> u])
    /\ UNCHANGED <<author, authUser, known, work, log, notices, localVars>>

\* Auth answers a token request for the user it finds.
TokenFetched(r) ==
    /\ \E u \in {r.user, authUser} : TokenAnswer(r, u)
    /\ UNCHANGED faults

TokenFails(r) ==
    /\ faults < MaxFaults
    /\ faults' = faults + 1
    /\ TokenAnswer(r, Failed)

\* The listener of the credentials provider.
NoticeDelivered ==
    /\ main # <<>>
    /\ Head(main).kind = "notice"
    /\ main' = Tail(main)
    /\ known' = [user |-> Head(main).user, counter |-> known.counter + 1]
    /\ work' = Append(work, Head(main))
    /\ UNCHANGED <<author, authUser, rs, log, notices, faults, localVars>>

\* GetToken's callback: a token asked for before the last notice is no good.
TokenDelivered ==
    /\ main # <<>>
    /\ Head(main).kind = "token"
    /\ main' = Tail(main)
    /\ LET t == Head(main)
       IN  work' = Append(work,
               [kind |-> "token", closes |-> t.closes,
                user |-> IF t.counter = known.counter THEN t.user ELSE Failed])
    /\ UNCHANGED <<author, authUser, known, rs, log, notices, faults, localVars>>

(***************************************************************************)
(* Operations of the worker queue. Those that the main queue posted run in *)
(* the order in which they were posted.                                    *)
(***************************************************************************)

\* Blocks left by an earlier write under the same number are replaced.
SetBlock(id, n) ==
    {b \in blocks : ~(b.user = user /\ b.id = id)}
        \cup {[user |-> user, id |-> id, write |-> n]}

\* writeMutations: to the disk, then to the pipeline.
WriteStored ==
    /\ work # <<>>
    /\ Head(work).kind = "write"
    /\ work' = Tail(work)
    /\ LET n == Head(work).write
       IN  /\ disk' = [disk EXCEPT ![user] = Append(@, Batch(nextId, n))]
           /\ blocks' = SetBlock(nextId, n)
    /\ nextId' = nextId + 1
    /\ rs' = FillWritePipeline(rs, disk'[user])
    /\ UNCHANGED <<author, user, answers, ran, interrupted, log, faults, authVars>>

Ids(d) == {b.id : b \in UNION {Range(d[u]) : u \in Account}}

\* Batch numbers that begin anew with each queue.
NextIdAnew(d) == 1

\* LoadNextBatchIdFromDb: after the largest id of any user's queue.
NextIdFromDb(d) == Max(Ids(d) \cup {0}) + 1

\* credentialDidChangeWithUser.
CredentialChanges ==
    /\ work # <<>>
    /\ Head(work).kind = "notice"
    /\ work' = Tail(work)
    /\ user' = Head(work).user
    /\ nextId' = IF user' # user THEN NextIdFromDb(disk) ELSE nextId
    /\ rs' = Restart(rs, disk[user'])
    /\ UNCHANGED <<author, disk, blocks, answers, ran, interrupted, log, faults, authVars>>

\* A token for a start of the stream that has been given up is dropped.
TokenIsLate(t, s) == t.closes # s.closes

TokenTaken ==
    /\ work # <<>>
    /\ Head(work).kind = "token"
    /\ work' = Tail(work)
    /\ LET t == Head(work)
       IN  rs' = IF TokenIsLate(t, rs) THEN rs
                 ELSE IF t.user = Failed THEN ClosedByError(rs)
                 ELSE Opened(rs, t.user)
    /\ UNCHANGED <<author, log, faults, authVars, localVars>>

\* The queue without the batch of a number, which it has.
Without(queue, id) == RemoveAt(queue, CHOOSE i \in DOMAIN queue : queue[i].id = id)

\* acknowledgeBatch or rejectBatch: the batch at the head leaves the disk.
HeadLeaves(done) ==
    LET b == Head(rs.pipeline)
    IN  /\ disk' = [disk EXCEPT ![user] = Without(@, b.id)]
        /\ answers' = Append(answers, [write |-> b.write, done |-> done])

HeadBlocks == {c \in blocks : c.user = user /\ c.id = Head(rs.pipeline).id}

\* processUserCallbacksForBatchID: the head's block, if there is one, is called.
HeadCalled ==
    ran' = ran \cup {[block |-> c.write, write |-> Head(rs.pipeline).write] : c \in HeadBlocks}

\* Both, and the block is forgotten. A success calls the block before the batch
\* leaves the disk, a refusal after: only the death of the process comes in between.
HeadAnswered(done) ==
    /\ HeadLeaves(done)
    /\ HeadCalled
    /\ blocks' = blocks \ HeadBlocks
    /\ UNCHANGED <<user, nextId, interrupted>>

HandshakeAnswered ==
    /\ rs.results # <<>>
    /\ ~rs.handshake
    /\ rs' = HandshakeCompleted(rs)
    /\ UNCHANGED <<author, work, log, faults, authVars, localVars>>

AnswerShown == rs.results # <<>> /\ rs.handshake

WriteAnswered ==
    /\ AnswerShown
    /\ HeadAnswered(TRUE)
    /\ rs' = FillWritePipeline([rs EXCEPT !.pipeline = Tail(@), !.results = Tail(@)],
                               disk'[user])
    /\ UNCHANGED <<author, work, log, faults, authVars>>

\* The end of a call that may overtake the answers before it.
EndAlone == rs.ended # "no"

\* What the client learns of the end of a call, the answers before it included.
EndShown == rs.ended # "no" /\ (AnswersFirst => rs.results = <<>>)

RefusalShown == EndShown /\ rs.ended = "permanent" /\ rs.handshake /\ rs.pipeline # <<>>

CallRefused ==
    /\ RefusalShown
    /\ HeadAnswered(FALSE)
    /\ rs' = ClosedByRefusal(rs, disk'[user])
    /\ UNCHANGED <<author, work, log, faults, authVars>>

CallBroken ==
    /\ EndShown
    /\ rs.ended = "transient" \/ ~rs.handshake \/ rs.pipeline = <<>>
    /\ rs' = ClosedByError(rs)
    /\ UNCHANGED <<author, work, log, faults, authVars, localVars>>

IdleTimeout ==
    /\ rs.idle
    /\ rs' = Stop(rs)
    /\ UNCHANGED <<author, work, log, faults, authVars, localVars>>

BackoffElapsed ==
    /\ rs.state = "Backoff"
    /\ rs' = Start([rs EXCEPT !.state = "Initial"])
    /\ UNCHANGED <<author, work, log, faults, authVars, localVars>>

-----------------------------------------------------------------------------
(***************************************************************************)
(* The backend, the network, the device.                                   *)
(***************************************************************************)

\* The backend answers the handshake, applies a write or ends the call over it.
Serve ==
    /\ rs.ended = "no"
    /\ rs.sent # <<>>
    /\ LET m == Head(rs.sent)
       IN  IF m # HANDSHAKE /\ m.write \in Refused
           THEN /\ rs' = [rs EXCEPT !.sent = Tail(@), !.ended = "permanent"]
                /\ UNCHANGED log
           ELSE /\ rs' = [rs EXCEPT !.sent = Tail(@), !.results = Append(@, m)]
                /\ log' = IF m = HANDSHAKE THEN log
                          ELSE Append(log, [write |-> m.write, as |-> rs.as])
    /\ UNCHANGED <<author, work, faults, authVars, localVars>>

\* The call breaks: nothing more goes up, the last answers never come down.
Break ==
    /\ faults < MaxFaults
    /\ rs.state = "Open"
    /\ rs.ended = "no"
    /\ \E k \in 0..Len(rs.results) :
           rs' = [rs EXCEPT !.ended = "transient", !.sent = <<>>,
                            !.results = SubSeq(@, 1, k)]
    /\ faults' = faults + 1
    /\ UNCHANGED <<author, work, log, authVars, localVars>>

\* The process dies and is launched again with the disk as it was left; Auth's user
\* remains. (The counter of notices starts anew, and every request that knew it.)
Relaunched ==
    /\ faults < MaxFaults
    /\ faults' = faults + 1
    /\ main' = <<>>
    /\ known' = [known EXCEPT !.user = authUser]
    /\ work' = <<>>
    /\ user' = authUser
    /\ nextId' = NextIdFromDb(disk')
    /\ blocks' = {}
    /\ rs' = FillWritePipeline(NewRemoteStore, disk'[authUser])
    /\ UNCHANGED <<author, authUser, log, notices>>

\* It dies between two operations.
Crash ==
    /\ UNCHANGED <<disk, answers, ran, interrupted>>
    /\ Relaunched

\* applySuccessfulWrite called the block; the batch is still on the disk.
CrashAfterBlock ==
    /\ AnswerShown
    /\ HeadCalled
    /\ interrupted' = interrupted \cup {Head(rs.pipeline).write}
    /\ UNCHANGED <<disk, answers>>
    /\ Relaunched

\* rejectFailedWrite removed the batch; its block is never called.
CrashBeforeBlock ==
    /\ RefusalShown
    /\ HeadLeaves(FALSE)
    /\ UNCHANGED <<ran, interrupted>>
    /\ Relaunched

-----------------------------------------------------------------------------
MainStep ==
    \/ \E r \in rs.requests : TokenFetched(r)
    \/ NoticeDelivered
    \/ TokenDelivered

WorkerStep ==
    \/ WriteStored \/ CredentialChanges \/ TokenTaken
    \/ HandshakeAnswered \/ WriteAnswered \/ CallRefused \/ CallBroken
    \/ BackoffElapsed

Next ==
    \/ MainStep \/ WorkerStep \/ Serve
    \/ UserChanges \/ Issue \/ IdleTimeout
    \/ \E r \in rs.requests : TokenFails(r)
    \/ Break \/ Crash \/ CrashAfterBlock \/ CrashBeforeBlock

Spec == Init /\ [][Next]_vars

\* Queues are served, timers fire, Auth and the backend answer.
FairSpec ==
    /\ Spec
    /\ WF_vars(\E r \in rs.requests : TokenFetched(r))
    /\ WF_vars(NoticeDelivered \/ TokenDelivered)
    /\ WF_vars(WriteStored \/ CredentialChanges \/ TokenTaken)
    /\ WF_vars(HandshakeAnswered \/ WriteAnswered \/ CallRefused \/ CallBroken)
    /\ WF_vars(BackoffElapsed)
    /\ WF_vars(Serve)

-----------------------------------------------------------------------------
(***************************************************************************)
(* Properties.                                                             *)
(***************************************************************************)

Write == 1..MaxWrites
StoredBatch == [id : Nat \ {0}, write : Write]
Message == [id : Nat, write : 0..MaxWrites]
Notice == [kind : {"notice"}, user : Account]
Request == [closes : Nat, counter : Nat, user : Account]
Stream ==
    [pipeline : Seq(Message), state : {"Initial", "Starting", "Backoff", "Open", "Error"},
     closes : Nat, handshake : BOOLEAN, idle : BOOLEAN, requests : SUBSET Request,
     as : Account, sent : Seq(Message), results : Seq(Message),
     ended : {"no", "transient", "permanent"}]

\* The variables have their types, the pipeline its limit.
TypeOK ==
    /\ author \in Seq(Account) /\ Len(author) <= MaxWrites
    /\ authUser \in Account
    /\ main \in Seq(Notice \cup [kind : {"token"}, closes : Nat, counter : Nat,
                                  user : Account \cup {Failed}])
    /\ known \in [user : Account, counter : Nat]
    /\ work \in Seq(Notice \cup [kind : {"write"}, write : Write]
                        \cup [kind : {"token"}, closes : Nat, user : Account \cup {Failed}])
    /\ user \in Account
    /\ disk \in [Account -> Seq(StoredBatch)]
    /\ nextId \in Nat \ {0}
    /\ blocks \subseteq [user : Account, id : Nat \ {0}, write : Write]
    /\ rs \in Stream /\ Len(rs.pipeline) <= MaxPending
    /\ log \in Seq([write : 0..MaxWrites, as : Account])
    /\ answers \in Seq([write : 0..MaxWrites, done : BOOLEAN])
    /\ ran \subseteq [block : Write, write : 0..MaxWrites]
    /\ interrupted \subseteq Write
    /\ notices \in 0..MaxNotices
    /\ faults \in 0..MaxFaults

\* The pipeline is the front of the signed-in user's queue and as much of it as
\* fits: nothing answered stays in it, nothing stored is passed over, whatever
\* users, crashes and reused batch numbers came in between.
PipelineFollowsQueue ==
    LET q == disk[user]
    IN  rs.pipeline = SubSeq(q, 1, Min({Len(q), MaxPending}))

\* While the call is whole, the answers and the writes on it are the pipeline:
\* the answer read next is always about the pipeline's head, and "Got result for
\* empty write pipeline" cannot happen.
CallCarriesPipeline ==
    CanWrite(rs) /\ rs.ended = "no" => rs.results \o rs.sent = rs.pipeline

\* A stream with something to write is started or on its way: no close, refusal,
\* idle timeout or change of user leaves a queue that nobody serves.
WantedStreamIsStarted == ~ShouldStartWriteStream(rs)

\* The idle timer runs only while there is nothing to write: "Write stream was
\* stopped gracefully while still needed" cannot happen.
IdleOnlyWhenDone == rs.idle => rs.pipeline = <<>>

\* A token that the stream will use finds it in state Starting, as the assertion
\* of ResumeStartWithCredentials has it, however late it comes.
TokenFindsStarting ==
    \A i \in DOMAIN work :
        work[i].kind = "token" /\ work[i].closes = rs.closes => rs.state = "Starting"

\* Every write reached the backend under its author's credentials.
AppliedAsAuthor == \A i \in DOMAIN log : log[i].as = author[log[i].write]

\* The block that runs is the one the application gave with that very write,
\* though batch numbers are used again.
BlocksRunForTheirWrite == \A r \in ran : r.block = r.write

\* What left the disk is never applied again, and what had its block called is
\* applied again only if the process died before the batch left: a resend, a restored
\* queue or a batch number used again repeats nothing else the application was told of.
NeverAppliedAfterAnswer ==
    [][\A i \in DOMAIN log' \ DOMAIN log :
           LET n == log'[i].write
           IN  /\ \A j \in DOMAIN answers : answers[j].write # n
               /\ (\E r \in ran : r.write = n) => n \in interrupted]_vars

AuthorSignedIn(n) == n \in DOMAIN author /\ authUser = author[n]
Stored(n) == \E u \in Account : \E i \in DOMAIN disk[u] : disk[u][i].write = n
Answered(n) == \E i \in DOMAIN answers : answers[i].write = n

\* A write that was stored is answered, unless its author signs out first:
\* broken calls, lost answers, failed tokens, idle stops and crashes included.
StoredWritesAreAnswered ==
    \A n \in 1..MaxWrites :
        AuthorSignedIn(n) /\ Stored(n) ~> ~AuthorSignedIn(n) \/ Answered(n)

\* The writes that a sequence of batches or messages carries.
WritesOf(s) == [i \in DOMAIN s |-> s[i].write]

(***************************************************************************)
(* The promise of WriteLog, kept: a user's queue is that of the disk, and  *)
(* the present attempt has reached as far as the answers that are coming.  *)
(* A write that was applied under other credentials counts as no write.    *)
(***************************************************************************)
Promise == INSTANCE WriteLog WITH
    User    <- Account,
    queue   <- [u \in Account |-> WritesOf(disk[u])],
    reached <- [u \in Account |->
                   IF u = user THEN Cardinality({i \in DOMAIN rs.results :
                                                     rs.results[i] # HANDSHAKE})
                   ELSE 0],
    log     <- [i \in DOMAIN log |->
                   IF log[i].as = author[log[i].write] THEN log[i].write ELSE 0]

\* RemoteStore implements WriteLog, so writes are applied in order, leave the disk once
\* each and with a true answer: streams, batch numbers, restarts and users do not show.
KeepsPromise == Promise!Spec

\* Each user's writes take effect in the order of issue: none is passed over by a
\* later one, whatever is resent, restored, or waits while others are signed in.
AppliedInOrder == Promise!LaterWritesWait

=============================================================================
