# Polara in TLA+

Polara is an iOS application in which skiers keep contacts and invite them to trips.
It has no server of its own: every device talks to Firebase Auth and to two
collections of Cloud Firestore, `users` and `trips`. What can go wrong is therefore
not in a protocol but in the meeting of three things: a copy of the user's record
that each device keeps in memory, a queue of writes that the Firestore client keeps on
disk, and other users who change the same documents.

Source paths below are relative to `src/Polara/Polara/`; the vendored client is under
`src/Polara/Pods/FirebaseFirestore/Firestore/`.

## 1. The system

| Component | State | Operations | Meets |
|---|---|---|---|
| **PersonController** (`Model Controllers/PersonController.swift`, `Models/Person.swift`) with the contacts, add-contact, phone-number and settings screens | `currentUser`, `contacts`; the documents of `users` | block, unblock, invite, uninvite, clear invitations, phone number, search and add on both sides, fetch contacts, read the record | Firestore client; other users' devices through `users` |
| **TripController** (`Model Controllers/TripController.swift`, `Models/Trip.swift`) with the create-trip and trips screens | `trips`; the documents of `trips`; the navigation state `fromCreate` | create a trip, empty the list afterwards, leave the screen, fetch trips | PersonController (the invitation list), Firestore client |
| **Firestore client** (vendored): the view | mutation queue on disk, completion blocks in memory, document cache | queue, acknowledge, reject, compute the local view | the main thread |
| **Firestore client**: the write path (`remote_store.mm`, `stream.mm`, `FSTSyncEngine.mm`, `leveldb_mutation_queue.mm`, the credentials provider) | a mutation queue for each user, the pipeline, the state of the write stream, outstanding token requests, the number of the next batch | store, send, answer, refuse, restart with or without back-off, stop when idle, change the user | Auth (tokens, notices), the backend, the worker queue |
| **Session** (splash, login, sign-up, settings, delete-account screens; account part of PersonController) | Firebase Auth's current user, `currentUser`, the screen shown | sign up, sign in, find user at launch, sign out, reset password, delete | Auth, PersonController |
| **Tables** (contacts, create-trip, trips; `Views/*Cell.swift`) | the cells and the number of rows UIKit was told | reload, ask for a row, tap a button | the shared arrays of the controllers |
| **Resorts, notifications, shell, future screens** | constants and labels | none that other parts depend on | |

How they interact. All application code runs on the main thread of its device. A call
into Firestore returns at once; the write is put on the device's queue, and its
completion block runs later, in a turn of the main thread of its own, after the backend
has answered. Reads that the application makes are answered from the server's document
with the queued writes applied on top ("latency compensation"). Two devices meet only in
the documents.

Which behaviours are hard:

* *read, change, write back*: every edit writes the whole record of memory, while others
  add themselves to the stored record with `arrayUnion`;
* *two-part operations*: the second half of adding a contact and of creating a trip is
  the completion block of the first;
* *refused writes*: `saveUserToFirestore` reports success whatever the error;
* *restarts*: the queue survives, the completion blocks and the memory do not;
* *late answers*: a fetch or a re-read replaces state that has moved on since;
* *shared arrays*: two tables show one array that the answer to either replaces, and a
  table is told of it only when its own fetch found somebody;
* *streams*: the call that carries the writes breaks, is refused, stopped when idle or
  restarted for another user, with answers, tokens and timers on their way.

What makes the components correct: a user's own edits are not lost and a view of them
does not flicker; strangers change a record in one agreed way; contacts become mutual;
an invitation list never lacks its host, so neither does a trip; guests do not
disappear from a list without having been invited; a device lists only trips that are
its user's; accounts and records are created and deleted together; records are written
by the user who is signed in; the application gets past its splash screen; a button says
what a tap on it will undo, and a tap is about the person shown; the client applies a
user's writes in order, under that user's credentials, and tells each write's block, and
only it, what the backend did.
The hazards, each at its line and with the property that covers it, are listed in
`PROJECT.json`.

## 2. The modules

| Module | What it models |
|---|---|
| `Firestore` | Documents, the three kinds of write the application makes (`setData`, `updateData`, `arrayUnion`), what a write does to a document (`Applied`), what a restart leaves of it (`Restored`), and the local view, as a set (`LocalDocument`) and as the client computes it (`InOrder`). No state: the modules below own the documents and the queues. |
| `PersonController` | The record of the user on every device, the stored records, the tables of contacts, the queue and the main thread of each device. |
| `TripController` | Invitation lists, trips, the clock, the navigation between the tabs, and the same queue and main thread. |
| `Session` | Accounts of Firebase Auth, which user documents exist, the user Auth has signed in, the user in memory, the screens and the answers they wait for. |
| `RemoteStore` | The client's write path: mutation queues, worker queue, pipeline, write stream, tokens, the backend at the other end. |
| `WriteLog` | What the write path promises, without streams, tokens, timers or batch numbers. `RemoteStore` is checked and proved to implement it. |
| `ContactTables` | The two tables of contacts over one array: rows, scrolling, reused cells, labels, taps. |
| `MCPersonController`, `MCTripController`, `MCSession`, `MCRemoteStore`, `MCContactTables` | The instances for TLC. |
| `Firestore_proofs`, `PersonController_proofs`, `TripController_proofs`, `Session_proofs`, `RemoteStore_proofs`, `WriteLog_proofs`, `WriteLogOrder_proofs`, `ContactTables_proofs` | The theorems. `WriteLog_proofs` extends `RemoteStore_proofs` and takes from `WriteLogOrder_proofs`, by `INSTANCE`, what follows from `WriteLog` alone; the proofs about the two controllers extend `Firestore_proofs`. |

### Firestore

A document is a function from fields to sets. An array field is the set of its members,
because the application asks only for membership, appends what is absent and removes all
copies of a member; an optional value is empty or a singleton. A write names a document,
the fields it replaces and the values it brings; `arrayUnion` replaces nothing. The
field `then` stands for the completion block when that block does something: it holds the
keys the block goes on with.

`LocalField` says which values a field has under a queue *without* going through it: a
value is there if the newest thing said of the field still holds it. That form needs no
recursion. `InOrder` is the client's own way (`LocalDocumentsView::GetDocument` applies the
batches one after the other), a recursive function of the position in the queue. The
theorem `LocalViewIsInOrder` says that the two agree on every document and every queue, which ties
the set-wise form to the code; it is a fact about the definitions and not about behaviours. The
other proofs use the set-wise form only.

### PersonController

| Variable | Code |
|---|---|
| `users` | the collection `users` of the backend |
| `currentUser` | `PersonController.sharedInstance.currentUser`; `NoPerson` is `nil` |
| `shown` | the contacts held by the cells of the visible tables |
| `queue` | the client's mutation queue |
| `main` | completion blocks dispatched to the main thread and not yet run |

Each operation of the class is an action that includes the button handler that calls it:
`contactsButtonTapped` is a tap on a cell of the contacts screen with `blockContact` or
`unblockContact` inside, and so on. Adding a contact is `searchForContact` (the query
is answered), `contactFound` (the completion runs once for each match, in any order),
`writeCommitted` or `writeRejected` (the save is answered) and `contactSaved` (the block
of the save, which adds the own UID to the other's record). `initializeUser` and
`userInitialized` are the reading of the record at launch and whenever Settings appears,
and the block that replaces `currentUser`. `answerLost` is a write that the backend
applied and whose answer was lost with the stream: it stays at the front of the queue and
will be applied again, whatever was written in between. (Of a lost batch of answers the
application model repeats the front write only; `RemoteStore` has the general case.)

`tripStored` puts the completion block of a trip on the main thread, at a time that only
`TripController` knows, and `removeInvitedContacts` is that block: it empties the list
of memory as it is in its turn and saves the record, whatever is queued by then.

`initializeUser`, `searchForContact` and `fetchContacts` fix the answer and queue the
block in one step. The request itself changes nothing on the device, so asking earlier is
the same as asking in this step; what matters, the gap between the answer and its block,
is there.

### TripController

The variable `draft` is `currentUser.invitedUsersFirebase`, the only field of the record
that trips use; `docs` holds the stored invitation lists and the trips. `createTrip` fixes
creator and date for good (`made`) and queues the trip with the list as it is.
`tripStored` is the completion block of `createTripButtonTapped`, `popToRoot` the block it
dispatches to leave the screen. `fromCreate`, `tab`, `open` and `tapped` follow the
navigation: the root of the resorts tab sends the user on to the trips when it appears.
`goBack` and `selectTab` let the user be elsewhere by then.

### Session

| Variable | Code |
|---|---|
| `accounts`, `issued` | the accounts of Firebase Auth; a UID is never given out twice |
| `records` | which documents of `users` exist |
| `authUser` | `Auth.auth().currentUser`, kept in the keychain |
| `currentUser` | `PersonController.currentUser`; `NoUser` is `nil` |
| `chain` | the view controllers presented one over another; nothing dismisses a login screen or the main tabs |
| `calls` | what was asked of Auth and Firestore and has not been answered |
| `queue` | the client's mutation queues: one for each Auth user, and one for nobody (`FSTLocalStore userDidChange:`) |

A completion block presents the next screen from the screen that asked. `Present` does
what UIKit does: it ignores this unless that screen is on top. `cancelButtonTapped` closes
a screen, and its blocks, which still run, present nothing. The two halves of a sign-up
(`accountCreated`, `recordCreated`) and of a deletion (`accountDeleted`, `recordDeleted`)
are separate actions, because Auth has done its half for good when the process dies in
between; other answers and their blocks are one step. `calls` is a set: an impatient user may
tap a button several times before the answer, and one member stands for all equal calls, so that
an answer may leave more of its kind behind (`Repeatable`, `LeftOver`). `userRead` is `initializeUser`'s
block, which does nothing at all when the document does not exist. Deleting signs the user
out first, so the deletion of the record goes into the queue of nobody.

`Session` keeps of a record only whether it exists; what is in it is `PersonController`'s.
The two meet in `currentUser`: `PersonController` starts when `currentUser` has been set
and `crash` there is `relaunch` here.

### RemoteStore and WriteLog

| Variable | Code |
|---|---|
| `authUser`, `main` | `FIRAuth._currentUser`, and the blocks that Auth dispatches to the main queue: notices of a changed user or token, answered token requests |
| `known` | the credentials provider: `current_user` and `token_counter` |
| `work` | what the main queue has enqueued on the client's worker queue: writes, changes of user, tokens |
| `user`, `disk`, `nextId`, `blocks` | `FSTSyncEngine._currentUser`, the mutation queues in leveldb (one for each user, one for nobody), `next_batch_id_`, `_mutationCompletionBlocks` |
| `rs` | `RemoteStore` and its `WriteStream`: `pipeline`, `state`, `closes` (`close_count_`), `handshake`, `idle` (the idle timer runs), the unanswered token requests, and the call: whose token it carries, what is on its way up (`sent`) and down (`results`), how the other end finished it (`ended`) |
| `author`, `log`, `answers`, `ran`, `interrupted` | history: who issued a write, what the backend applied, what became of each write that left the disk, which block was called for it, and the writes whose process died between the call of their block and their leaving the disk |

The methods of `RemoteStore` and `Stream` call each other and their listeners many levels
deep within one operation of the worker queue. They are operators from the record to the
record, composed as the code composes them, and an action is one operation of the queue:
`FillWritePipeline` is the loop that adds batches and the start of the stream after it,
`ClosedByRefusal` is `Close`, `HandleWriteError`, the refill that starts the stream again,
and the handshake forgotten last, in this order.

An answer has two effects that outlive the operation: the batch leaves the disk (`HeadLeaves`)
and its completion block is dispatched to the main thread (`HeadCalled`).
`applySuccessfulWriteWithResult:` does the second first, `rejectFailedWriteWithBatchID:` the
first. Nothing else of the client runs in between, for the worker queue is serial, so that without a
crash the order does not show and `HeadAnswered` does both; but the process can die in
between. `CrashAfterBlock` is the death of a process that has called the block of an applied
write and still has its batch: the batch is sent and applied again. `CrashBeforeBlock` is that of
one which has removed a refused batch and not called its block. (In the
application models the first is a write whose answer is lost and a crash after that. What the block
did died with the process: the writes it issued wait for the same worker queue, and do
not reach the disk before the batch has left it.)

A write stream is started when something is in the pipeline, asks Auth for a token
(`RequestCredentials`), opens the call when the token comes and its start is still the
present one (`TokenIsLate`), sends the handshake, and after its answer the pipeline. The
answers carry no number and are taken for the head of the pipeline. A call that ends with
a permanent error costs the head (`CallRefused`), any other leaves it (`CallBroken`), and
both start the stream again. A change of user stops the stream, empties the pipeline and
fills it from the other user's queue.

`Serve`, `Break` and `Crash` are the backend, the network and the device. When a call
breaks, any number of the last answers is lost although their writes were applied.
Assumed, and not shown by this code: a call that the client has dropped carries nothing
more to the backend, and (`AnswersFirst`) gRPC delivers the messages of a call before
its status. The second assumption matters: the mutant `EndAlone` of `KeepsPromise` lets
the status overtake them, and a write that was applied is then reported refused.

`WriteLog` has, for each user, the queue of unanswered writes and how far the present
attempt has applied them. It may forget progress at any time (answers are lost), applies
in order, commits the front when it has been applied, and rejects it when it is refused. A write is
answered when it leaves the queue; for `WriteLog` a block called by a process that died
before that is an answer that was lost.
The mapping takes the queues from the disk, the progress from the answers that are still
coming, and turns a write applied under the wrong credentials into no write at all, so
that `KeepsPromise` fails for it.

### ContactTables

| Variable | Code |
|---|---|
| `contacts` | `PersonController.sharedInstance.contacts` |
| `marked` | `blockedUsersFirebase` and `invitedUsersFirebase` of `currentUser` |
| `loaded`, `shown` | the two view controllers that exist, and the one in front |
| `rows`, `top`, `cells` | of each table: the number of rows it was told, the rows scrolled past, what the reusable cells hold |
| `fetches`, `saves`, `trip` | the calls of `fetchContacts` and `saveUserToFirestore` that are not answered, and a trip that is not stored, or stored with the screen still to be left |
| `replaced`, `reread`, `trapped` | history: the tables whose array was replaced since they counted it; those whose list a re-read has changed since they drew their cells; the array was read outside its bounds |

A fetch is answered with any set of people and replaces the array; its callback reloads
the table of the screen that asked, and only when the array is not empty.
`fetchCutShort` is the `return` inside the loop of `fetchContacts` (line 200). Scrolling
brings one row into view and asks for it, `buttonTapped` is the handler of both screens,
and `saveAnswered` the completion that redraws the tapped cell, whoever it shows by then.
`userInitialized` is the block of the re-read that Settings asks for: the record it brings takes
the place of the one in memory, with *any* lists, and no table is told. `tripStored` and
`earlierTripStored` empty the list of invited users in the block of a trip's answer, and
`popToRoot`, a turn of the main queue later, leaves the screen if it is still there.
UIKit is external and modelled as it is used: a cell that leaves the view is the one that
the row that enters gets, and an offset that a shorter table cannot keep is reset.
`InOrder` (the people by name) and `SavesOfOthers` say what `SortSeq` and `SelectSeq` of the
libraries compute; they are written out because the prover has no definition of those.

## 3. The runs

`NoPerson`, users, devices, numbers and trips are model values; `MaxQueue` and `MaxMain`
bound, for each device of `PersonController`, how many writes and blocks may be outstanding when the
*user* acts or asks (completion blocks are never held back); `Uses` and `Hosts` say who does what.

| Run | Instance | Shows |
|---|---|---|
| `person_core` | users a, b with one device each; a does everything, b looks people up; queue 2 and 1, one block waiting; crashes, lost answers, refused `updateData` | `TypeOK`, `ForcedUserPresent`, `InvitesIncludeHost`, `OwnEditsKept`, `AckKeepsView` |
| `person_live` | users a, b, c and one number, so a search may match several people; a and b look people up and re-read their records, a's trips are stored; queue and waiting blocks 2 on a's device, 1 on b's, so that the block of a re-read, a trip or a search may wait before another; lost answers; fairness | `ContactBecomesMutual`, `OthersOnlyAddThemselves` |
| `person_lost_contact` | as `person_core`, no crashes | `StoredContactsKept` is violated |
| `person_lost_number` | as `person_core`, no crashes | `StoredPhoneNumberKept` is violated |
| `trip_core` | host a, guest b, two trips, clock 0..1; the host waits for each trip's answer; refused trips, relaunches | `TypeOK`, `ListedForInvited`, `InvitationsSent` |
| `trip_live` | the host taps ahead, two trips; fairness; nothing refused, no crash | `HostOnTrips`, `StoredListEmptied` |
| `session_core` | users a, b; six screens deep; the user waits for answers; relaunches between answers; nothing fails; fairness | `WritesAreOwn`, `AccountsHaveRecords`, `LaunchGoesOn` |
| `session_races` | users a, b; four screens deep; taps ahead of answers, failures, kills at any time | `TypeOK`, `MainHasUser` |
| `writes` | two accounts, pipeline of 2, three writes of which the second is refused, two notices (sign-in, sign-out, refreshed token), one fault (broken call, failed token, crash, a crash within an answer) | `TypeOK`, `PipelineFollowsQueue`, `CallCarriesPipeline`, `WantedStreamIsStarted`, `IdleOnlyWhenDone`, `TokenFindsStarting`, `AppliedAsAuthor`, `BlocksRunForTheirWrite`, `AppliedInOrder`, `NeverAppliedAfterAnswer`, `KeepsPromise` |
| `writes_live` | two accounts, pipeline of 1, two writes of which the first is refused, one notice, two faults; fairness | `StoredWritesAreAnswered` |
| `tables` | two people, one row in view, two calls (fetches or saves) unanswered, one table whose list a re-read has changed | `TypeOK`, `BlockLabelsAgree`, `InvitedAreLabelled`, `CountedRowsExist`, `TapsHitTheShown` |
| `table_rows` | three people, two rows in view | `RowsInRange` is violated |

Why the bounds are enough. Every race of this code is between one outstanding write or
answer and one other event: an edit over a queued save, an `arrayUnion` between two
whole-record writes, a re-read with an edit before its block. Two queued writes on the
device under study and one waiting block give each of these, and the completion blocks go
beyond the bound (a search with two matches queues two saves and two unions); with two blocks waiting, in `person_live`, a
re-read is overtaken by a search or a stored trip and the other way round. Two users
are enough for host and guest, or for owner and stranger; the third in `person_live` is
there for a search that matches several people. Two trips give a second trip before the
first has been answered. The clock needs one tick to turn an upcoming trip into a past
one. In `Session` two users give "somebody else has signed in"; six screens are splash,
login, main tabs, login, main tabs and one sheet, a second session over a first; four are
enough for each kind of screen to be covered by another. In `RemoteStore` three writes overfill
a pipeline of two, so that one waits on the disk; a refused write has one before and one
behind it; two notices sign a user out and another in, or refresh a token while one is on
its way; the fault may be combined with both. In `writes_live` two writes overfill a
pipeline of one, and two faults lose an answer and then the process, or a token twice. In `ContactTables` two people and one row in
view make a table that scrolls, reuses its only cell and shrinks; two calls are a fetch of
each screen, a fetch and a save, or two saves of one cell answered in turn. The bound
`MaxReread` lets a re-read change the list of one table at a time; the theorems hold for every
bound. Users are symmetric in
`session_races`, which checks invariants only. All cfgs switch deadlock checking off
because an application at rest, with nobody tapping, is a legitimate end.

Each property needs its conditions, which the constants name. The theorems of section 4 have
the same conditions as hypotheses, and no others:

* `OwnEditsKept` needs one device per user (a second one writes its own older copy),
  no refused saves (memory is then ahead of the document for good; `Refusable` has only
  `updateData`) and no edit between a
  re-read and its block (`ReloadRaces`). These losses are real; see the hazards.
* `InvitesIncludeHost` needs nobody to look up the own number (`SelfSearch`): a user who
  is the own contact can be uninvited like any guest.
* `InvitationsSent` needs a host who waits for the answer (`TapsAhead = FALSE`): guests
  picked after the tap and before the answer are wiped with the rest.
* `ContactBecomesMutual` and `StoredListEmptied` need the process to live until the block
  has run; a restart between the two halves loses the second and nothing retries it.
* `WritesAreOwn` needs a user who waits (`Patient`): two logins tapped one after the
  other, or a log-out while Settings re-reads the record, let the late answer put one user
  in memory while another is signed in. It also needs deletions that are not cancelled half
  way and whose second half is not refused (`Failures = FALSE`): the cancel button leads
  back to main tabs whose user is still in memory although the account is gone, and an
  edit there would write the deleted record again.
* `AccountsHaveRecords` needs no kill between the two halves (`KilledMidway = FALSE`) and
  no refusals (`Failures = FALSE`). It allows writes left in the queue of a deleted user:
  they are never sent.
* `InvitesIncludeHost` and `HostOnTrips` are proved for any number of devices of one user,
  refusals, crashes and racing re-reads; their runs are small instances of it.
* `BlockLabelsAgree` and `InvitedAreLabelled` are about *settled* cells: of a table that counted the
  present array and has drawn its cells since a re-read last changed its list, and without an
  unanswered save. Behind a replaced array two cells can show one person, and then only the
  tapped one is redrawn. Behind a re-read that brings other lists no cell is redrawn at all
  (PersonController.swift:74, asked for at SettingsViewController.swift:56): after a refused
  save, an edit on a second device, or a re-read that overtakes a save or a stored trip, a
  button can say BLOCKED of somebody who is not, or INVITE of somebody who is invited, until
  the table is reloaded or its row scrolls back into view. With one device, awaited reloads and no refused save a
  re-read changes no list: that is `OwnEditsKept` (`EditsAreKept`).
* `NeverAppliedAfterAnswer` excepts the writes whose process died between the call of
  their block and the removal of their batch (`interrupted`, FSTSyncEngine.mm:434 and 436). The
  backend does apply those again, though the application was told; the exception is one write for
  each such crash, and nothing behind it. Everything that left the disk is done with for good.
* `StoredWritesAreAnswered` ends with its author's sign-out: the queue then waits on the
  disk until that user signs in again.
* `LaunchGoesOn` needs what `AccountsHaveRecords` needs: an account without a record, or a read that fails at
  launch, leaves the splash screen up until the application is started again, and one that
  is killed over and over never gets past it.

### Fairness

The liveness runs assume that a device's main thread runs the blocks that wait on it (the
run loop does) and that the client keeps sending its queue and has it answered (weak
fairness of `writeCommitted`; `RemoteStore` retries every transient failure). `Session`
assumes that what was asked of Auth and Firestore is answered. `RemoteStore` assumes each
of its parts by itself: the main queue and the worker queue run what is on them, the
back-off timer fires, Auth answers token requests, the backend serves an open call. The
idle timer, faults, notices and new writes are under no obligation; faults are bounded,
which is to say that the network is whole again some day. Nothing is assumed of
users, the clock, refusals or crashes.

### What the violations say

* **A contact is lost.** `saveUserToFirestore` (PersonController.swift:145) writes the
  whole record. If b has added himself to a's stored record since a's device read it, a's
  next edit removes b again. `fetchContacts` looks for the people who store the user as a
  contact, so a drops out of b's tables and b cannot invite a any more, although the
  phone-number screen promises "Your contacts can also invite you to their trips".
* **A phone number is lost.** `updatePhoneNumber` (line 106) writes the document but not
  `currentUser`; the next edit writes the old number back, although the user was told the
  update was saved.
* **Rows that are no longer there.** `fetchContacts` empties the shared array and fills it
  again; both contact tables skip `reloadData` when nobody was found, and so does the other
  table whatever was found. The table then scrolls over the rows of the list before, and
  `contacts[indexPath.row]` traps.

A user without a phone number can create trips, although the phone-number screen
(Main.storyboard:554) says that adding one allows it: `createTrip` has no such guard. The
models say nothing of it; the guard is plainly absent.

## 4. The proofs

The theorems hold for any number of users, devices, numbers, trips, contacts and rows in
view, queues of any length, any bounds and any setting of the switches they do not mention. They rest on the named assumptions of the
modules: the schema of the documents, `Owner`, `Uses`, finitely many users and contacts,
`NoPerson` outside the documents, `NoUser` outside the users, bounds that are natural
numbers, that no user is among the own contacts of the
create-trip table, and for `RemoteStore` a pipeline that holds at least one write, and that
neither nobody nor a failed token is an account. Where a property needs conditions (section
3), they are hypotheses of the theorem, given in brackets here.

| Theorem | Property | Argument |
|---|---|---|
| `LocalViewIsInOrder` | (about the definitions) | the document after each prefix of the queue is compared with the set-wise view of that prefix; at the shortest prefix where they differ one write is appended to the queue of one where they agree |
| `TypeCorrect` | `TypeOK` | inductive; a lemma says what a head, a tail and an append are |
| `ForcedUserIsPresent` | `ForcedUserPresent` | inductive only with a statement about the queue: while the record has not been read, no queued write carries a block. `Restored` makes it true after a crash, the guard `currentUser # nil` of the screens keeps it |
| `HostStaysInvited` (`~SelfSearch`) | `InvitesIncludeHost` | a stored list is an old queued write, and a queued write an old list of memory: the invariant says the same of the stored records, of memory, of every queued write to one's own record, of every re-read waiting to run, and that no search block or queued union names the user himself. It needs the lemma that a view of well-formed writes over a well-formed document is well formed |
| `EditsAreKept` (one device for each user, `~ReloadRaces`, `Refusable` at most `updateData`) | `OwnEditsKept` | below |
| `AcknowledgedWritesDoNotFlicker` | `AckKeepsView` | the view of a document under a queue is the view of the document after the head under the tail, proved field by field from the set-wise definition of the view |
| `StrangersOnlyAddThemselves` | `OthersOnlyAddThemselves` | every queued write goes to the own record or is a union of the own UID into the contacts |
| `TripTypeCorrect` | `TypeOK` of `TripController` | inductive together with the next one |
| `HostIsOnEveryTrip` | `HostOnTrips` | every list, drafted, queued, stored or turned into a trip, is empty or has its host; a trip's host is fixed when it is made, so a queued trip can be compared with it; the lists read after a relaunch are views of such lists |
| `TripsListInvited` | `ListedForInvited` | a trip has one write, queued by its creator (`SentOnce`), and nothing is stored under its name before; so its guests only grow, and an answer that waits, or a list shown long, names nobody who was not invited |
| `InvitedUntilSent` (`~TapsAhead`, records are not refused) | `InvitationsSent` | below |
| `SessionTypeCorrect` | `TypeOK` of `Session` | inductive together with the next one; closing a screen needs the splash screen at the bottom of the chain |
| `MainTabsHaveUser` | `MainHasUser` | "the main tabs are on top" is not inductive: a cancel button uncovers them. The invariant says that open main tabs, covered or not, imply a user in memory, and so does a queued sign-up whose block will present them; a relaunch forgets both together |
| `DeviceWritesItsUser` (`Patient`, `~Failures`) | `WritesAreOwn` | below |
| `RecordsFollowAccounts` (also `~KilledMidway`) | `AccountsHaveRecords` | below |
| `TypesHold`, `PipelineIsFront`, `AnswersMeetHead`, `StreamIsWanted`, `IdleIsDone` | `TypeOK` of `RemoteStore`, `PipelineFollowsQueue`, `CallCarriesPipeline`, `WantedStreamIsStarted`, `IdleOnlyWhenDone` | one induction, below |
| `TokensAreAwaited` | `TokenFindsStarting` | at most one request, token on the main queue or token on the worker queue has the close count of the stream, and none if the stream is not `Starting`; all others are from earlier starts. That the opened stream is no longer waiting needs the "at most one" |
| `BlocksAreTheirs` | `BlocksRunForTheirWrite` | a block under the number of a batch on the disk came with that batch. A stale block may have the number of no batch; the next batch with it replaces the block (`SetBlock`), and its number is new on the disk |
| `AuthorsApply` | `AppliedAsAuthor` | below |
| `AnswersAreLast` | `NeverAppliedAfterAnswer` | writes reach the disk in the order of issue and stay in it (`WorkOrder`, `StoredBefore`, `DiskOrder`), so a write that left the disk is on no queue (`AnsweredGone`), nor is one whose block was called, but for `interrupted` (`RanGone`); what the backend applies is the batch of the pipeline that comes next, hence on the disk |
| `PromiseIsKept` (`AnswersFirst`) | `KeepsPromise` | below |
| `OrderIsPromised`, `UsersWritesInOrder` (`AnswersFirst`) | `AppliedInOrder` | a theorem about `WriteLog`, and `RemoteStore` by `PromiseIsKept`; below |
| `TablesTypeCorrect`, `CountedRowsAreThere` | `TypeOK` of `ContactTables`, `CountedRowsExist` | one induction, below |
| `BlockLabelsAreRight`, `InvitedAreShown` | `BlockLabelsAgree`, `InvitedAreLabelled` | one induction over the other, below |
| `TapsHitWhoIsShown` | `TapsHitTheShown` | a tap is the only step that changes a list and leaves the trip alone, and the cells in view hold people (`TableOf`) |

**Edits (`KeptInv`).** `OwnEditsKept` says that what the device reads back of its record
has the blocks and invitations of memory, and at least its contacts. Three more parts make it inductive. Every
own write brings the whole record or the phone number alone (`WholeWrites`), so that an
edit fixes the whole view whatever is queued in front of it. Every record that was read
and waits to replace memory agrees with the view as well (`KeptRecords`); while one waits
there is no edit. And no such record waits behind the answer of a search
(`ReloadsFirst`, from the same hypothesis), whose block saves the memory of its turn and would make the read record
an old one. The search may match several people, each of whom is saved in a write of its
own: the view under the longer queue is that of its last whole record with the unions
after it, which takes the lemmas `ViewConcat` and `LastReplaces`. That others only add to
a record comes from the invariant of `StrangersOnlyAddThemselves`. One write to the own
record is neither whole nor the number: the union by which a user who looked up the own
number becomes the own contact. It, or its refusal, could part memory from the record; `SelfStays`
says it cannot, for such a user is already the own contact in the record in front of that
union, in memory, in every re-read that waits and in every later save.

**Invitations (`DraftInv`).** A guest leaves a list by being uninvited, or when the list is
emptied after its trip has been stored. A relaunch reads the list again, so the invariant
says that the list in memory *is* the device's view of its record; and emptying it is the
block of a trip, so while that block is queued the trip it came with has the whole list,
and when it waits to run the stored trip has (`ListSent`). The last is lost as soon as
guests are picked before the answer, which is the hypothesis `~TapsAhead`.

**Sessions (`OwnInv`, `RecordInv`).** With a user who waits, one thing at most is on its way (`OneThing`):
a call, or a queued write whose block presents a screen. The screen that asked is on top
until it is answered, and each kind of call fixes who is signed in meanwhile (`CallFits`,
`WriteFits`). With the order in which screens cover each other (`Stacked`) this gives
`SameUser`: in the main tabs, and over them while nothing is being deleted, the user in memory is the one
Auth has signed in. A refused deletion breaks it (main tabs over nobody signed in), hence
`~Failures`. `RecordInv` adds the two halves: an account without a record has it queued or its
creation goes on (`MissingRecords`), a record without an account has its deletion queued
or going on (`LeftRecords`), and deletions name UIDs that were issued and have no account,
so that none can hit a later user.

The induction on `RemoteStore` (**`WriteInv`**) has five parts, none of which stands alone.
(1) The types. (2) `Numbered`: batch numbers grow along each queue and stay below the
next one, because `Fresh` finds its place in the queue by the number of the pipeline's last
batch; `NextIdFromDb` keeps this after a change of user and a crash. (3) The pipeline is
the full front of the queue. (4) `Served`: a stream with something in the pipeline is
started, one with nothing in it is stopped or past its handshake, the idle timer runs only
past the handshake with nothing in the pipeline, and `handshake` is
that of an open call; without the second an answered handshake could be idle. (5) `Carried`: the answers on the call are a front of what
is due on it (the handshake, then the pipeline), and with the messages on their way up all
of it while the call is whole. `CallCarriesPipeline` speaks of whole calls only and is not
inductive: when a call has broken, the answers that still come must be about the front too. The
methods of the stream have a lemma each (`ClosedKeeps`, `FillServes`, `RefusalServes`,
`HandshakeServes`, ...) that says which parts they keep, break or restore, because inside
an operation the parts do not all hold: `Closed` leaves a pipeline that nobody serves, and
forgets the handshake only after the stream has been started again.

**Credentials (`AuthorInv`).** Auth, the provider and the sync engine each have a user, and the
later ones lag behind: the notices in between say whose turn comes. `UserBefore` is the
user that stands at a place of the worker or the main queue. A write on the worker queue
meets there the user who issued it, a token that passes the counter is the provider's
user's (`WorkInv`), and the same is said one queue earlier of the tokens and requests of the
present count (`MainInv`). So a queue on the disk has its owner's writes (`DiskAuthors`), and the
open call the sync engine's user's token (`CallUser`).

**The promise.** Each step of `RemoteStore` is shown to be a step of `WriteLog` or a
stutter under the mapping of its variables (`BarQueue`, `BarReached`, `BarLog`).
Storing, applying, committing and rejecting map to their namesakes; a call that is
dropped, a crash and a change of user forget progress, a crash after a block included; a crash before the block
of a refused write rejects it. That a refused write is the
one after the applied ones is an invariant of its own (`RefusedNext`). It holds only if no status
overtakes an answer, the hypothesis `AnswersFirst`.

What a reader wants of the promise is `LaterWritesWait`: of one user's writes on the disk, a later
one is applied only after each earlier one was applied or reported refused. It is proved
of `WriteLog`, where it needs no streams: the writes of a queue are in the order of issue, what
the attempt has reached and what was committed is in the log, so everything older than
the write applied next is in the log, or has the answer of a refusal. `RemoteStore` has it as
`AppliedInOrder`, by the refinement.

**Tables (`TableInv`, `LabelsRight`).** The first invariant: a table that counted the
present array has its number of rows and its cells in view have the people of their rows; any other has
at least people in them, or the array has been read outside its bounds; and the array is in strict order of names,
so that no two of its rows are of one person. Labels come on
top: two rows in view are never one cell, so redrawing the tapped one changes the label of
no other person, and in a table that is neither replaced nor re-read the only cells whose label
may lag are those with an unanswered save.
That the array in order exists at all (`InOrder` is a `CHOOSE`) is proved by taking the
least number first.

What the proofs changed: `InOrder` was a fold, of which nothing can be proved here; it is now
a recursive function beside the definition it is compared with. `InOrder` and
`SavesOfOthers` of `ContactTables` were written with `SortSeq` and `SelectSeq`.

Only model-checked: liveness, that is `ContactBecomesMutual`, `StoredListEmptied`,
`LaunchGoesOn` and `StoredWritesAreAnswered`. They hold under fairness, and fairness speaks
of `ENABLED`, which is out of this prover's reach. Every invariant and every action
property of the passing runs is a theorem.

## 5. What is not modelled

* Passwords and password resets, which change no state of the application; the alert
  over a failed login.
* The trips table (`UpcomingTripsViewController`): the shape of the contact tables over
  `TripController.trips`, without buttons; it has the same unguarded index (line 67).
* Of the Firestore client: the watch stream, listeners, transactions, limbo resolution and
  garbage collection, which the application does not use or cannot see; the document
  cache (reads are answered from the server, not from a stale cache, and a failed read runs
  a block that changes nothing); stream tokens, which the handshake does not send; how long
  a back-off lasts; `DisableNetwork`, which nothing calls.
* The other pods under `Pods/` (gRPC, BoringSSL, leveldb, Protobuf, abseil, analytics). They are
  nearly all of the repository's C and C++ code, third-party libraries that the application
  reaches through the Firebase interfaces only; their behaviour is assumed where the
  modules meet it (a call, a transaction, a token) and the share of those lines that the
  modules translate stays close to nothing for that reason. The application itself is Swift.
* Documents that do not parse (`Person.init?`, `Trip.init?` return nil), but for the fetch
  of the contact tables: the application writes every field it reads.
* `nil` and `""` as phone numbers are one value, none; only the button title of
  Settings tells them apart.
* Names, e-mail addresses, resorts, formatting, animation, logging; `fetchAllTrips` (no
  caller) and the notification methods (empty body).

## 6. Plan

1. What `WriteLog` has in common with the queues of the application models: that their
   `writeCommitted`, `writeRejected`, `answerLost` and `crash` are steps of it.
