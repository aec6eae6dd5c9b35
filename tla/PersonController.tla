--------------------------- MODULE PersonController ---------------------------
(***************************************************************************)
(* PersonController and the view controllers that call it: every signed-in *)
(* device keeps its user's record in memory (currentUser) and writes the   *)
(* whole record back on each edit, while other users add themselves to the *)
(* stored record with arrayUnion.                                          *)
(*                                                                         *)
(* Each device has one main thread.  Taps are handled as they come;        *)
(* completion blocks of Firestore wait their turn in the main queue.  A    *)
(* read is one step that fixes its answer and queues the block: the request*)
(* itself changes nothing, so asking earlier is the same as asking when the*)
(* answer is made.  A read that fails runs a block that changes nothing.   *)
(***************************************************************************)
EXTENDS Firestore, FiniteSets

CONSTANTS
    User,           \* the registered users, by firebaseUID
    Phone,          \* phone numbers
    Device,         \* running installations of the app
    Owner,          \* Owner[d]: the user signed in on device d
    Uses,           \* bound: Uses[d], what the user of device d does with the app
    NoPerson,       \* currentUser before initializeUser has answered
    MaxQueue,       \* bound: with MaxQueue[d] writes queued the user of d waits
    MaxMain,        \* bound: with MaxMain[d] blocks waiting the user of d asks nothing
    SelfSearch,     \* do users look up their own phone number?
    ReloadRaces,    \* do edits happen while a reload's answer waits to run?
    Refusable,      \* the calls whose writes the backend may refuse for good
    Crashes         \* is the app ever killed and relaunched?

RecordField == {"contacts", "blockedUsers", "invitedUsers", "phoneNumber"}

ASSUME SchemaAssumption ==
    /\ Key = User
    /\ Field = RecordField
    /\ Value = User \cup Phone

ASSUME UserAssumption == IsFiniteSet(User)

ASSUME OwnerAssumption == Owner \in [Device -> User]

Feature == {"block", "invite", "trip", "phone", "search", "settings", "tables"}

ASSUME UsesAssumption == Uses \in [Device -> SUBSET Feature]

ASSUME NoPersonAssumption == NoPerson \notin Document

ASSUME BoundAssumption ==
    /\ MaxQueue \in [Device -> Nat \ {0}]
    /\ MaxMain \in [Device -> Nat \ {0}]

ASSUME SwitchAssumption ==
    /\ {SelfSearch, ReloadRaces, Crashes} \subseteq BOOLEAN
    /\ Refusable \subseteq {"setData", "updateData"}

\* A person's record as Person.dictionary lays it out.  Name, email, UID and
\* document reference never change once the account exists and are left out.
Person == Document

\* What the phone number of a record may be: a number, or none (nil or the empty text).
Number == {{}} \cup {{p} : p \in Phone}

VARIABLES
    users,         \* the backend's "users" collection
    currentUser,   \* PersonController.currentUser of each device
    shown,         \* the contacts in the cells of each device's tables
    queue,         \* the Firestore client's mutation queue of each device
    main           \* completion blocks waiting on each device's main thread

vars == <<users, currentUser, shown, queue, main>>

-----------------------------------------------------------------------------
(***************************************************************************)
(* Completion blocks.  "found": searchForContact has matched people.       *)
(* "saved": the save of addContactToUser has been answered.  "reload":     *)
(* initializeUser has read a record.  "contacts": fetchContacts has a list.*)
(* "tripStored": the write of createTrip has been answered.                *)
(***************************************************************************)

CallbackKind == {"found", "saved", "reload", "contacts", "tripStored"}

Callback ==
    [kind : CallbackKind \ {"reload"}, people : SUBSET User, person : {NoPerson}]
    \cup [kind : {"reload"}, people : {{}}, person : Person]

Block(kind, people) == [kind |-> kind, people |-> people, person |-> NoPerson]

RecordRead(person) == [kind |-> "reload", people |-> {}, person |-> person]

Enqueued(d, kind) == \E i \in DOMAIN main[d] : main[d][i].kind = kind

\* The device's main thread is about to run a block of this kind.
Runs(d, kind) == main[d] # <<>> /\ Head(main[d]).kind = kind

Me(d) == Owner[d]

\* What device d reads as document u, its own queued writes included.
Seen(d, u) == LocalDocument(users[u], queue[d], u)

\* The user can tap something that edits the record.
CanEdit(d, feature) ==
    /\ feature \in Uses[d]
    /\ currentUser[d] # NoPerson
    /\ Len(queue[d]) < MaxQueue[d]
    /\ ReloadRaces \/ ~Enqueued(d, "reload")

\* The user can open something that asks the backend.
CanAsk(d, feature) ==
    /\ feature \in Uses[d]
    /\ currentUser[d] # NoPerson
    /\ Len(main[d]) < MaxMain[d]

TypeOK ==
    /\ users \in [User -> Person]
    /\ currentUser \in [Device -> Person \cup {NoPerson}]
    /\ shown \in [Device -> SUBSET User]
    /\ queue \in [Device -> Seq(Write)]
    /\ main \in [Device -> Seq(Callback)]

\* createAccount has run for every user, some have added their phone number, and
\* every device has been signed in.
Init ==
    /\ \E number \in [User -> Number] :
          users = [u \in User |-> [EmptyDocument EXCEPT !["phoneNumber"] = number[u]]]
    /\ currentUser = [d \in Device |-> users[Me(d)]]
    /\ shown = [d \in Device |-> {}]
    /\ queue = [d \in Device |-> <<>>]
    /\ main = [d \in Device |-> <<>>]

-----------------------------------------------------------------------------
(***************************************************************************)
(* Edits of the record: change currentUser, then saveUserToFirestore.      *)
(***************************************************************************)

\* Save, if the record were written back before it was edited.
SaveTooEarly(d, person) ==
    /\ currentUser' = [currentUser EXCEPT ![d] = person]
    /\ queue' = [queue EXCEPT ![d] = Append(@, SetData(Me(d), currentUser[d], {}))]
    /\ UNCHANGED <<users, shown, main>>

\* currentUser becomes person and the whole of it is written back.
Save(d, person) ==
    /\ currentUser' = [currentUser EXCEPT ![d] = person]
    /\ queue' = [queue EXCEPT ![d] = Append(@, SetData(Me(d), person, {}))]
    /\ UNCHANGED <<users, shown, main>>

With(person, f, members) == [person EXCEPT ![f] = members]

blockContact(d, c) ==
    /\ c \notin currentUser[d]["blockedUsers"]
    /\ Save(d, With(currentUser[d], "blockedUsers", currentUser[d]["blockedUsers"] \cup {c}))

unblockContact(d, c) ==
    /\ c \in currentUser[d]["blockedUsers"]
    /\ Save(d, With(currentUser[d], "blockedUsers", currentUser[d]["blockedUsers"] \ {c}))

\* inviteContact, if the host were not put on the list with the first guest.
inviteContactOnly(d, c) ==
    /\ c \notin currentUser[d]["invitedUsers"]
    /\ Save(d, With(currentUser[d], "invitedUsers", currentUser[d]["invitedUsers"] \cup {c}))

inviteContact(d, c) ==
    /\ c \notin currentUser[d]["invitedUsers"]
    /\ Save(d, With(currentUser[d], "invitedUsers",
                    currentUser[d]["invitedUsers"] \cup {c, Me(d)}))

uninviteContact(d, c) ==
    /\ c \in currentUser[d]["invitedUsers"]
    /\ Save(d, With(currentUser[d], "invitedUsers", currentUser[d]["invitedUsers"] \ {c}))

\* A cell's button on the contacts screen, and on the create-trip screen.
contactsButtonTapped(d) ==
    /\ CanEdit(d, "block")
    /\ \E c \in shown[d] : blockContact(d, c) \/ unblockContact(d, c)

inviteButtonTapped(d) ==
    /\ CanEdit(d, "invite")
    /\ \E c \in shown[d] : inviteContact(d, c) \/ uninviteContact(d, c)

\* A trip has been stored, which TripController decides: its block joins the queue.
tripStored(d) ==
    /\ CanAsk(d, "trip")
    /\ Len(queue[d]) < MaxQueue[d]
    /\ main' = [main EXCEPT ![d] = Append(@, Block("tripStored", {}))]
    /\ UNCHANGED <<users, currentUser, shown, queue>>

\* The block of a stored trip, whatever is queued by then: the list is emptied.
removeInvitedContacts(d) ==
    /\ Runs(d, "tripStored")
    /\ LET person == With(currentUser[d], "invitedUsers", {}) IN
          /\ currentUser' = [currentUser EXCEPT ![d] = person]
          /\ queue' = [queue EXCEPT ![d] = Append(@, SetData(Me(d), person, {}))]
    /\ main' = [main EXCEPT ![d] = Tail(@)]
    /\ UNCHANGED <<users, shown>>

\* The phone number is written to the document only, never to currentUser.
updatePhoneNumber(d) ==
    /\ CanEdit(d, "phone")
    /\ \E number \in Number :
          queue' = [queue EXCEPT ![d] =
              Append(@, UpdateField(Me(d), "phoneNumber", number))]
    /\ UNCHANGED <<users, currentUser, shown, main>>

-----------------------------------------------------------------------------
(***************************************************************************)
(* Adding a contact: look the number up, put each match on the own record, *)
(* and once that save is answered put the own UID on the match's record.   *)
(***************************************************************************)

Matches(d, p) == {u \in User : p \in Seen(d, u)["phoneNumber"]}

searchForContact(d) ==
    /\ CanAsk(d, "search")
    /\ Len(queue[d]) < MaxQueue[d]
    /\ \E p \in Phone :
          /\ Matches(d, p) # {}
          /\ SelfSearch \/ Me(d) \notin Matches(d, p)
          /\ main' = [main EXCEPT ![d] = Append(@, Block("found", Matches(d, p)))]
    /\ UNCHANGED <<users, currentUser, shown, queue>>

\* Every order in which a query may list a set of documents.
Listings(S) ==
    {s \in [1..Cardinality(S) -> S] : \A i, j \in DOMAIN s : s[i] = s[j] => i = j}

\* addCurrentUser, if it wrote a plain array instead of an arrayUnion.
setCurrentUser(d, u) == UpdateField(u, "contacts", {Me(d)})

addCurrentUser(d, u) == ArrayUnion(u, "contacts", {Me(d)})

\* AddContactWrite, if the search stopped at the save of the own record.
SaveContactOnly(d, people, i) ==
    SetData(Me(d), With(currentUser[d], "contacts",
                        currentUser[d]["contacts"] \cup {people[j] : j \in 1..i}), {})

\* The write addContactToUser, or on its refusal addCurrentUser, makes for the i-th
\* of the listed people, when the record's contacts were known before the first.
AddContactWrite(d, people, i) ==
    LET person == currentUser[d]
        known  == person["contacts"]
    IN IF people[i] \in known
       THEN addCurrentUser(d, people[i])
       ELSE SetData(Me(d),
                    With(person, "contacts", known \cup {people[j] : j \in 1..i}),
                    {people[i]})

contactFound(d) ==
    /\ Runs(d, "found")
    /\ LET found == Head(main[d]).people IN
          /\ \E people \in Listings(found) :
                queue' = [queue EXCEPT ![d] =
                    @ \o [i \in 1..Cardinality(found) |-> AddContactWrite(d, people, i)]]
          /\ currentUser' = [currentUser EXCEPT ![d] =
                With(@, "contacts", @["contacts"] \cup found)]
    /\ main' = [main EXCEPT ![d] = Tail(@)]
    /\ UNCHANGED <<users, shown>>

contactSaved(d) ==
    /\ Runs(d, "saved")
    /\ \E u \in Head(main[d]).people :
          queue' = [queue EXCEPT ![d] = Append(@, addCurrentUser(d, u))]
    /\ main' = [main EXCEPT ![d] = Tail(@)]
    /\ UNCHANGED <<users, currentUser, shown>>

-----------------------------------------------------------------------------
(***************************************************************************)
(* Reads.  The user's own record is read at launch (SplashScreen) and each *)
(* time Settings appears; the contacts list whenever a table of contacts   *)
(* loads or appears.                                                       *)
(***************************************************************************)

\* initializeUser, if a record that does not parse were taken for an answer.
initializeUserUnchecked(d) ==
    /\ currentUser[d] = NoPerson
    /\ Len(main[d]) < MaxMain[d]
    /\ main' = [main EXCEPT ![d] = Append(@, RecordRead(
          IF Seen(d, Me(d)) = EmptyDocument THEN NoPerson ELSE Seen(d, Me(d))))]
    /\ UNCHANGED <<users, currentUser, shown, queue>>

initializeUser(d) ==
    /\ "settings" \in Uses[d] \/ currentUser[d] = NoPerson
    /\ Len(main[d]) < MaxMain[d]
    /\ ReloadRaces \/ ~(Enqueued(d, "found") \/ Enqueued(d, "tripStored"))
    /\ main' = [main EXCEPT ![d] = Append(@,
          RecordRead(Seen(d, Me(d))))]
    /\ UNCHANGED <<users, currentUser, shown, queue>>

userInitialized(d) ==
    /\ Runs(d, "reload")
    /\ currentUser' = [currentUser EXCEPT ![d] = Head(main[d]).person]
    /\ main' = [main EXCEPT ![d] = Tail(@)]
    /\ UNCHANGED <<users, shown, queue>>

\* Users who have me among their contacts and have not blocked me.
Fetched(d) ==
    {u \in User : /\ Me(d) \in Seen(d, u)["contacts"]
                  /\ Me(d) \notin Seen(d, u)["blockedUsers"]}

\* A screen with a table of contacts loads or appears.
fetchContacts(d) ==
    /\ CanAsk(d, "tables")
    /\ main' = [main EXCEPT ![d] = Append(@, Block("contacts", Fetched(d)))]
    /\ UNCHANGED <<users, currentUser, shown, queue>>

\* The cells are rebuilt only when the list is not empty.
contactsFetched(d) ==
    /\ Runs(d, "contacts")
    /\ LET list == Head(main[d]).people IN
          shown' = [shown EXCEPT ![d] = IF list = {} THEN @ ELSE list]
    /\ main' = [main EXCEPT ![d] = Tail(@)]
    /\ UNCHANGED <<users, currentUser, queue>>

-----------------------------------------------------------------------------
(***************************************************************************)
(* The backend answers the oldest write of a device.                       *)
(***************************************************************************)

\* Answer, if the newest write were taken for the one that is answered.
AnswerNewest(d) ==
    /\ queue' = [queue EXCEPT ![d] = SubSeq(@, 1, Len(@) - 1)]
    /\ main' = main

\* The completion block of the oldest write goes to the main thread.
Answer(d) ==
    LET then == Head(queue[d]).then IN
    /\ queue' = [queue EXCEPT ![d] = Tail(@)]
    /\ main' = IF then = {} THEN main
               ELSE [main EXCEPT ![d] = Append(@, Block("saved", then))]

writeCommitted(d) ==
    /\ queue[d] # <<>>
    /\ LET w == Head(queue[d]) IN
          users' = [users EXCEPT ![w.to] = Applied(@, w)]
    /\ Answer(d)
    /\ UNCHANGED <<currentUser, shown>>

\* The backend applies the oldest write and the answer is lost with the stream:
\* the client will send the write again, whatever was written in between.
answerLost(d) ==
    /\ queue[d] # <<>>
    /\ LET w == Head(queue[d]) IN
          users' = [users EXCEPT ![w.to] = Applied(@, w)]
    /\ UNCHANGED <<currentUser, shown, queue, main>>

\* The call that made a write: setData replaces every field of the record.
Call(w) == IF w.replaces = Field THEN "setData" ELSE "updateData"

\* saveUserToFirestore completes with true whatever the error.
writeRejected(d) ==
    /\ queue[d] # <<>>
    /\ Call(Head(queue[d])) \in Refusable
    /\ Answer(d)
    /\ UNCHANGED <<users, currentUser, shown>>

\* The process dies and starts again: the queue is on disk, its completion blocks
\* and everything else of the device were in memory.
crash(d) ==
    /\ Crashes
    /\ currentUser' = [currentUser EXCEPT ![d] = NoPerson]
    /\ shown' = [shown EXCEPT ![d] = {}]
    /\ queue' = [queue EXCEPT ![d] = [i \in DOMAIN @ |-> Restored(@[i])]]
    /\ main' = [main EXCEPT ![d] = <<>>]
    /\ UNCHANGED users

-----------------------------------------------------------------------------

UserStep(d) ==
    \/ contactsButtonTapped(d)
    \/ inviteButtonTapped(d)
    \/ tripStored(d)
    \/ updatePhoneNumber(d)
    \/ searchForContact(d)
    \/ initializeUser(d)
    \/ fetchContacts(d)

MainStep(d) ==
    \/ contactFound(d)
    \/ contactSaved(d)
    \/ removeInvitedContacts(d)
    \/ userInitialized(d)
    \/ contactsFetched(d)

ClientStep(d) == writeCommitted(d) \/ answerLost(d) \/ writeRejected(d) \/ crash(d)

Next == \E d \in Device : UserStep(d) \/ MainStep(d) \/ ClientStep(d)

Spec == Init /\ [][Next]_vars

\* The main thread runs its blocks and the client keeps sending its queue; users
\* and crashes are under no obligation.
Fairness == \A d \in Device : WF_vars(MainStep(d)) /\ WF_vars(writeCommitted(d))

FairSpec == Spec /\ Fairness

-----------------------------------------------------------------------------
(***************************************************************************)
(* Properties                                                              *)
(***************************************************************************)

\* A user is not among the own contacts, and an invitation list that is not empty
\* has the host on it: fetchTrips finds a trip by the UIDs of its list only, so the
\* host of a list without the host never sees the trip.
HostInvited(u, person) ==
    /\ u \notin person["contacts"]
    /\ person["invitedUsers"] # {} => u \in person["invitedUsers"]

\* The host stays on every invitation list, stored or in memory, as long as nobody
\* adds himself as a contact (uninviteContact then takes the host off).
InvitesIncludeHost ==
    /\ \A u \in User : HostInvited(u, users[u])
    /\ \A d \in Device : currentUser[d] # NoPerson => HostInvited(Me(d), currentUser[d])

\* currentUser! is never nil where addContactToUser, addCurrentUser and the save of a
\* stored trip's block force it: no block of a search or a trip outlives the process,
\* and none starts before the record is read.
ForcedUserPresent ==
    \A d \in Device : currentUser[d] = NoPerson =>
        ~Enqueued(d, "found") /\ ~Enqueued(d, "saved") /\ ~Enqueued(d, "tripStored")

\* What the device will read back of its user's record agrees with the record in
\* memory: the block and invitation lists are the same and no contact is missing,
\* whatever others add meanwhile and however often the app is killed.
RecordKept(d, person) ==
    LET seen == Seen(d, Me(d)) IN
    /\ seen["blockedUsers"] = person["blockedUsers"]
    /\ seen["invitedUsers"] = person["invitedUsers"]
    /\ person["contacts"] \subseteq seen["contacts"]

OwnEditsKept ==
    \A d \in Device : currentUser[d] # NoPerson => RecordKept(d, currentUser[d])

\* Only a device of the user changes a stored record, but for one more contact: the
\* owner of the device whose write was applied (addCurrentUser).
OthersOnlyAddThemselves ==
    [][\A u \in User : users'[u] # users[u] =>
          \E d \in Device :
             /\ queue[d] # <<>> /\ Head(queue[d]).to = u
             /\ \/ Me(d) = u
                \/ users'[u] = With(users[u], "contacts", users[u]["contacts"] \cup {Me(d)})]_vars

\* A write that is applied by the backend and leaves the queue changes nothing the
\* device sees: neither a flicker back nor an edit shown twice.
AckKeepsView ==
    [][\A d \in Device : writeCommitted(d) => \A u \in User : Seen(d, u)' = Seen(d, u)]_vars

\* Adding a contact is finished on both sides: whoever a search has found gets the
\* searcher on the stored record, through a save and then an arrayUnion, or at once
\* when the contact was there already.
ContactBecomesMutual ==
    \A d \in Device, u \in User :
        (Runs(d, "found") /\ u \in Head(main[d]).people) ~> Me(d) \in users[u]["contacts"]

\* No operation of the app removes a contact, so a stored contact stays.
StoredContactsKept ==
    [][\A u \in User : users[u]["contacts"] \subseteq users'[u]["contacts"]]_vars

\* A stored phone number changes only when updatePhoneNumber's write is applied.
StoredPhoneNumberKept ==
    [][\A u \in User : users'[u]["phoneNumber"] # users[u]["phoneNumber"] =>
          \E d \in Device : /\ queue[d] # <<>>
                            /\ Head(queue[d]).replaces = {"phoneNumber"}]_vars

=============================================================================
