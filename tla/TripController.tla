---------------------------- MODULE TripController ----------------------------
(***************************************************************************)
(* Trips: a host picks guests into the own record's invitation list        *)
(* (PersonController), turns the list into a trip (TripController), and    *)
(* when the trip has been stored the list is emptied and the screen left.  *)
(* Guests find the trips that invite them.                                 *)
(*                                                                         *)
(* Every user has one device.  The "trips" collection and the invitation   *)
(* lists of the users' records are the documents of Firestore; both go     *)
(* through the device's one queue of writes.  PersonController models the  *)
(* rest of a user's record.                                                *)
(***************************************************************************)
EXTENDS Firestore, FiniteSets

CONSTANTS
    User,        \* the registered users
    Trip,        \* document identifiers of trips: the bound on trips made
    Hosts,       \* bound: the users who open the create-trip screen
    Contacts,    \* Contacts[u]: whom the table of the create-trip screen shows u
    MaxTime,     \* bound on the clock and on the dates of trips
    MaxQueue,    \* bound: with MaxQueue writes queued a user waits
    MaxMain,     \* bound: with MaxMain blocks waiting a user fetches nothing
    TapsAhead,   \* does a host go on while a trip's answer is outstanding?
    Refused,     \* the documents whose writes the backend may refuse
    Crashes      \* is the app ever killed and relaunched?

ASSUME TripSchemaAssumption ==
    /\ Key = Trip \cup User
    /\ Trip \cap User = {}
    /\ Field = {"guests"}
    /\ Value = User

ASSUME ContactsAssumption ==
    /\ Contacts \in [User -> SUBSET User]
    /\ \A u \in User : u \notin Contacts[u]

ASSUME TripBoundAssumption ==
    /\ Hosts \subseteq User
    /\ Refused \subseteq Key
    /\ {TapsAhead, Crashes} \subseteq BOOLEAN
    /\ MaxTime \in Nat /\ MaxQueue \in Nat /\ MaxMain \in Nat

Time == 0..MaxTime

VARIABLES
    docs,     \* the backend's documents: invitation lists and trips
    made,     \* [Trip -> {} or one record]: creator and date of a trip, fixed at creation
    now,      \* the clock
    draft,    \* currentUser.invitedUsersFirebase on each device
    tab,      \* the tab each device shows
    open,     \* is a create-trip screen open on the resorts tab?
    fromCreate, \* ResortsTableViewController.fromCreate: go on to the trips tab
    tapped,   \* the trips made on the create-trip screen that is open
    listed,   \* TripController.trips of each device
    queue,    \* the Firestore client's mutation queue of each device
    main      \* completion blocks waiting on each device's main thread

screen == <<tab, open, fromCreate>>

vars == <<docs, made, now, draft, screen, tapped, listed, queue, main>>

\* "stored": setData of a trip has succeeded.  "pop": the block it dispatches.
\* "fetched": fetchTrips has an answer.
Callback == [kind : {"stored", "pop", "fetched"}, trips : SUBSET Trip]

Block(kind, trips) == [kind |-> kind, trips |-> trips]

Runs(u, kind) == main[u] # <<>> /\ Head(main[u]).kind = kind

Guests(members) == [f \in Field |-> members]

\* What the device of u reads as the list of guests of document k.
SeenGuests(u, k) == LocalDocument(docs[k], queue[u], k)["guests"]

\* A trip of u has been written and its answer has not been dealt with.
Outstanding(u) ==
    \/ \E i \in DOMAIN queue[u] : queue[u][i].then # {}
    \/ \E i \in DOMAIN main[u] : main[u][i].kind = "stored"

TypeOK ==
    /\ docs \in [Key -> Document]
    /\ made \in [Trip -> {{}} \cup {{m} : m \in [creatorID : User, date : Time]}]
    /\ now \in Time
    /\ draft \in [User -> SUBSET User]
    /\ tab \in [User -> {"resorts", "trips"}]
    /\ open \in [User -> BOOLEAN]
    /\ fromCreate \in [User -> BOOLEAN]
    /\ tapped \in [User -> SUBSET Trip]
    /\ listed \in [User -> SUBSET Trip]
    /\ queue \in [User -> Seq(Write)]
    /\ main \in [User -> Seq(Callback)]

Init ==
    /\ docs = [k \in Key |-> EmptyDocument]
    /\ made = [t \in Trip |-> {}]
    /\ now = 0
    /\ draft = [u \in User |-> {}]
    /\ tab = [u \in User |-> "resorts"]
    /\ open = [u \in User |-> FALSE]
    /\ fromCreate = [u \in User |-> FALSE]
    /\ tapped = [u \in User |-> {}]
    /\ listed = [u \in User |-> {}]
    /\ queue = [u \in User |-> <<>>]
    /\ main = [u \in User |-> <<>>]

-----------------------------------------------------------------------------
(***************************************************************************)
(* The create-trip screen.                                                 *)
(***************************************************************************)

\* A resort is chosen and its create-trip screen opened; or left by the back button.
openCreateTrip(u) ==
    /\ u \in Hosts
    /\ tab[u] = "resorts" /\ ~open[u]
    /\ open' = [open EXCEPT ![u] = TRUE]
    /\ UNCHANGED <<docs, made, now, draft, tab, fromCreate, tapped, listed, queue, main>>

goBack(u) ==
    /\ tab[u] = "resorts" /\ open[u]
    /\ open' = [open EXCEPT ![u] = FALSE]
    /\ tapped' = [tapped EXCEPT ![u] = {}]
    /\ UNCHANGED <<docs, made, now, draft, tab, fromCreate, listed, queue, main>>

CanTap(u) ==
    /\ tab[u] = "resorts" /\ open[u]
    /\ Len(queue[u]) < MaxQueue
    /\ TapsAhead \/ ~Outstanding(u)

\* saveUserToFirestore with a new invitation list.
SaveGuests(u, members) ==
    /\ draft' = [draft EXCEPT ![u] = members]
    /\ queue' = [queue EXCEPT ![u] = Append(@, SetData(u, Guests(members), {}))]

\* inviteContact, if the host were not put on the list with the guest.
inviteGuestOnly(u, c) ==
    /\ CanTap(u)
    /\ c \in Contacts[u] \ draft[u]
    /\ SaveGuests(u, draft[u] \cup {c})
    /\ UNCHANGED <<docs, made, now, screen, tapped, listed, main>>

inviteContact(u, c) ==
    /\ CanTap(u)
    /\ c \in Contacts[u] \ draft[u]
    /\ SaveGuests(u, draft[u] \cup {c, u})
    /\ UNCHANGED <<docs, made, now, screen, tapped, listed, main>>

uninviteContact(u, c) ==
    /\ CanTap(u)
    /\ c \in Contacts[u] \cap draft[u]
    /\ SaveGuests(u, draft[u] \ {c})
    /\ UNCHANGED <<docs, made, now, screen, tapped, listed, main>>

\* createTripButtonTapped and createTrip: whatever the list and the date are.
createTrip(u) ==
    /\ CanTap(u)
    /\ \E t \in Trip, date \in Time :
          /\ made[t] = {}
          /\ made' = [made EXCEPT ![t] = {[creatorID |-> u, date |-> date]}]
          /\ queue' = [queue EXCEPT ![u] = Append(@, SetData(t, Guests(draft[u]), {t}))]
          /\ tapped' = [tapped EXCEPT ![u] = @ \cup {t}]
    /\ UNCHANGED <<docs, now, draft, screen, listed, main>>

\* tripStored, if the emptied list were not saved.
clearInMemory(u) ==
    /\ Runs(u, "stored")
    /\ draft' = [draft EXCEPT ![u] = {}]
    /\ main' = [main EXCEPT ![u] = Append(Tail(@), Block("pop", Head(@).trips))]
    /\ UNCHANGED <<docs, made, now, screen, tapped, listed, queue>>

\* The completion block of createTrip: the list is emptied and saved, and leaving
\* the screen is dispatched to the main queue.
tripStored(u) ==
    /\ Runs(u, "stored")
    /\ SaveGuests(u, {})
    /\ main' = [main EXCEPT ![u] = Append(Tail(@), Block("pop", Head(@).trips))]
    /\ UNCHANGED <<docs, made, now, screen, tapped, listed>>

\* Back to the root unless the screen has gone already.  The root goes on to the
\* trips tab when it appears, which it does at once if its tab is the one shown.
popToRoot(u) ==
    /\ Runs(u, "pop")
    /\ main' = [main EXCEPT ![u] = Tail(@)]
    /\ IF Head(main[u]).trips \cap tapped[u] = {}
       THEN UNCHANGED <<screen, tapped>>
       ELSE /\ open' = [open EXCEPT ![u] = FALSE]
            /\ tapped' = [tapped EXCEPT ![u] = {}]
            /\ fromCreate' = [fromCreate EXCEPT ![u] = tab[u] # "resorts"]
            /\ tab' = [tab EXCEPT ![u] = "trips"]
    /\ UNCHANGED <<docs, made, now, draft, listed, queue>>

-----------------------------------------------------------------------------
(***************************************************************************)
(* The trips tab.                                                          *)
(***************************************************************************)

\* The other tab is selected; the root of the resorts tab sends its user back to the
\* trips once after a trip was made.
selectTab(u) ==
    /\ tab' = [tab EXCEPT ![u] =
          IF @ = "resorts" \/ fromCreate[u] THEN "trips" ELSE "resorts"]
    /\ fromCreate' = [fromCreate EXCEPT ![u] = FALSE]
    /\ UNCHANGED <<docs, made, now, draft, open, tapped, listed, queue, main>>

\* fetchTrips, if the tab called fetchAllTrips.
fetchAllTrips(u) ==
    /\ tab[u] = "trips"
    /\ Len(main[u]) < MaxMain
    /\ main' = [main EXCEPT ![u] = Append(@, Block("fetched", {t \in Trip : made[t] # {}}))]
    /\ UNCHANGED <<docs, made, now, draft, screen, tapped, listed, queue>>

\* The tab appears and asks for the trips that invite its user; the query is answered
\* from what the device sees.
fetchTrips(u) ==
    /\ tab[u] = "trips"
    /\ Len(main[u]) < MaxMain
    /\ main' = [main EXCEPT ![u] =
          Append(@, Block("fetched", {t \in Trip : u \in SeenGuests(u, t)}))]
    /\ UNCHANGED <<docs, made, now, draft, screen, tapped, listed, queue>>

Upcoming(t) == \E m \in made[t] : m.date > now

\* The answer replaces the list, without the trips that are over by now.
tripsFetched(u) ==
    /\ Runs(u, "fetched")
    /\ listed' = [listed EXCEPT ![u] = {t \in Head(main[u]).trips : Upcoming(t)}]
    /\ main' = [main EXCEPT ![u] = Tail(@)]
    /\ UNCHANGED <<docs, made, now, draft, screen, tapped, queue>>

-----------------------------------------------------------------------------
(***************************************************************************)
(* The client, the clock and the process.                                  *)
(***************************************************************************)

\* writeCommitted, if the answer to any write ran the block of createTrip.
anyWriteStored(u) ==
    /\ queue[u] # <<>>
    /\ LET w == Head(queue[u]) IN
          /\ docs' = [docs EXCEPT ![w.to] = Applied(@, w)]
          /\ main' = [main EXCEPT ![u] = Append(@, Block("stored", {w.to}))]
    /\ queue' = [queue EXCEPT ![u] = Tail(@)]
    /\ UNCHANGED <<made, now, draft, screen, tapped, listed>>

writeCommitted(u) ==
    /\ queue[u] # <<>>
    /\ LET w == Head(queue[u]) IN
          /\ docs' = [docs EXCEPT ![w.to] = Applied(@, w)]
          /\ main' = IF w.then = {} THEN main
                     ELSE [main EXCEPT ![u] = Append(@, Block("stored", w.then))]
    /\ queue' = [queue EXCEPT ![u] = Tail(@)]
    /\ UNCHANGED <<made, now, draft, screen, tapped, listed>>

\* writeRejected, if createTrip completed with true whatever the error, as saves do.
rejectedAsStored(u) ==
    /\ queue[u] # <<>>
    /\ Head(queue[u]).to \in Refused
    /\ LET w == Head(queue[u]) IN
          main' = IF w.then = {} THEN main
                  ELSE [main EXCEPT ![u] = Append(@, Block("stored", w.then))]
    /\ queue' = [queue EXCEPT ![u] = Tail(@)]
    /\ UNCHANGED <<docs, made, now, draft, screen, tapped, listed>>

\* createTrip's block completes with false and the screen stays as it is.
writeRejected(u) ==
    /\ queue[u] # <<>>
    /\ Head(queue[u]).to \in Refused
    /\ queue' = [queue EXCEPT ![u] = Tail(@)]
    /\ UNCHANGED <<docs, made, now, draft, screen, tapped, listed, main>>

tick ==
    /\ now < MaxTime
    /\ now' = now + 1
    /\ UNCHANGED <<docs, made, draft, screen, tapped, listed, queue, main>>

\* The process dies and starts again, and initializeUser reads the record.
relaunch(u) ==
    /\ Crashes
    /\ draft' = [draft EXCEPT ![u] = SeenGuests(u, u)]
    /\ tab' = [tab EXCEPT ![u] = "resorts"]
    /\ open' = [open EXCEPT ![u] = FALSE]
    /\ fromCreate' = [fromCreate EXCEPT ![u] = FALSE]
    /\ tapped' = [tapped EXCEPT ![u] = {}]
    /\ listed' = [listed EXCEPT ![u] = {}]
    /\ queue' = [queue EXCEPT ![u] = [i \in DOMAIN @ |-> Restored(@[i])]]
    /\ main' = [main EXCEPT ![u] = <<>>]
    /\ UNCHANGED <<docs, made, now>>

UserStep(u) ==
    \/ openCreateTrip(u)
    \/ goBack(u)
    \/ \E c \in User : inviteContact(u, c) \/ uninviteContact(u, c)
    \/ createTrip(u)
    \/ selectTab(u)
    \/ fetchTrips(u)

MainStep(u) == tripStored(u) \/ popToRoot(u) \/ tripsFetched(u)

ClientStep(u) == writeCommitted(u) \/ writeRejected(u) \/ relaunch(u)

Next == tick \/ \E u \in User : UserStep(u) \/ MainStep(u) \/ ClientStep(u)

Spec == Init /\ [][Next]_vars

\* The main thread runs its blocks and the client keeps sending its queue; users, the
\* clock and crashes are under no obligation.
Fairness == \A u \in User : WF_vars(MainStep(u)) /\ WF_vars(writeCommitted(u))

FairSpec == Spec /\ Fairness

-----------------------------------------------------------------------------
(***************************************************************************)
(* Properties                                                              *)
(***************************************************************************)

Creator(t) == CHOOSE u \in User : \E m \in made[t] : m.creatorID = u

\* The host is on every trip that has guests, so whoever finds a trip, its host finds
\* it too: fetchTrips looks for the own UID on the trip's list and nowhere else.
HostOnTrips ==
    \A t \in Trip : docs[t]["guests"] # {} => Creator(t) \in docs[t]["guests"]

\* A trip is listed only for its host and for those it invites, whatever was refused,
\* lost or fetched late.
ListedForInvited ==
    \A u \in User : \A t \in listed[u] : u = Creator(t) \/ u \in docs[t]["guests"]

\* Nobody drops off an invitation list but by uninviteContact or because a trip that
\* invites the whole list has been stored: not by a refused trip, not by a crash.
InvitationsSent ==
    [][\A u \in User :
          \/ draft[u] \subseteq draft'[u]
          \/ \E c \in User : uninviteContact(u, c)
          \/ \E t \in Trip : /\ made[t] # {} /\ Creator(t) = u
                             /\ draft[u] \subseteq docs[t]["guests"]]_vars

\* Once a trip is stored, the host's stored invitation list is emptied as well, so that
\* the next launch does not bring the old guests back.
StoredListEmptied ==
    \A u \in User : Runs(u, "stored") ~> docs[u]["guests"] = {}

=============================================================================
