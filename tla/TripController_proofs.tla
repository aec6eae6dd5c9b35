------------------------- MODULE TripController_proofs -------------------------
(***************************************************************************)
(* Theorems about TripController for every set of users and trips, every   *)
(* table of contacts and every setting of the bounds and switches.         *)
(***************************************************************************)
EXTENDS TripController, Firestore_proofs, TLAPS

-----------------------------------------------------------------------------
(***************************************************************************)
(* The inductive invariant.  A document that has guests has its host among *)
(* them: the user of a record, the creator of a trip that was made.  It    *)
(* holds of the backend's documents, of every queued write, and of the     *)
(* lists in memory, because each of them may become the next one.  And a   *)
(* queued write goes on with trips only.                                   *)
(***************************************************************************)

HostOf(k, trips) ==
    IF k \in Trip THEN CHOOSE u \in User : \E m \in trips[k] : m.creatorID = u ELSE k

Hosted(k, members, trips) ==
    members # {} => (k \in Trip => trips[k] # {}) /\ HostOf(k, trips) \in members

HostedWrite(w, trips) == Hosted(w.to, w.data["guests"], trips) /\ w.then \subseteq Trip

HostedQueue(q, trips) == \A i \in DOMAIN q : HostedWrite(q[i], trips)

TripInv ==
    /\ TypeOK
    /\ \A u \in User : Hosted(u, draft[u], made) /\ HostedQueue(queue[u], made)
    /\ \A k \in Key : Hosted(k, docs[k]["guests"], made)

-----------------------------------------------------------------------------
(***************************************************************************)
(* Types.                                                                  *)
(***************************************************************************)

LEMMA TripFields ==
    /\ Field = {"guests"} /\ Value = User
    /\ Key = Trip \cup User /\ Trip \cap User = {}
BY TripSchemaAssumption

LEMMA GuestsType ==
    ASSUME NEW members \in SUBSET User, NEW k \in Key, NEW then \in SUBSET Key
    PROVE  /\ Guests(members) \in Document
           /\ Guests(members)["guests"] = members
           /\ SetData(k, Guests(members), then) \in Write
BY TripFields DEF Guests, Document, SetData, Write

LEMMA SeenGuestsType ==
    ASSUME NEW u, NEW k
    PROVE  SeenGuests(u, k) \subseteq User
BY TripFields DEF SeenGuests, LocalDocument, LocalField

LEMMA TripBlockType ==
    ASSUME NEW kind \in {"stored", "pop", "fetched"}, NEW trips \in SUBSET Trip
    PROVE  Block(kind, trips) \in Callback
BY DEF Block, Callback

LEMMA BlockAppended ==
    ASSUME TypeOK, NEW u \in User, NEW block \in Callback
    PROVE  [main EXCEPT ![u] = Append(@, block)] \in [User -> Seq(Callback)]
BY DEF TypeOK

LEMMA FirstBlock ==
    ASSUME TypeOK, NEW u \in User, NEW kind, Runs(u, kind)
    PROVE  /\ Head(main[u]) \in Callback
           /\ Tail(main[u]) \in Seq(Callback)
BY DEF TypeOK, Runs

LEMMA FirstWrite ==
    ASSUME TripInv, NEW u \in User, queue[u] # <<>>
    PROVE  /\ Head(queue[u]) \in Write
           /\ Tail(queue[u]) \in Seq(Write)
           /\ HostedWrite(Head(queue[u]), made)
           /\ [queue EXCEPT ![u] = Tail(@)] \in [User -> Seq(Write)]
<1>1. queue[u] \in Seq(Write) /\ queue \in [User -> Seq(Write)]
  BY DEF TripInv, TypeOK
<1>2. 1 \in DOMAIN queue[u] /\ Head(queue[u]) = queue[u][1]
  BY <1>1
<1> QED
  BY <1>1, <1>2 DEF TripInv, HostedQueue

\* Saving an invitation list that is empty or has the own user on it.
LEMMA SaveGuestsKeeps ==
    ASSUME TripInv, NEW u \in User, NEW members \in SUBSET User, Hosted(u, members, made),
           SaveGuests(u, members)
    PROVE  /\ draft' \in [User -> SUBSET User] /\ queue' \in [User -> Seq(Write)]
           /\ \A v \in User : Hosted(v, draft'[v], made) /\ HostedQueue(queue'[v], made)
<1>. DEFINE w == SetData(u, Guests(members), {})
<1>1. w \in Write /\ w.to = u /\ w.then = {} /\ w.data["guests"] = members
  BY GuestsType, TripFields DEF SetData
<1>2. HostedWrite(w, made)
  BY <1>1 DEF HostedWrite
<1>3. /\ draft \in [User -> SUBSET User] /\ draft' = [draft EXCEPT ![u] = members]
      /\ queue \in [User -> Seq(Write)] /\ queue' = [queue EXCEPT ![u] = Append(@, w)]
  BY DEF SaveGuests, TripInv, TypeOK
<1>4. HostedQueue(queue'[u], made)
  <2>1. queue'[u] = Append(queue[u], w) /\ queue[u] \in Seq(Write)
    BY <1>3
  <2> HIDE DEF w
  <2> QED
    BY <1>1, <1>2, <2>1 DEF TripInv, HostedQueue
<1> HIDE DEF w
<1> QED
  BY <1>1, <1>3, <1>4 DEF TripInv

-----------------------------------------------------------------------------
(***************************************************************************)
(* The steps that touch a list.                                            *)
(***************************************************************************)

LEMMA InviteKeeps ==
    ASSUME TripInv, NEW u \in User, NEW c \in User, inviteContact(u, c) \/ uninviteContact(u, c)
    PROVE  TripInv'
<1>0. draft[u] \in SUBSET User /\ Hosted(u, draft[u], made) /\ u \notin Trip
  BY TripFields DEF TripInv, TypeOK
<1>1. PICK members \in SUBSET User : Hosted(u, members, made) /\ SaveGuests(u, members)
  <2>1. CASE inviteContact(u, c)
    <3>1. Hosted(u, draft[u] \cup {c, u}, made)
      BY <1>0 DEF Hosted, HostOf
    <3> QED
      BY <1>0, <2>1, <3>1 DEF inviteContact
  <2>2. CASE uninviteContact(u, c)
    <3>1. c # u
      BY <2>2, ContactsAssumption DEF uninviteContact
    <3>2. Hosted(u, draft[u] \ {c}, made)
      BY <1>0, <3>1 DEF Hosted, HostOf
    <3> QED
      BY <1>0, <2>2, <3>2 DEF uninviteContact
  <2> QED
    BY <2>1, <2>2
<1> QED
  BY <1>1, SaveGuestsKeeps DEF inviteContact, uninviteContact, TripInv, TypeOK, screen

LEMMA TripStoredKeeps ==
    ASSUME TripInv, NEW u \in User, tripStored(u)
    PROVE  TripInv'
<1>1. Hosted(u, {}, made) /\ SaveGuests(u, {})
  BY DEF tripStored, Hosted
<1>2. main' \in [User -> Seq(Callback)]
  <2>1. Head(main[u]) \in Callback /\ Tail(main[u]) \in Seq(Callback)
    BY FirstBlock DEF tripStored, TripInv
  <2>2. Block("pop", Head(main[u]).trips) \in Callback
    BY <2>1, TripBlockType DEF Callback
  <2>3. Append(Tail(main[u]), Block("pop", Head(main[u]).trips)) \in Seq(Callback)
    BY <2>1, <2>2
  <2> QED
    BY <2>3 DEF tripStored, TripInv, TypeOK
<1> QED
  BY <1>1, <1>2, SaveGuestsKeeps DEF tripStored, TripInv, TypeOK, screen

\* A trip made now was not known before, so nothing that has guests changes its host.
LEMMA CreateKeeps ==
    ASSUME TripInv, NEW u \in User, createTrip(u)
    PROVE  TripInv'
<1>1. PICK t \in Trip, date \in Time :
          /\ made[t] = {}
          /\ made' = [made EXCEPT ![t] = {[creatorID |-> u, date |-> date]}]
          /\ queue' = [queue EXCEPT ![u] = Append(@, SetData(t, Guests(draft[u]), {t}))]
          /\ tapped' = [tapped EXCEPT ![u] = @ \cup {t}]
  BY DEF createTrip
<1>. DEFINE w == SetData(t, Guests(draft[u]), {t})
<1>2. /\ draft[u] \in SUBSET User /\ Hosted(u, draft[u], made) /\ u \notin Trip
      /\ made \in [Trip -> {{}} \cup {{m} : m \in [creatorID : User, date : Time]}]
      /\ queue \in [User -> Seq(Write)]
  BY TripFields DEF TripInv, TypeOK
<1>3. /\ w \in Write /\ w.to = t /\ w.then = {t} /\ w.data["guests"] = draft[u]
  BY <1>2, GuestsType, TripFields DEF SetData
<1>4. TypeOK'
  <2>1. queue' \in [User -> Seq(Write)]
    BY <1>1, <1>2, <1>3
  <2>2. made' \in [Trip -> {{}} \cup {{m} : m \in [creatorID : User, date : Time]}]
    BY <1>1, <1>2
  <2>3. tapped' \in [User -> SUBSET Trip]
    BY <1>1 DEF TripInv, TypeOK
  <2> QED
    BY <2>1, <2>2, <2>3 DEF createTrip, TripInv, TypeOK, screen
<1>5. HostOf(t, made') = u /\ made'[t] # {}
  <2>1. made'[t] = {[creatorID |-> u, date |-> date]}
    BY <1>1, <1>2
  <2>2. \A v \in User : (\E m \in made'[t] : m.creatorID = v) <=> v = u
    BY <2>1
  <2> QED
    BY <2>1, <2>2 DEF HostOf
<1>6. \A k, members : Hosted(k, members, made) => Hosted(k, members, made')
  <2>1. \A k \in Trip : made[k] # {} => made'[k] = made[k]
    BY <1>1, <1>2
  <2> QED
    BY <2>1 DEF Hosted, HostOf
<1>7. HostedWrite(w, made')
  <2>1. draft[u] # {} => u \in draft[u]
    BY <1>2 DEF Hosted, HostOf
  <2> HIDE DEF w
  <2>2. Hosted(t, draft[u], made')
    BY <1>5, <2>1 DEF Hosted
  <2> QED
    BY <1>3, <2>2 DEF HostedWrite
<1>8. ASSUME NEW v \in User PROVE HostedQueue(queue'[v], made')
  <2>1. HostedQueue(queue[v], made')
    BY <1>6 DEF TripInv, HostedQueue, HostedWrite
  <2>2. CASE v = u
    <3>1. queue'[u] = Append(queue[u], w) /\ queue[u] \in Seq(Write)
      BY <1>1, <1>2
    <3> HIDE DEF w
    <3> QED
      BY <1>3, <1>7, <2>1, <2>2, <3>1 DEF HostedQueue
  <2>3. CASE v # u
    BY <1>1, <1>2, <2>1, <2>3
  <2> QED
    BY <2>2, <2>3
<1> QED
  BY <1>4, <1>6, <1>8 DEF TripInv, createTrip

\* The answer to the oldest write.
LEMMA AnswerKeeps ==
    ASSUME TripInv, NEW u \in User, writeCommitted(u) \/ writeRejected(u)
    PROVE  TripInv'
<1>. DEFINE w == Head(queue[u])
<1>0. queue[u] # <<>> /\ queue' = [queue EXCEPT ![u] = Tail(@)]
  BY DEF writeCommitted, writeRejected
<1>1. w \in Write /\ HostedWrite(w, made) /\ queue' \in [User -> Seq(Write)]
  BY <1>0, FirstWrite
<1>2. ASSUME NEW v \in User PROVE HostedQueue(queue'[v], made)
  <2>1. queue[v] \in Seq(Write) /\ HostedQueue(queue[v], made)
    BY DEF TripInv, TypeOK
  <2>2. CASE v = u
    <3>1. queue'[v] = Tail(queue[v]) /\ queue[v] # <<>>
      BY <1>0, <2>2 DEF TripInv, TypeOK
    <3>2. \A i \in DOMAIN Tail(queue[v]) :
             i + 1 \in DOMAIN queue[v] /\ Tail(queue[v])[i] = queue[v][i + 1]
      BY <2>1, <3>1
    <3> QED
      BY <2>1, <3>1, <3>2 DEF HostedQueue
  <2>3. CASE v # u
    BY <1>0, <2>1, <2>3 DEF TripInv, TypeOK
  <2> QED
    BY <2>2, <2>3
<1>3. CASE writeCommitted(u)
  <2>1. docs' = [docs EXCEPT ![w.to] = Applied(@, w)]
    BY <1>3 DEF writeCommitted
  <2>2. w.to \in Key /\ docs \in [Key -> Document] /\ docs[w.to] \in Document
    BY <1>1 DEF Write, TripInv, TypeOK
  <2>3. docs' \in [Key -> Document]
    BY <1>1, <2>1, <2>2, AppliedType
  <2>4. ASSUME NEW k \in Key PROVE Hosted(k, docs'[k]["guests"], made)
    <3>0. Hosted(k, docs[k]["guests"], made)
      BY DEF TripInv
    <3>1. CASE k = w.to
      <4>1. docs'[k]["guests"] = w.data["guests"]
               \/ docs'[k]["guests"] = docs[k]["guests"] \cup w.data["guests"]
        BY <2>1, <2>2, <3>1, TripFields DEF Applied
      <4>2. Hosted(k, w.data["guests"], made)
        BY <1>1, <3>1 DEF HostedWrite
      <4> QED
        BY <3>0, <4>1, <4>2 DEF Hosted
    <3>2. CASE k # w.to
      BY <2>1, <2>2, <3>0, <3>2
    <3> QED
      BY <3>1, <3>2
  <2>5. main' \in [User -> Seq(Callback)]
    <3>1. Block("stored", w.then) \in Callback
      BY <1>1, TripBlockType DEF HostedWrite
    <3> QED
      BY <1>3, <3>1, BlockAppended DEF writeCommitted, TripInv, TypeOK
  <2> QED
    BY <1>1, <1>2, <1>3, <2>3, <2>4, <2>5 DEF writeCommitted, TripInv, TypeOK, screen
<1>4. CASE writeRejected(u)
  BY <1>1, <1>2, <1>4 DEF writeRejected, TripInv, TypeOK, screen
<1> QED
  BY <1>3, <1>4

\* A relaunch reads the list back from the record and the queued writes to it.
LEMMA RelaunchKeeps ==
    ASSUME TripInv, NEW u \in User, relaunch(u)
    PROVE  TripInv'
<1>0. /\ queue[u] \in Seq(Write) /\ queue \in [User -> Seq(Write)]
      /\ u \in Key /\ u \notin Trip /\ u \in Value /\ Field = {"guests"}
      /\ draft \in [User -> SUBSET User]
  BY TripFields DEF TripInv, TypeOK
<1>1. Hosted(u, SeenGuests(u, u), made)
  <2>. DEFINE q == queue[u]
  <2>1. SeenGuests(u, u) = LocalField(docs[u], q, u, "guests")
    BY <1>0 DEF SeenGuests, LocalDocument
  <2>2. ASSUME NEW x \in LocalField(docs[u], q, u, "guests")
        PROVE  u \in LocalField(docs[u], q, u, "guests")
    <3>1. CASE x \in docs[u]["guests"] /\ ~ReplacedFrom(q, 1, u, "guests")
      <4>1. u \in docs[u]["guests"]
        BY <1>0, <3>1 DEF TripInv, Hosted, HostOf
      <4> QED
        BY <1>0, <3>1, <4>1 DEF LocalField
    <3>2. CASE \E i \in DOMAIN q : /\ q[i].to = u /\ x \in q[i].data["guests"]
                                   /\ ~ReplacedFrom(q, i + 1, u, "guests")
      <4>1. PICK i \in DOMAIN q : /\ q[i].to = u /\ x \in q[i].data["guests"]
                                  /\ ~ReplacedFrom(q, i + 1, u, "guests")
        BY <3>2
      <4>2. u \in q[i].data["guests"]
        <5>1. HostedWrite(q[i], made)
          BY <4>1 DEF TripInv, HostedQueue
        <5>2. q[i].data["guests"] # {} /\ q[i].to = u
          BY <4>1
        <5> QED
          BY <1>0, <5>1, <5>2 DEF HostedWrite, Hosted, HostOf
      <4> QED
        BY <1>0, <4>1, <4>2 DEF LocalField
    <3> QED
      BY <2>2, <3>1, <3>2 DEF LocalField
  <2> QED
    BY <1>0, <2>1, <2>2 DEF Hosted, HostOf
<1>2. queue' = [queue EXCEPT ![u] = [i \in DOMAIN queue[u] |-> Restored(queue[u][i])]]
  BY DEF relaunch
<1>3. queue' \in [User -> Seq(Write)]
  BY <1>0, <1>2, RestoredQueue
<1>4. ASSUME NEW v \in User PROVE HostedQueue(queue'[v], made)
  BY <1>0, <1>2 DEF TripInv, HostedQueue, HostedWrite, Restored
<1>5. draft' \in [User -> SUBSET User] /\ \A v \in User : Hosted(v, draft'[v], made)
  BY <1>0, <1>1, SeenGuestsType DEF relaunch, TripInv
<1>6. TypeOK'
  <2>1. main' \in [User -> Seq(Callback)]
    BY DEF relaunch, TripInv, TypeOK
  <2>2. /\ tab' \in [User -> {"resorts", "trips"}]
        /\ open' \in [User -> BOOLEAN] /\ fromCreate' \in [User -> BOOLEAN]
    BY DEF relaunch, TripInv, TypeOK
  <2>3. tapped' \in [User -> SUBSET Trip] /\ listed' \in [User -> SUBSET Trip]
    BY DEF relaunch, TripInv, TypeOK
  <2> QED
    BY <1>3, <1>5, <2>1, <2>2, <2>3 DEF relaunch, TripInv, TypeOK
<1> QED
  BY <1>4, <1>5, <1>6 DEF relaunch, TripInv

\* The steps that move between screens, fetch, or tell the time touch no list.
LEMMA OtherStepsKeep ==
    ASSUME TripInv,
           \/ tick
           \/ \E u \in User : \/ openCreateTrip(u) \/ goBack(u) \/ selectTab(u)
                              \/ fetchTrips(u) \/ popToRoot(u) \/ tripsFetched(u)
    PROVE  TripInv'
<1>0. UNCHANGED <<docs, made, draft, queue>>
  BY DEF tick, openCreateTrip, goBack, selectTab, fetchTrips, popToRoot, tripsFetched
<1>1. TypeOK'
  <2>1. CASE tick
    <3>1. now' \in Time
      BY <2>1, TripBoundAssumption DEF tick, TripInv, TypeOK, Time
    <3> QED
      BY <2>1, <3>1 DEF tick, TripInv, TypeOK, screen
  <2>2. ASSUME NEW u \in User, openCreateTrip(u) \/ goBack(u) \/ selectTab(u)
        PROVE  TypeOK'
    BY <2>2 DEF openCreateTrip, goBack, selectTab, TripInv, TypeOK
  <2>3. ASSUME NEW u \in User, fetchTrips(u) PROVE TypeOK'
    <3>1. Block("fetched", {t \in Trip : u \in SeenGuests(u, t)}) \in Callback
      BY TripBlockType
    <3> QED
      BY <2>3, <3>1, BlockAppended DEF fetchTrips, TripInv, TypeOK, screen
  <2>4. ASSUME NEW u \in User, popToRoot(u) PROVE TypeOK'
    <3>1. main' \in [User -> Seq(Callback)] /\ tapped' \in [User -> SUBSET Trip]
      BY <2>4, FirstBlock DEF popToRoot, TripInv, TypeOK, screen
    <3>2. /\ tab' \in [User -> {"resorts", "trips"}]
          /\ open' \in [User -> BOOLEAN]
      BY <2>4 DEF popToRoot, TripInv, TypeOK, screen
    <3>3. fromCreate' \in [User -> BOOLEAN]
      <4>1. (tab[u] # "resorts") \in BOOLEAN
        OBVIOUS
      <4> QED
        BY <2>4, <4>1 DEF popToRoot, TripInv, TypeOK, screen
    <3> QED
      BY <2>4, <3>1, <3>2, <3>3 DEF popToRoot, TripInv, TypeOK
  <2>5. ASSUME NEW u \in User, tripsFetched(u) PROVE TypeOK'
    <3>1. main' \in [User -> Seq(Callback)]
      BY <2>5, FirstBlock DEF tripsFetched, TripInv, TypeOK
    <3>2. listed' \in [User -> SUBSET Trip]
      <4>1. {t \in Head(main[u]).trips : Upcoming(t)} \in SUBSET Trip
        BY <2>5, FirstBlock DEF tripsFetched, Callback, TripInv, TypeOK
      <4> QED
        BY <2>5, <4>1 DEF tripsFetched, TripInv, TypeOK
    <3> QED
      BY <2>5, <3>1, <3>2 DEF tripsFetched, TripInv, TypeOK, screen
  <2> QED
    BY <2>1, <2>2, <2>3, <2>4, <2>5
<1> QED
  BY <1>0, <1>1 DEF TripInv

LEMMA TripInvStep == TripInv /\ [Next]_vars => TripInv'
<1> SUFFICES ASSUME TripInv, [Next]_vars PROVE TripInv'
  OBVIOUS
<1>1. CASE UNCHANGED vars
  BY <1>1 DEF vars, screen, TripInv, TypeOK
<1>2. CASE tick
  BY <1>2, OtherStepsKeep
<1>3. ASSUME NEW u \in User, UserStep(u) PROVE TripInv'
  BY <1>3, InviteKeeps, CreateKeeps, OtherStepsKeep DEF UserStep
<1>4. ASSUME NEW u \in User, MainStep(u) PROVE TripInv'
  BY <1>4, TripStoredKeeps, OtherStepsKeep DEF MainStep
<1>5. ASSUME NEW u \in User, ClientStep(u) PROVE TripInv'
  BY <1>5, AnswerKeeps, RelaunchKeeps DEF ClientStep
<1> QED
  BY <1>1, <1>2, <1>3, <1>4, <1>5 DEF Next

LEMMA TripInit == Init => TripInv
<1> SUFFICES ASSUME Init PROVE TripInv
  OBVIOUS
<1>1. EmptyDocument \in Document /\ EmptyDocument["guests"] = {}
  BY TripFields DEF EmptyDocument, Document
<1>2. TypeOK
  BY <1>1, TripBoundAssumption DEF Init, TypeOK, Time
<1> QED
  BY <1>1, <1>2 DEF Init, TripInv, Hosted, HostedQueue

\* Every reachable state is well typed; a block that empties the invitation list is
\* only ever the one of a trip.
THEOREM TripTypeCorrect == Spec => []TypeOK
<1>1. TripInv => TypeOK
  BY DEF TripInv
<1> QED
  BY <1>1, TripInit, TripInvStep, PTL DEF Spec

\* Whoever finds a trip, its host finds it: for any number of users and trips, taps
\* ahead of the answer, trips refused by the backend and relaunches.
THEOREM HostIsOnEveryTrip == Spec => []HostOnTrips
<1>1. TripInv => HostOnTrips
  BY TripFields DEF TripInv, HostOnTrips, Hosted, HostOf, Creator
<1> QED
  BY <1>1, TripInit, TripInvStep, PTL DEF Spec

-----------------------------------------------------------------------------
(***************************************************************************)
(* Who finds a trip.  A trip is written once, by its creator, and nothing  *)
(* is stored under its identifier before: so its list of guests only grows,*)
(* and an answer that is read late or a list that is shown long names      *)
(* nobody who was not invited.                                             *)
(***************************************************************************)

SentOnce(u) ==
    \A t \in Trip : \A i \in DOMAIN queue[u] : queue[u][i].to = t =>
        /\ made[t] # {} /\ Creator(t) = u
        /\ docs[t]["guests"] = {}
        /\ \A j \in DOMAIN queue[u] : queue[u][j].to = t => j = i

InvitedTo(u, t) == made[t] # {} /\ (u = Creator(t) \/ u \in docs[t]["guests"])

FoundTrips(u) ==
    /\ \A i \in DOMAIN main[u] : main[u][i].kind = "fetched" =>
           \A t \in main[u][i].trips : InvitedTo(u, t)
    /\ \A t \in listed[u] : InvitedTo(u, t)

GuestInv == TripInv /\ \A u \in User : SentOnce(u) /\ FoundTrips(u)

Grown ==
    \A t \in Trip : /\ made[t] # {} => made'[t] = made[t]
                    /\ docs[t]["guests"] \subseteq docs'[t]["guests"]

LEMMA InvitedStays ==
    ASSUME Grown, NEW u, NEW t \in Trip, InvitedTo(u, t)
    PROVE  InvitedTo(u, t)'
<1>1. made'[t] = made[t] /\ Creator(t)' = Creator(t)
  BY DEF Grown, InvitedTo, Creator
<1> QED
  BY <1>1 DEF Grown, InvitedTo

\* Blocks of fetches that waited before, or name trips that invite their user.
LEMMA FoundKept ==
    ASSUME TypeOK, Grown, NEW u \in User, FoundTrips(u),
           \A i \in DOMAIN main'[u] : main'[u][i].kind = "fetched" =>
               \/ \E j \in DOMAIN main[u] : main[u][j] = main'[u][i]
               \/ \A t \in main'[u][i].trips : t \in Trip /\ InvitedTo(u, t),
           \A t \in listed'[u] : t \in listed[u] \/ (t \in Trip /\ InvitedTo(u, t))
    PROVE  FoundTrips(u)'
<1>1. listed[u] \subseteq Trip /\ \A j \in DOMAIN main[u] : main[u][j] \in Callback
  <2>1. main[u] \in Seq(Callback) /\ listed[u] \in SUBSET Trip
    BY DEF TypeOK
  <2> QED
    BY <2>1
<1>2. \A t \in listed'[u] : InvitedTo(u, t)'
  <2> SUFFICES ASSUME NEW t \in listed'[u] PROVE InvitedTo(u, t)'
    OBVIOUS
  <2>1. t \in Trip /\ InvitedTo(u, t)
    BY <1>1 DEF FoundTrips
  <2> QED
    BY <2>1, InvitedStays
<1>3. ASSUME NEW i \in DOMAIN main'[u], main'[u][i].kind = "fetched", NEW t \in main'[u][i].trips
      PROVE  InvitedTo(u, t)'
  <2>1. t \in Trip /\ InvitedTo(u, t)
    <3>1. CASE \E j \in DOMAIN main[u] : main[u][j] = main'[u][i]
      <4>1. PICK j \in DOMAIN main[u] : main[u][j] = main'[u][i]
        BY <3>1
      <4> QED
        BY <1>1, <1>3, <4>1 DEF FoundTrips, Callback
    <3>2. CASE \A s \in main'[u][i].trips : s \in Trip /\ InvitedTo(u, s)
      BY <1>3, <3>2
    <3> QED
      BY <1>3, <3>1, <3>2
  <2> QED
    BY <2>1, InvitedStays
<1> QED
  BY <1>2, <1>3 DEF FoundTrips

\* The block at the front is taken off, and one of another kind may come at the end.
LEMMA BlocksAfter ==
    ASSUME TypeOK, NEW u \in User, NEW kind,
           \/ main'[u] = main[u]
           \/ main[u] # <<>> /\ main'[u] = Tail(main[u])
           \/ \E block \in Callback :
                 block.kind # kind /\ main'[u] = Append(main[u], block)
           \/ main[u] # <<>> /\ \E block \in Callback :
                 block.kind # kind /\ main'[u] = Append(Tail(main[u]), block)
    PROVE  \A i \in DOMAIN main'[u] : main'[u][i].kind = kind =>
               \E j \in DOMAIN main[u] : main[u][j] = main'[u][i]
<1>1. PICK q : q = main[u]
  OBVIOUS
<1>2. q \in Seq(Callback) /\ (q # <<>> => Tail(q) \in Seq(Callback))
  BY <1>1 DEF TypeOK
<1>3. q # <<>> => \A i \in DOMAIN Tail(q) : i + 1 \in DOMAIN q /\ Tail(q)[i] = q[i + 1]
  BY <1>2, Elements
<1>4. CASE main'[u] = main[u] \/ (main[u] # <<>> /\ main'[u] = Tail(main[u]))
  BY <1>1, <1>3, <1>4
<1>5. ASSUME NEW block \in Callback, block.kind # kind, main'[u] = Append(main[u], block)
      PROVE  \A i \in DOMAIN main'[u] : main'[u][i].kind = kind =>
                 \E j \in DOMAIN main[u] : main[u][j] = main'[u][i]
  <2>1. \A i \in DOMAIN Append(q, block) : \/ i \in DOMAIN q /\ Append(q, block)[i] = q[i]
                                           \/ Append(q, block)[i] = block
    BY <1>2, <1>5, Elements
  <2> QED
    BY <1>1, <1>5, <2>1
<1>6. ASSUME NEW block \in Callback, block.kind # kind, main[u] # <<>>,
             main'[u] = Append(Tail(main[u]), block)
      PROVE  \A i \in DOMAIN main'[u] : main'[u][i].kind = kind =>
                 \E j \in DOMAIN main[u] : main[u][j] = main'[u][i]
  <2>1. PICK r : r = Tail(q)
    OBVIOUS
  <2>2. r \in Seq(Callback) /\ main'[u] = Append(r, block)
    BY <1>1, <1>2, <1>6, <2>1
  <2>3. \A i \in DOMAIN Append(r, block) : \/ i \in DOMAIN r /\ Append(r, block)[i] = r[i]
                                           \/ Append(r, block)[i] = block
    BY <1>6, <2>2, Elements
  <2> QED
    BY <1>1, <1>3, <1>6, <2>1, <2>2, <2>3
<1> QED
  BY <1>4, <1>5, <1>6

\* Queues, documents and trips of the others.
LEMMA SameSent ==
    ASSUME NEW u, SentOnce(u), queue'[u] = queue[u], UNCHANGED <<docs, made>>
    PROVE  SentOnce(u)'
BY DEF SentOnce, Creator

LEMMA SentKept ==
    ASSUME NEW v, SentOnce(v), made' = made,
           \A i \in DOMAIN queue'[v] : i \in DOMAIN queue[v] /\ queue'[v][i].to = queue[v][i].to,
           \A t \in Trip : \A i \in DOMAIN queue[v] : queue[v][i].to = t => docs'[t]["guests"] = {}
    PROVE  SentOnce(v)'
<1>1. ASSUME NEW t \in Trip, NEW i \in DOMAIN queue'[v], queue'[v][i].to = t
      PROVE  /\ made'[t] # {} /\ Creator(t)' = v /\ docs'[t]["guests"] = {}
             /\ \A j \in DOMAIN queue'[v] : queue'[v][j].to = t => j = i
  <2>1. i \in DOMAIN queue[v] /\ queue[v][i].to = t
    BY <1>1
  <2>2. /\ made[t] # {} /\ Creator(t) = v
        /\ \A j \in DOMAIN queue[v] : queue[v][j].to = t => j = i
    BY <2>1 DEF SentOnce
  <2>3. Creator(t)' = Creator(t)
    BY DEF Creator
  <2> QED
    BY <2>1, <2>2, <2>3
<1> QED
  BY <1>1 DEF SentOnce

LEMMA SaveSends ==
    ASSUME TripInv, NEW u \in User, SentOnce(u), NEW members \in SUBSET User,
           SaveGuests(u, members), UNCHANGED <<docs, made>>
    PROVE  SentOnce(u)' /\ \A v \in User \ {u} : queue'[v] = queue[v]
<1>1. PICK w : w = SetData(u, Guests(members), {})
  OBVIOUS
<1>2. w \in Write /\ w.to = u /\ u \notin Trip
  BY <1>1, GuestsType, TripFields DEF SetData
<1>3. queue \in [User -> Seq(Write)] /\ queue' = [queue EXCEPT ![u] = Append(@, w)]
  BY <1>1 DEF SaveGuests, TripInv, TypeOK
<1>4. PICK q : q = queue[u]
  OBVIOUS
<1>5. q \in Seq(Write) /\ queue'[u] = Append(q, w)
  BY <1>3, <1>4
<1>6. \A i \in DOMAIN Append(q, w) : \/ i \in DOMAIN q /\ Append(q, w)[i] = q[i]
                                     \/ Append(q, w)[i] = w
  BY <1>2, <1>5, Elements
<1>7. \A i \in DOMAIN queue'[u] : queue'[u][i].to \in Trip =>
          i \in DOMAIN queue[u] /\ queue'[u][i] = queue[u][i]
  BY <1>2, <1>4, <1>5, <1>6
<1>8. SentOnce(u)'
  BY <1>7 DEF SentOnce, Creator
<1> QED
  BY <1>3, <1>8

LEMMA GuestQuiet ==
    ASSUME GuestInv, TripInv', UNCHANGED <<docs, made, queue>>,
           \A u \in User : FoundTrips(u)'
    PROVE  GuestInv'
BY SameSent DEF GuestInv

LEMMA GuestSave ==
    ASSUME GuestInv, TripInv', NEW u \in User,
           tripStored(u) \/ \E c \in User : inviteContact(u, c) \/ uninviteContact(u, c)
    PROVE  GuestInv'
<1>1. PICK members \in SUBSET User : SaveGuests(u, members)
  <2>1. draft[u] \in SUBSET User
    BY DEF GuestInv, TripInv, TypeOK
  <2> QED
    BY <2>1 DEF tripStored, inviteContact, uninviteContact
<1>2. UNCHANGED <<docs, made, listed>> /\ TypeOK
  BY DEF tripStored, inviteContact, uninviteContact, GuestInv, TripInv
<1>3. \A v \in User : SentOnce(v)'
  BY <1>1, <1>2, SaveSends, SameSent DEF GuestInv
<1>4. Grown
  BY <1>2 DEF Grown
<1>5. ASSUME NEW v \in User PROVE FoundTrips(v)'
  <2>1. \A i \in DOMAIN main'[v] : main'[v][i].kind = "fetched" =>
            \E j \in DOMAIN main[v] : main[v][j] = main'[v][i]
    <3>1. CASE tripStored(u) /\ v = u
      <4>1. PICK block : block = Block("pop", Head(main[u]).trips)
        OBVIOUS
      <4>2. main[u] # <<>> /\ main'[u] = Append(Tail(main[u]), block)
        BY <1>2, <3>1, <4>1 DEF tripStored, Runs, TypeOK
      <4>3. Head(main[u]) \in Callback
        BY <1>2, <3>1, FirstBlock DEF tripStored
      <4>4. block \in Callback /\ block.kind # "fetched"
        BY <4>1, <4>3, TripBlockType DEF Block, Callback
      <4> QED
        BY <1>2, <3>1, <4>2, <4>4, BlocksAfter
    <3>2. CASE ~(tripStored(u) /\ v = u)
      <4>1. main'[v] = main[v]
        BY <1>2, <3>2 DEF tripStored, inviteContact, uninviteContact, TypeOK
      <4> QED
        BY <4>1
    <3> QED
      BY <3>1, <3>2
  <2> QED
    BY <1>2, <1>4, <2>1, FoundKept DEF GuestInv
<1> QED
  BY <1>3, <1>5 DEF GuestInv

LEMMA GuestOther ==
    ASSUME GuestInv, TripInv',
           \/ tick
           \/ \E u \in User : openCreateTrip(u) \/ goBack(u) \/ selectTab(u)
    PROVE  GuestInv'
<1>1. UNCHANGED <<docs, made, queue, main, listed>> /\ TypeOK
  BY DEF tick, openCreateTrip, goBack, selectTab, GuestInv, TripInv
<1>2. Grown
  BY <1>1 DEF Grown
<1>3. \A u \in User : FoundTrips(u)'
  BY <1>1, <1>2, FoundKept DEF GuestInv
<1> QED
  BY <1>1, <1>3, GuestQuiet

\* What a device finds is stored with it as a guest, or is its own and on its way.
LEMMA FoundInvites ==
    ASSUME GuestInv, NEW u \in User, NEW t \in Trip, u \in SeenGuests(u, t)
    PROVE  InvitedTo(u, t)
<1>1. t \in Key /\ "guests" \in Field
  BY TripFields
<1>2. \/ u \in docs[t]["guests"]
      \/ \E i \in DOMAIN queue[u] : queue[u][i].to = t
  BY <1>1 DEF SeenGuests, LocalDocument, LocalField
<1>3. CASE u \in docs[t]["guests"]
  BY <1>1, <1>3 DEF GuestInv, TripInv, Hosted, InvitedTo
<1>4. CASE \E i \in DOMAIN queue[u] : queue[u][i].to = t
  BY <1>4 DEF GuestInv, SentOnce, InvitedTo
<1> QED
  BY <1>2, <1>3, <1>4

LEMMA GuestMain ==
    ASSUME GuestInv, TripInv', NEW u \in User, fetchTrips(u) \/ popToRoot(u) \/ tripsFetched(u)
    PROVE  GuestInv'
<1>1. UNCHANGED <<docs, made, queue>> /\ TypeOK /\ FoundTrips(u)
  BY DEF fetchTrips, popToRoot, tripsFetched, GuestInv, TripInv
<1>2. Grown
  BY <1>1 DEF Grown
<1>3. main \in [User -> Seq(Callback)] /\ listed \in [User -> SUBSET Trip]
  BY <1>1 DEF TypeOK
<1>4. ASSUME NEW v \in User, v # u PROVE FoundTrips(v)'
  <2>1. main'[v] = main[v] /\ listed'[v] = listed[v]
    BY <1>3, <1>4 DEF fetchTrips, popToRoot, tripsFetched
  <2> QED
    BY <1>1, <1>2, <2>1, FoundKept DEF GuestInv
<1>5. CASE fetchTrips(u)
  <2>1. PICK trips : trips = {t \in Trip : u \in SeenGuests(u, t)}
    OBVIOUS
  <2>2. PICK block : block = Block("fetched", trips)
    OBVIOUS
  <2>3. block \in Callback /\ main'[u] = Append(main[u], block) /\ listed' = listed
    BY <1>3, <1>5, <2>1, <2>2, TripBlockType DEF fetchTrips
  <2>4. \A t \in trips : t \in Trip /\ InvitedTo(u, t)
    BY <2>1, FoundInvites
  <2>5. PICK q : q = main[u]
    OBVIOUS
  <2>6. q \in Seq(Callback)
    BY <1>3, <2>5
  <2>7. \A i \in DOMAIN Append(q, block) : \/ i \in DOMAIN q /\ Append(q, block)[i] = q[i]
                                           \/ Append(q, block)[i] = block
    BY <2>3, <2>6, Elements
  <2>8. \A i \in DOMAIN main'[u] : main'[u][i].kind = "fetched" =>
            \/ \E j \in DOMAIN main[u] : main[u][j] = main'[u][i]
            \/ \A t \in main'[u][i].trips : t \in Trip /\ InvitedTo(u, t)
    BY <2>2, <2>3, <2>4, <2>5, <2>7 DEF Block
  <2> QED
    BY <1>1, <1>2, <1>4, <2>3, <2>8, FoundKept, GuestQuiet
<1>6. CASE popToRoot(u)
  <2>1. main[u] # <<>> /\ main'[u] = Tail(main[u]) /\ listed' = listed
    BY <1>3, <1>6 DEF popToRoot, Runs
  <2>2. \A i \in DOMAIN main'[u] : main'[u][i].kind = "fetched" =>
            \E j \in DOMAIN main[u] : main[u][j] = main'[u][i]
    BY <1>1, <2>1, BlocksAfter
  <2> QED
    BY <1>1, <1>2, <1>4, <2>1, <2>2, FoundKept, GuestQuiet
<1>7. CASE tripsFetched(u)
  <2>1. /\ main[u] # <<>> /\ main'[u] = Tail(main[u]) /\ Head(main[u]).kind = "fetched"
        /\ listed'[u] \subseteq Head(main[u]).trips
    BY <1>3, <1>7 DEF tripsFetched, Runs
  <2>2. \A i \in DOMAIN main'[u] : main'[u][i].kind = "fetched" =>
            \E j \in DOMAIN main[u] : main[u][j] = main'[u][i]
    BY <1>1, <2>1, BlocksAfter
  <2>3. 1 \in DOMAIN main[u] /\ Head(main[u]) = main[u][1] /\ main[u][1] \in Callback
    BY <1>3, <2>1, Elements
  <2>4. \A t \in listed'[u] : t \in Trip /\ InvitedTo(u, t)
    BY <1>1, <2>1, <2>3 DEF FoundTrips, Callback
  <2> QED
    BY <1>1, <1>2, <1>4, <2>2, <2>4, FoundKept, GuestQuiet
<1> QED
  BY <1>5, <1>6, <1>7

LEMMA GuestCreate ==
    ASSUME GuestInv, TripInv', NEW u \in User, createTrip(u)
    PROVE  GuestInv'
<1>1. PICK t \in Trip, date \in Time :
          /\ made[t] = {}
          /\ made' = [made EXCEPT ![t] = {[creatorID |-> u, date |-> date]}]
          /\ queue' = [queue EXCEPT ![u] = Append(@, SetData(t, Guests(draft[u]), {t}))]
  BY DEF createTrip
<1>2. PICK w : w = SetData(t, Guests(draft[u]), {t})
  OBVIOUS
<1>3. /\ made \in [Trip -> {{}} \cup {{m} : m \in [creatorID : User, date : Time]}]
      /\ queue \in [User -> Seq(Write)] /\ draft[u] \in SUBSET User
      /\ UNCHANGED <<docs, main, listed>> /\ TypeOK
  BY DEF GuestInv, TripInv, TypeOK, createTrip
<1>4. w \in Write /\ w.to = t
  BY <1>2, <1>3, GuestsType, TripFields DEF SetData
<1>5. Grown
  BY <1>1, <1>3 DEF Grown
<1>6. \A v \in User : FoundTrips(v)'
  BY <1>3, <1>5, FoundKept DEF GuestInv
<1>7. made'[t] # {} /\ Creator(t)' = u
  <2>1. made'[t] = {[creatorID |-> u, date |-> date]}
    BY <1>1, <1>3
  <2>2. \A v \in User : (\E m \in made'[t] : m.creatorID = v) <=> v = u
    BY <2>1
  <2> QED
    BY <2>1, <2>2 DEF Creator
<1>8. \A s \in Trip : made[s] # {} => made'[s] = made[s] /\ Creator(s)' = Creator(s)
  BY <1>5 DEF Grown, Creator
<1>9. docs[t]["guests"] = {}
  <2>1. Hosted(t, docs[t]["guests"], made)
    BY TripFields DEF GuestInv, TripInv
  <2>2. made[t] = {}
    BY <1>1
  <2> QED
    BY <2>1, <2>2 DEF Hosted
<1>10. ASSUME NEW v \in User, v # u PROVE SentOnce(v)'
  <2>1. queue'[v] = queue[v]
    BY <1>1, <1>3, <1>10
  <2>2. SentOnce(v) /\ docs' = docs
    BY <1>3 DEF GuestInv
  <2> QED
    BY <1>8, <2>1, <2>2 DEF SentOnce
<1>11. SentOnce(u)'
  <2>1. PICK q : q = queue[u]
    OBVIOUS
  <2>2. q \in Seq(Write) /\ queue'[u] = Append(q, w)
    BY <1>1, <1>2, <1>3, <2>1
  <2>3. \A i \in DOMAIN Append(q, w) : \/ i \in DOMAIN q /\ Append(q, w)[i] = q[i]
                                       \/ i = Len(q) + 1 /\ Append(q, w)[i] = w
    BY <1>4, <2>2, Elements
  <2>4. \A i \in DOMAIN queue[u] : queue[u][i].to # t
    BY <1>1 DEF GuestInv, SentOnce
  <2>5. PICK n : n = Len(q) + 1
    OBVIOUS
  <2>6. \A i \in DOMAIN queue'[u] : \/ i \in DOMAIN queue[u] /\ queue'[u][i] = queue[u][i]
                                    \/ i = n /\ queue'[u][i] = w
    BY <2>1, <2>2, <2>3, <2>5
  <2>7. ASSUME NEW s \in Trip, NEW i \in DOMAIN queue'[u], queue'[u][i].to = s
        PROVE  /\ made'[s] # {} /\ Creator(s)' = u
               /\ docs'[s]["guests"] = {}
               /\ \A j \in DOMAIN queue'[u] : queue'[u][j].to = s => j = i
    <3>1. CASE i = n /\ queue'[u][i] = w
      <4>1. s = t
        BY <1>4, <2>7, <3>1
      <4>2. \A j \in DOMAIN queue'[u] : queue'[u][j].to = s => j = i
        BY <2>4, <2>6, <3>1, <4>1
      <4>3. Creator(s)' = u
        BY <1>7, <4>1 DEF Creator
      <4> QED
        BY <1>3, <1>7, <1>9, <4>1, <4>2, <4>3
    <3>2. CASE i \in DOMAIN queue[u] /\ queue'[u][i] = queue[u][i]
      <4>1. /\ made[s] # {} /\ Creator(s) = u /\ docs[s]["guests"] = {}
            /\ \A j \in DOMAIN queue[u] : queue[u][j].to = s => j = i
        BY <2>7, <3>2 DEF GuestInv, SentOnce
      <4> QED
        BY <1>3, <1>4, <1>8, <2>4, <2>6, <2>7, <3>2, <4>1
    <3> QED
      BY <2>6, <3>1, <3>2
  <2> QED
    BY <2>7 DEF SentOnce
<1> QED
  BY <1>6, <1>10, <1>11 DEF GuestInv

\* The answer to the oldest write: if it was a trip's, it was the only write of the
\* trip and the trip had no guests before.
LEMMA GuestAnswer ==
    ASSUME GuestInv, TripInv', NEW u \in User, writeCommitted(u) \/ writeRejected(u)
    PROVE  GuestInv' /\ Grown
<1>1. PICK q : q = queue[u]
  OBVIOUS
<1>2. PICK w : w = Head(queue[u])
  OBVIOUS
<1>3. /\ queue[u] # <<>> /\ queue' = [queue EXCEPT ![u] = Tail(@)] /\ TypeOK
      /\ UNCHANGED <<made, listed>> /\ queue \in [User -> Seq(Write)] /\ q \in Seq(Write)
      /\ docs \in [Key -> Document] /\ main \in [User -> Seq(Callback)]
  BY <1>1 DEF writeCommitted, writeRejected, GuestInv, TripInv, TypeOK
<1>4. /\ queue'[u] = Tail(q) /\ 1 \in DOMAIN queue[u] /\ w = queue[u][1] /\ w \in Write
      /\ \A v \in User \ {u} : queue'[v] = queue[v]
  BY <1>1, <1>2, <1>3, Elements
<1>5. \A i \in DOMAIN queue'[u] : i + 1 \in DOMAIN queue[u] /\ queue'[u][i] = queue[u][i + 1]
  BY <1>1, <1>3, <1>4, Elements
<1>6. DOMAIN queue[u] = 1..Len(q) /\ DOMAIN queue'[u] \subseteq Nat \ {0}
  <2>1. Tail(q) \in Seq(Write) /\ Len(q) \in Nat
    BY <1>1, <1>3
  <2> QED
    BY <1>1, <1>3, <1>4, <2>1, Elements
<1>7. ASSUME NEW k \in Key, k # w.to PROVE docs'[k] = docs[k]
  BY <1>2, <1>3, <1>7 DEF writeCommitted, writeRejected
<1>8. w.to \in Trip => docs[w.to]["guests"] = {}
  BY <1>4 DEF GuestInv, SentOnce
<1>9. Grown
  <2>1. \A t \in Trip : docs[t]["guests"] \subseteq docs'[t]["guests"]
    BY <1>7, <1>8, TripFields
  <2> QED
    BY <1>3, <2>1 DEF Grown
<1>10. \A t : Creator(t)' = Creator(t)
  BY <1>3 DEF Creator
<1>11. SentOnce(u)'
  <2> SUFFICES ASSUME NEW t \in Trip, NEW i \in DOMAIN queue'[u], queue'[u][i].to = t
               PROVE  /\ made[t] # {} /\ Creator(t) = u
                      /\ docs'[t]["guests"] = {}
                      /\ \A j \in DOMAIN queue'[u] : queue'[u][j].to = t => j = i
    BY <1>3, <1>10 DEF SentOnce
  <2>1. i + 1 \in DOMAIN queue[u] /\ queue[u][i + 1].to = t
    BY <1>5
  <2>2. /\ made[t] # {} /\ Creator(t) = u /\ docs[t]["guests"] = {}
        /\ \A j \in DOMAIN queue[u] : queue[u][j].to = t => j = i + 1
    BY <2>1 DEF GuestInv, SentOnce
  <2>3. t # w.to
    <3>1. 1 # i + 1
      BY <1>6
    <3> QED
      BY <1>4, <2>2, <3>1
  <2>4. docs'[t]["guests"] = {}
    BY <1>7, <2>2, <2>3, TripFields
  <2>5. ASSUME NEW j \in DOMAIN queue'[u], queue'[u][j].to = t PROVE j = i
    <3>1. j + 1 = i + 1
      BY <1>5, <2>2, <2>5
    <3> QED
      BY <1>6, <3>1
  <2> QED
    BY <2>2, <2>4, <2>5
<1>12. ASSUME NEW v \in User, v # u PROVE SentOnce(v)'
  <2> SUFFICES ASSUME NEW t \in Trip, NEW i \in DOMAIN queue[v], queue[v][i].to = t
               PROVE  docs'[t]["guests"] = {}
    <3>1. SentOnce(v) /\ queue'[v] = queue[v]
      BY <1>4, <1>12 DEF GuestInv
    <3> QED
      BY <1>3, <3>1, SentKept
  <2>1. Creator(t) = v /\ docs[t]["guests"] = {}
    BY DEF GuestInv, SentOnce
  <2>2. t # w.to
    BY <1>4, <1>12, <2>1 DEF GuestInv, SentOnce
  <2> QED
    BY <1>7, <2>1, <2>2, TripFields
<1>13. ASSUME NEW v \in User PROVE FoundTrips(v)'
  <2>1. \A i \in DOMAIN main'[v] : main'[v][i].kind = "fetched" =>
            \E j \in DOMAIN main[v] : main[v][j] = main'[v][i]
    <3>1. CASE main'[v] = main[v]
      BY <3>1
    <3>2. CASE main'[v] # main[v]
      <4>1. PICK block : block = Block("stored", w.then)
        OBVIOUS
      <4>2. v = u /\ main'[v] = Append(main[v], block)
        BY <1>2, <1>3, <3>2, <4>1 DEF writeCommitted, writeRejected
      <4>3. w.then \subseteq Trip
        BY <1>4 DEF GuestInv, TripInv, HostedQueue, HostedWrite
      <4>4. block \in Callback /\ block.kind # "fetched"
        BY <4>1, <4>3, TripBlockType DEF Block
      <4> QED
        BY <1>3, <4>2, <4>4, BlocksAfter
    <3> QED
      BY <3>1, <3>2
  <2> QED
    BY <1>3, <1>9, <2>1, FoundKept DEF GuestInv
<1> QED
  BY <1>9, <1>11, <1>12, <1>13 DEF GuestInv

LEMMA GuestRelaunch ==
    ASSUME GuestInv, TripInv', NEW u \in User, relaunch(u)
    PROVE  GuestInv'
<1>1. /\ UNCHANGED <<docs, made>> /\ queue \in [User -> Seq(Write)] /\ TypeOK
      /\ queue' = [queue EXCEPT ![u] = [i \in DOMAIN queue[u] |-> Restored(queue[u][i])]]
      /\ main' = [main EXCEPT ![u] = <<>>] /\ listed' = [listed EXCEPT ![u] = {}]
      /\ main \in [User -> Seq(Callback)] /\ listed \in [User -> SUBSET Trip]
  BY DEF relaunch, GuestInv, TripInv, TypeOK
<1>2. DOMAIN queue'[u] = DOMAIN queue[u]
      /\ \A i \in DOMAIN queue[u] : queue'[u][i].to = queue[u][i].to
  BY <1>1 DEF Restored
<1>3. SentOnce(u)'
  <2>1. \A t \in Trip : \A i \in DOMAIN queue[u] : queue[u][i].to = t => docs'[t]["guests"] = {}
    BY <1>1 DEF GuestInv, SentOnce
  <2> QED
    BY <1>1, <1>2, <2>1, SentKept DEF GuestInv
<1>4. \A v \in User : SentOnce(v)'
  BY <1>1, <1>3, SameSent DEF GuestInv
<1>5. Grown
  BY <1>1 DEF Grown
<1>6. ASSUME NEW v \in User PROVE FoundTrips(v)'
  <2>1. CASE v = u
    <3>1. main'[u] = <<>> /\ listed'[u] = {} /\ DOMAIN <<>> = {}
      BY <1>1
    <3> QED
      BY <2>1, <3>1 DEF FoundTrips
  <2>2. CASE v # u
    <3>1. main'[v] = main[v] /\ listed'[v] = listed[v]
      BY <1>1, <2>2
    <3> QED
      BY <1>1, <1>5, <3>1, FoundKept DEF GuestInv
  <2> QED
    BY <2>1, <2>2
<1> QED
  BY <1>4, <1>6 DEF GuestInv

LEMMA GuestInvStep == GuestInv /\ [Next]_vars => GuestInv'
<1> SUFFICES ASSUME GuestInv, [Next]_vars PROVE GuestInv'
  OBVIOUS
<1>1. TripInv'
  BY TripInvStep DEF GuestInv
<1>2. CASE UNCHANGED vars
  BY <1>1, <1>2 DEF vars, screen, GuestInv, SentOnce, FoundTrips, InvitedTo, Creator
<1>3. CASE tick
  BY <1>1, <1>3, GuestOther
<1>4. ASSUME NEW u \in User, UserStep(u) PROVE GuestInv'
  BY <1>1, <1>4, GuestOther, GuestSave, GuestCreate, GuestMain DEF UserStep
<1>5. ASSUME NEW u \in User, MainStep(u) PROVE GuestInv'
  BY <1>1, <1>5, GuestSave, GuestMain DEF MainStep
<1>6. ASSUME NEW u \in User, ClientStep(u) PROVE GuestInv'
  BY <1>1, <1>6, GuestAnswer, GuestRelaunch DEF ClientStep
<1> QED
  BY <1>2, <1>3, <1>4, <1>5, <1>6 DEF Next

LEMMA GuestInit == Init => GuestInv
<1> SUFFICES ASSUME Init PROVE GuestInv
  OBVIOUS
<1>1. \A u \in User : DOMAIN queue[u] = {} /\ DOMAIN main[u] = {} /\ listed[u] = {}
  BY DEF Init
<1> QED
  BY <1>1, TripInit DEF GuestInv, SentOnce, FoundTrips

\* A trip is listed only for its host and for those it invites (fetchTrips), whatever
\* was refused, lost or fetched late, for any number of users, trips and blocks waiting.
THEOREM TripsListInvited == Spec => []ListedForInvited
<1>1. GuestInv => ListedForInvited
  BY DEF GuestInv, FoundTrips, InvitedTo, ListedForInvited
<1> QED
  BY <1>1, GuestInit, GuestInvStep, PTL DEF Spec

-----------------------------------------------------------------------------
(***************************************************************************)
(* What becomes of an invitation list.  The list in memory is what the     *)
(* device reads back of its record, so a relaunch loses nobody; and while  *)
(* the answer for a trip is outstanding, the trip has the whole list.      *)
(***************************************************************************)

OwnWrites(u) == \A i \in DOMAIN queue[u] : queue[u][i].to \in Trip \cup {u}

\* The trip of a block that empties the list of u has been stored with all of it.
SentWithTrip(u) ==
    \E t \in Trip : made[t] # {} /\ Creator(t) = u /\ draft[u] \subseteq docs[t]["guests"]

ListSent(u) ==
    /\ \A i \in DOMAIN queue[u] : queue[u][i].then # {} =>
           /\ queue[u][i].to \in Trip /\ queue[u][i].replaces = Field
           /\ draft[u] \subseteq queue[u][i].data["guests"]
    /\ \A i \in DOMAIN main[u] : main[u][i].kind = "stored" => SentWithTrip(u)

DraftFits(u) == OwnWrites(u) /\ SeenGuests(u, u) = draft[u] /\ ListSent(u)

DraftInv == GuestInv /\ \A u \in User : DraftFits(u)

LEMMA SentStays ==
    ASSUME Grown, NEW u, SentWithTrip(u), draft'[u] \subseteq draft[u]
    PROVE  SentWithTrip(u)'
<1>1. PICK t \in Trip : made[t] # {} /\ Creator(t) = u /\ draft[u] \subseteq docs[t]["guests"]
  BY DEF SentWithTrip
<1>2. made'[t] = made[t] /\ Creator(t)' = Creator(t)
  BY <1>1 DEF Grown, Creator
<1> QED
  BY <1>1, <1>2 DEF Grown, SentWithTrip

\* A step that adds no write, runs no block of a trip and leaves the list as it is.
LEMMA DraftKept ==
    ASSUME Grown, NEW u, DraftFits(u), draft'[u] = draft[u],
           SeenGuests(u, u)' = SeenGuests(u, u),
           \A i \in DOMAIN queue'[u] : \E j \in DOMAIN queue[u] :
               /\ queue'[u][i].to = queue[u][j].to /\ queue'[u][i].replaces = queue[u][j].replaces
               /\ queue'[u][i].data = queue[u][j].data
               /\ queue'[u][i].then # {} => queue[u][j].then # {},
           \A i \in DOMAIN main'[u] : main'[u][i].kind = "stored" =>
               SentWithTrip(u)' \/ \E j \in DOMAIN main[u] : main[u][j] = main'[u][i]
    PROVE  DraftFits(u)'
<1>1. OwnWrites(u)'
  BY DEF DraftFits, OwnWrites
<1>2. \A i \in DOMAIN queue'[u] : queue'[u][i].then # {} =>
          /\ queue'[u][i].to \in Trip /\ queue'[u][i].replaces = Field
          /\ draft'[u] \subseteq queue'[u][i].data["guests"]
  <2> SUFFICES ASSUME NEW i \in DOMAIN queue'[u], queue'[u][i].then # {}
               PROVE  /\ queue'[u][i].to \in Trip /\ queue'[u][i].replaces = Field
                      /\ draft'[u] \subseteq queue'[u][i].data["guests"]
    OBVIOUS
  <2>1. PICK j \in DOMAIN queue[u] :
            /\ queue'[u][i].to = queue[u][j].to /\ queue'[u][i].replaces = queue[u][j].replaces
            /\ queue'[u][i].data = queue[u][j].data
            /\ queue[u][j].then # {}
    OBVIOUS
  <2>2. /\ queue[u][j].to \in Trip /\ queue[u][j].replaces = Field
        /\ draft[u] \subseteq queue[u][j].data["guests"]
    BY <2>1 DEF DraftFits, ListSent
  <2> QED
    BY <2>1, <2>2
<1>3. \A i \in DOMAIN main'[u] : main'[u][i].kind = "stored" => SentWithTrip(u)'
  <2>1. ASSUME NEW j \in DOMAIN main[u], main[u][j].kind = "stored" PROVE SentWithTrip(u)'
    BY <2>1, SentStays DEF DraftFits, ListSent
  <2> QED
    BY <2>1
<1>4. ListSent(u)'
  BY <1>2, <1>3 DEF ListSent
<1> QED
  BY <1>1, <1>4 DEF DraftFits

LEMMA DraftSame ==
    ASSUME Grown, NEW u, DraftFits(u), draft'[u] = draft[u], docs'[u] = docs[u],
           queue'[u] = queue[u],
           \A i \in DOMAIN main'[u] : main'[u][i].kind = "stored" =>
               \E j \in DOMAIN main[u] : main[u][j] = main'[u][i]
    PROVE  DraftFits(u)'
<1>1. SeenGuests(u, u)' = SeenGuests(u, u)
  BY DEF SeenGuests
<1> QED
  BY <1>1, DraftKept

\* What no step of another user touches.
LEMMA OthersDraft ==
    ASSUME DraftInv, Grown, NEW u \in User,
           \/ UserStep(u) \/ MainStep(u) \/ ClientStep(u), NEW v \in User, v # u
    PROVE  DraftFits(v)'
<1>1. /\ queue \in [User -> Seq(Write)] /\ main \in [User -> Seq(Callback)]
      /\ draft \in [User -> SUBSET User] /\ docs \in [Key -> Document]
      /\ v \notin Trip /\ v \in Key
  BY TripFields DEF DraftInv, GuestInv, TripInv, TypeOK
<1>2. draft'[v] = draft[v] /\ queue'[v] = queue[v] /\ main'[v] = main[v]
  BY <1>1 DEF UserStep, MainStep, ClientStep, openCreateTrip, goBack, inviteContact,
     uninviteContact, SaveGuests, createTrip, selectTab, fetchTrips, tripStored, popToRoot,
     tripsFetched, writeCommitted, writeRejected, relaunch
<1>3. docs'[v] = docs[v]
  <2>1. CASE writeCommitted(u)
    <3>1. PICK w : w = Head(queue[u])
      OBVIOUS
    <3>2. 1 \in DOMAIN queue[u] /\ w = queue[u][1]
      BY <1>1, <2>1, <3>1, Elements DEF writeCommitted
    <3>3. w.to # v
      BY <1>1, <3>2 DEF DraftInv, DraftFits, OwnWrites
    <3> QED
      BY <1>1, <2>1, <3>1, <3>3 DEF writeCommitted
  <2>2. CASE ~writeCommitted(u)
    BY <2>2 DEF UserStep, MainStep, ClientStep, openCreateTrip, goBack, inviteContact,
       uninviteContact, createTrip, selectTab, fetchTrips, tripStored, popToRoot,
       tripsFetched, writeRejected, relaunch
  <2> QED
    BY <2>1, <2>2
<1> QED
  BY <1>2, <1>3, DraftSame DEF DraftInv

LEMMA DraftSave ==
    ASSUME DraftInv, Grown, ~TapsAhead, NEW u \in User,
           tripStored(u) \/ \E c \in User : inviteContact(u, c) \/ uninviteContact(u, c)
    PROVE  DraftFits(u)'
<1>1. PICK members \in SUBSET User : SaveGuests(u, members) /\ (tripStored(u) => members = {})
  <2>1. draft[u] \in SUBSET User
    BY DEF DraftInv, GuestInv, TripInv, TypeOK
  <2> QED
    BY <2>1 DEF tripStored, inviteContact, uninviteContact
<1>2. PICK w : w = SetData(u, Guests(members), {})
  OBVIOUS
<1>3. /\ w \in Write /\ w.to = u /\ w.then = {} /\ w.replaces = Field /\ w.data["guests"] = members
      /\ "guests" \in Field
  BY <1>2, GuestsType, TripFields DEF SetData
<1>4. /\ docs' = docs /\ TypeOK /\ queue \in [User -> Seq(Write)] /\ draft'[u] = members
      /\ docs[u] \in Document /\ main \in [User -> Seq(Callback)]
      /\ queue' = [queue EXCEPT ![u] = Append(@, w)]
  <2>1. TypeOK
    BY DEF DraftInv, GuestInv, TripInv
  <2>2. docs' = docs
    BY DEF tripStored, inviteContact, uninviteContact
  <2>3. /\ queue \in [User -> Seq(Write)] /\ main \in [User -> Seq(Callback)]
        /\ draft \in [User -> SUBSET User] /\ docs[u] \in Document
    BY <2>1, TripFields DEF TypeOK
  <2> QED
    BY <1>1, <1>2, <2>1, <2>2, <2>3 DEF SaveGuests
<1>5. PICK q : q = queue[u]
  OBVIOUS
<1>6. q \in Seq(Write) /\ queue'[u] = Append(q, w)
  BY <1>4, <1>5
<1>7. \A i \in DOMAIN queue'[u] : \/ i \in DOMAIN queue[u] /\ queue'[u][i] = queue[u][i]
                                  \/ queue'[u][i] = w
  BY <1>3, <1>5, <1>6, Elements
<1>8. SeenGuests(u, u)' = members
  <2>1. LocalDocument(docs[u], Append(q, w), u) = Applied(LocalDocument(docs[u], q, u), w)
    BY <1>3, <1>4, <1>6, ViewAppend
  <2>2. Applied(LocalDocument(docs[u], q, u), w)["guests"] = members
    BY <1>3 DEF Applied
  <2> QED
    BY <1>4, <1>6, <2>1, <2>2 DEF SeenGuests
<1>9. OwnWrites(u)'
  BY <1>3, <1>7 DEF DraftInv, DraftFits, OwnWrites
<1>10. CASE tripStored(u)
  <2>1. PICK block : block = Block("pop", Head(main[u]).trips)
    OBVIOUS
  <2>2. main[u] # <<>> /\ main'[u] = Append(Tail(main[u]), block)
    BY <1>4, <1>10, <2>1 DEF tripStored, Runs
  <2>3. Head(main[u]) \in Callback
    BY <1>4, <1>10, FirstBlock DEF tripStored
  <2>4. block \in Callback /\ block.kind # "stored"
    BY <2>1, <2>3, TripBlockType DEF Block, Callback
  <2>5. \A i \in DOMAIN main'[u] : main'[u][i].kind = "stored" =>
            \E j \in DOMAIN main[u] : main[u][j] = main'[u][i]
    BY <1>4, <2>2, <2>4, BlocksAfter
  <2>6. SentWithTrip(u) => SentWithTrip(u)'
    BY <1>1, <1>4, <1>10, SentStays
  <2>7. \A i \in DOMAIN main'[u] : main'[u][i].kind = "stored" => SentWithTrip(u)'
    BY <2>5, <2>6 DEF DraftInv, DraftFits, ListSent
  <2>8. \A i \in DOMAIN queue'[u] : queue'[u][i].then # {} =>
            /\ queue'[u][i].to \in Trip /\ queue'[u][i].replaces = Field
            /\ draft'[u] \subseteq queue'[u][i].data["guests"]
    BY <1>1, <1>3, <1>4, <1>7, <1>10 DEF DraftInv, DraftFits, ListSent
  <2> QED
    BY <1>4, <1>8, <1>9, <2>7, <2>8 DEF DraftFits, ListSent
<1>11. CASE \E c \in User : inviteContact(u, c) \/ uninviteContact(u, c)
  <2>1. ~Outstanding(u) /\ main' = main
    BY <1>11 DEF inviteContact, uninviteContact, CanTap
  <2>2. /\ \A i \in DOMAIN main'[u] : main'[u][i].kind # "stored"
        /\ \A i \in DOMAIN queue'[u] : queue'[u][i].then = {}
    BY <1>3, <1>7, <2>1 DEF Outstanding
  <2> QED
    BY <1>4, <1>8, <1>9, <2>2 DEF DraftFits, ListSent
<1> QED
  BY <1>10, <1>11

LEMMA DraftCreate ==
    ASSUME DraftInv, ~TapsAhead, NEW u \in User, createTrip(u)
    PROVE  DraftFits(u)'
<1>1. PICK t \in Trip : queue' = [queue EXCEPT ![u] = Append(@, SetData(t, Guests(draft[u]), {t}))]
  BY DEF createTrip
<1>2. PICK w : w = SetData(t, Guests(draft[u]), {t})
  OBVIOUS
<1>3. /\ UNCHANGED <<docs, draft, main>> /\ queue \in [User -> Seq(Write)]
      /\ docs[u] \in Document /\ draft[u] \in SUBSET User /\ ~Outstanding(u)
  BY TripFields DEF createTrip, CanTap, DraftInv, GuestInv, TripInv, TypeOK
<1>4. w \in Write /\ w.to = t /\ w.replaces = Field /\ w.data["guests"] = draft[u] /\ t # u
  BY <1>2, <1>3, GuestsType, TripFields DEF SetData
<1>5. PICK q : q = queue[u]
  OBVIOUS
<1>6. q \in Seq(Write) /\ queue'[u] = Append(q, w)
  BY <1>1, <1>2, <1>3, <1>5
<1>7. \A i \in DOMAIN queue'[u] : \/ i \in DOMAIN queue[u] /\ queue'[u][i] = queue[u][i]
                                  \/ queue'[u][i] = w
  BY <1>4, <1>5, <1>6, Elements
<1>8. SeenGuests(u, u)' = SeenGuests(u, u)
  <2>1. LocalDocument(docs[u], Append(q, w), u) = LocalDocument(docs[u], q, u)
    BY <1>3, <1>4, <1>6, ViewAppend
  <2> QED
    BY <1>3, <1>5, <1>6, <2>1 DEF SeenGuests
<1>9. OwnWrites(u)'
  BY <1>4, <1>7 DEF DraftInv, DraftFits, OwnWrites
<1>10. ListSent(u)'
  <2>1. \A i \in DOMAIN queue[u] : queue[u][i].then = {}
    BY <1>3 DEF Outstanding
  <2>2. \A i \in DOMAIN main'[u] : main'[u][i].kind # "stored"
    BY <1>3 DEF Outstanding
  <2> QED
    BY <1>3, <1>4, <1>7, <2>1, <2>2 DEF ListSent
<1> QED
  BY <1>3, <1>8, <1>9, <1>10 DEF DraftInv, DraftFits

LEMMA DraftAnswer ==
    ASSUME DraftInv, Grown, Refused \cap User = {}, NEW u \in User,
           writeCommitted(u) \/ writeRejected(u)
    PROVE  DraftFits(u)'
<1>1. PICK q : q = queue[u]
  OBVIOUS
<1>2. PICK w : w = Head(queue[u])
  OBVIOUS
<1>3. /\ queue[u] # <<>> /\ queue' = [queue EXCEPT ![u] = Tail(@)] /\ TypeOK
      /\ UNCHANGED <<made, draft>> /\ queue \in [User -> Seq(Write)] /\ q \in Seq(Write)
      /\ docs \in [Key -> Document] /\ u \in Key /\ main \in [User -> Seq(Callback)]
  BY <1>1, TripFields DEF writeCommitted, writeRejected, DraftInv, GuestInv, TripInv, TypeOK
<1>4. queue'[u] = Tail(q) /\ 1 \in DOMAIN queue[u] /\ w = queue[u][1] /\ w \in Write
  BY <1>1, <1>2, <1>3, Elements
<1>5. \A i \in DOMAIN queue'[u] : i + 1 \in DOMAIN queue[u] /\ queue'[u][i] = queue[u][i + 1]
  BY <1>1, <1>3, <1>4, Elements
<1>6. docs'[u] = IF w.to = u THEN Applied(docs[u], w) ELSE docs[u]
  BY <1>2, <1>3 DEF writeCommitted, writeRejected
<1>7. SeenGuests(u, u)' = SeenGuests(u, u)
  <2>1. LocalDocument(IF Head(q).to = u THEN Applied(docs[u], Head(q)) ELSE docs[u], Tail(q), u)
            = LocalDocument(docs[u], q, u)
    BY <1>1, <1>3, ViewAfterHead
  <2> QED
    BY <1>1, <1>2, <1>4, <1>6, <2>1 DEF SeenGuests
<1>8. \A i \in DOMAIN main'[u] : main'[u][i].kind = "stored" =>
          SentWithTrip(u)' \/ \E j \in DOMAIN main[u] : main[u][j] = main'[u][i]
  <2>1. CASE main'[u] = main[u]
    BY <2>1
  <2>2. CASE main'[u] # main[u]
    <3>1. w.then # {} /\ writeCommitted(u)
      BY <1>2, <2>2 DEF writeCommitted, writeRejected
    <3>2. /\ w.to \in Trip /\ w.replaces = Field /\ draft[u] \subseteq w.data["guests"]
          /\ made[w.to] # {} /\ Creator(w.to) = u
      BY <1>4, <3>1 DEF DraftInv, DraftFits, ListSent, GuestInv, SentOnce
    <3>3. docs'[w.to]["guests"] = w.data["guests"]
      BY <1>2, <1>3, <3>1, <3>2, TripFields DEF writeCommitted, Applied
    <3>4. SentWithTrip(u)'
      <4>1. PICK t \in Trip : t = w.to
        BY <3>2
      <4>2. made'[t] # {} /\ Creator(t)' = u /\ draft'[u] \subseteq docs'[t]["guests"]
        BY <1>3, <3>2, <3>3, <4>1 DEF Creator
      <4> QED
        BY <4>2 DEF SentWithTrip
    <3> QED
      BY <3>4
  <2> QED
    BY <2>1, <2>2
<1>9. \A i \in DOMAIN queue'[u] : \E j \in DOMAIN queue[u] :
          /\ queue'[u][i].to = queue[u][j].to /\ queue'[u][i].replaces = queue[u][j].replaces
          /\ queue'[u][i].data = queue[u][j].data
          /\ queue'[u][i].then # {} => queue[u][j].then # {}
  BY <1>5
<1> QED
  BY <1>3, <1>7, <1>8, <1>9, DraftKept DEF DraftInv

LEMMA DraftRelaunch ==
    ASSUME DraftInv, Grown, NEW u \in User, relaunch(u)
    PROVE  DraftFits(u)' /\ draft' = draft
<1>1. /\ docs' = docs /\ queue \in [User -> Seq(Write)] /\ main \in [User -> Seq(Callback)]
      /\ queue' = [queue EXCEPT ![u] = [i \in DOMAIN queue[u] |-> Restored(queue[u][i])]]
      /\ main' = [main EXCEPT ![u] = <<>>] /\ draft \in [User -> SUBSET User]
      /\ draft' = [draft EXCEPT ![u] = SeenGuests(u, u)]
  BY DEF relaunch, DraftInv, GuestInv, TripInv, TypeOK
<1>2. draft' = draft
  BY <1>1 DEF DraftInv, DraftFits
<1>3. PICK q : q = queue[u]
  OBVIOUS
<1>4. q \in Seq(Write) /\ queue'[u] = [i \in DOMAIN q |-> Restored(q[i])] /\ main'[u] = <<>>
  BY <1>1, <1>3
<1>5. LocalDocument(docs[u], [i \in DOMAIN q |-> Restored(q[i])], u) = LocalDocument(docs[u], q, u)
  BY <1>4, ViewRestored
<1>6. SeenGuests(u, u)' = SeenGuests(u, u)
  BY <1>1, <1>3, <1>4, <1>5 DEF SeenGuests
<1>7. \A i \in DOMAIN queue'[u] :
          /\ i \in DOMAIN queue[u]
          /\ queue'[u][i].to = queue[u][i].to /\ queue'[u][i].replaces = queue[u][i].replaces
          /\ queue'[u][i].data = queue[u][i].data /\ queue'[u][i].then = {}
  BY <1>3, <1>4 DEF Restored
<1>8. DOMAIN main'[u] = {}
  BY <1>4
<1> QED
  BY <1>2, <1>6, <1>7, <1>8, DraftKept DEF DraftInv

\* What a step does to the list of its user.
Explained(u) ==
    \/ draft[u] \subseteq draft'[u]
    \/ \E c \in User : uninviteContact(u, c)
    \/ SentWithTrip(u)

LEMMA GrownStep ==
    ASSUME GuestInv, [Next]_vars
    PROVE  Grown
<1>1. ASSUME NEW u \in User, createTrip(u) PROVE Grown
  <2>1. made \in [Trip -> {{}} \cup {{m} : m \in [creatorID : User, date : Time]}]
    BY DEF GuestInv, TripInv, TypeOK
  <2> QED
    BY <1>1, <2>1 DEF createTrip, Grown
<1>2. ASSUME NEW u \in User, writeCommitted(u) \/ writeRejected(u) PROVE Grown
  BY <1>2, TripInvStep, GuestAnswer DEF GuestInv
<1>3. ASSUME UNCHANGED <<docs, made>> PROVE Grown
  BY <1>3 DEF Grown
<1>4. ASSUME NEW u \in User, UserStep(u) PROVE Grown
  <2>1. CASE ~createTrip(u)
    BY <1>3, <1>4, <2>1 DEF UserStep, openCreateTrip, goBack, inviteContact, uninviteContact,
       selectTab, fetchTrips
  <2> QED
    BY <1>1, <2>1
<1>5. ASSUME NEW u \in User, MainStep(u) PROVE Grown
  BY <1>3, <1>5 DEF MainStep, tripStored, popToRoot, tripsFetched
<1>6. ASSUME NEW u \in User, ClientStep(u) PROVE Grown
  BY <1>2, <1>3, <1>6 DEF ClientStep, relaunch
<1> QED
  BY <1>3, <1>4, <1>5, <1>6 DEF Next, tick, vars

LEMMA DraftUser ==
    ASSUME DraftInv, Grown, ~TapsAhead, NEW u \in User, UserStep(u)
    PROVE  DraftFits(u)' /\ Explained(u)
<1>1. TypeOK /\ draft \in [User -> SUBSET User] /\ main \in [User -> Seq(Callback)]
  BY DEF DraftInv, GuestInv, TripInv, TypeOK
<1>2. CASE openCreateTrip(u) \/ goBack(u) \/ selectTab(u) \/ fetchTrips(u)
  <2>1. UNCHANGED <<docs, draft, queue>>
    BY <1>2 DEF openCreateTrip, goBack, selectTab, fetchTrips
  <2>2. \A i \in DOMAIN main'[u] : main'[u][i].kind = "stored" =>
            \E j \in DOMAIN main[u] : main[u][j] = main'[u][i]
    <3>1. CASE main' = main
      BY <3>1
    <3>2. CASE main' # main
      <4>1. PICK block : block = Block("fetched", {t \in Trip : u \in SeenGuests(u, t)})
        OBVIOUS
      <4>2. block \in Callback /\ block.kind # "stored"
        BY <4>1, TripBlockType DEF Block
      <4>3. main'[u] = Append(main[u], block)
        BY <1>1, <1>2, <3>2, <4>1 DEF openCreateTrip, goBack, selectTab, fetchTrips
      <4> QED
        BY <1>1, <4>2, <4>3, BlocksAfter
    <3> QED
      BY <3>1, <3>2
  <2> QED
    BY <2>1, <2>2, DraftSame DEF DraftInv, Explained
<1>3. ASSUME NEW c \in User, inviteContact(u, c) PROVE DraftFits(u)' /\ Explained(u)
  <2>1. draft'[u] = draft[u] \cup {c, u}
    BY <1>1, <1>3 DEF inviteContact, SaveGuests
  <2> QED
    BY <1>3, <2>1, DraftSave DEF Explained
<1>4. ASSUME NEW c \in User, uninviteContact(u, c) PROVE DraftFits(u)' /\ Explained(u)
  BY <1>4, DraftSave DEF Explained
<1>5. CASE createTrip(u)
  BY <1>5, DraftCreate DEF Explained, createTrip
<1> QED
  BY <1>2, <1>3, <1>4, <1>5 DEF UserStep

LEMMA DraftMain ==
    ASSUME DraftInv, Grown, ~TapsAhead, NEW u \in User, MainStep(u)
    PROVE  DraftFits(u)' /\ Explained(u)
<1>1. TypeOK /\ main \in [User -> Seq(Callback)]
  BY DEF DraftInv, GuestInv, TripInv, TypeOK
<1>2. CASE popToRoot(u) \/ tripsFetched(u)
  <2>1. UNCHANGED <<docs, draft, queue>> /\ main[u] # <<>> /\ main'[u] = Tail(main[u])
    BY <1>1, <1>2 DEF popToRoot, tripsFetched, Runs
  <2>2. \A i \in DOMAIN main'[u] : main'[u][i].kind = "stored" =>
            \E j \in DOMAIN main[u] : main[u][j] = main'[u][i]
    BY <1>1, <2>1, BlocksAfter
  <2> QED
    BY <2>1, <2>2, DraftSame DEF DraftInv, Explained
<1>3. CASE tripStored(u)
  <2>1. 1 \in DOMAIN main[u] /\ main[u][1].kind = "stored"
    BY <1>1, <1>3, Elements DEF tripStored, Runs
  <2>2. SentWithTrip(u)
    BY <2>1 DEF DraftInv, DraftFits, ListSent
  <2> QED
    BY <1>3, <2>2, DraftSave DEF Explained
<1> QED
  BY <1>2, <1>3 DEF MainStep

LEMMA DraftStep ==
    ASSUME DraftInv, ~TapsAhead, Refused \cap User = {}, [Next]_vars
    PROVE  DraftInv' /\ (UNCHANGED vars \/ \A u \in User : Explained(u))
<1>1. GuestInv' /\ Grown
  BY GuestInvStep, GrownStep DEF DraftInv
<1>2. CASE UNCHANGED <<docs, draft, queue, main>>
  <2>1. \A u \in User : DraftFits(u)'
    BY <1>1, <1>2, DraftSame DEF DraftInv
  <2> QED
    BY <1>1, <1>2, <2>1 DEF DraftInv, Explained
<1>3. ASSUME NEW u \in User, UserStep(u) \/ MainStep(u) \/ ClientStep(u),
             DraftFits(u)', Explained(u)
      PROVE  DraftInv' /\ \A v \in User : Explained(v)
  <2>1. ASSUME NEW v \in User, v # u PROVE DraftFits(v)' /\ draft'[v] = draft[v]
    <3>1. draft \in [User -> SUBSET User]
      BY DEF DraftInv, GuestInv, TripInv, TypeOK
    <3>2. draft'[v] = draft[v]
      BY <1>3, <2>1, <3>1 DEF UserStep, MainStep, ClientStep, openCreateTrip, goBack,
         inviteContact, uninviteContact, SaveGuests, createTrip, selectTab, fetchTrips,
         tripStored, popToRoot, tripsFetched, writeCommitted, writeRejected, relaunch
    <3> QED
      BY <1>1, <1>3, <2>1, <3>2, OthersDraft
  <2> QED
    BY <1>1, <1>3, <2>1 DEF DraftInv, Explained
<1>4. ASSUME NEW u \in User, ClientStep(u) PROVE DraftFits(u)' /\ Explained(u)
  <2>1. CASE writeCommitted(u) \/ writeRejected(u)
    BY <1>1, <2>1, DraftAnswer DEF Explained, writeCommitted, writeRejected
  <2>2. CASE relaunch(u)
    BY <1>1, <2>2, DraftRelaunch DEF Explained
  <2> QED
    BY <1>4, <2>1, <2>2 DEF ClientStep
<1>5. ASSUME NEW u \in User, UserStep(u) \/ MainStep(u) \/ ClientStep(u)
      PROVE  DraftInv' /\ \A v \in User : Explained(v)
  BY <1>1, <1>3, <1>4, <1>5, DraftUser, DraftMain
<1> QED
  BY <1>2, <1>5 DEF Next, tick, vars

\* Nobody drops off an invitation list but by uninviteContact or because a trip that
\* invites the whole list has been stored (createTrip's block), through crashes and
\* refused trips, if the host waits for the answer and the backend takes the lists.
THEOREM InvitedUntilSent ==
    ASSUME ~TapsAhead, Refused \cap User = {}
    PROVE  Spec => InvitationsSent
<1>1. Init => DraftInv
  <2> SUFFICES ASSUME Init PROVE DraftInv
    OBVIOUS
  <2>1. \A u \in User : /\ DOMAIN queue[u] = {} /\ DOMAIN main[u] = {} /\ draft[u] = {}
                        /\ queue[u] = <<>> /\ docs[u] = EmptyDocument
    BY TripFields DEF Init
  <2>2. EmptyDocument \in Document /\ EmptyDocument["guests"] = {}
    BY TripFields, EmptyDocumentType DEF EmptyDocument
  <2>3. \A u \in User : SeenGuests(u, u) = draft[u]
    BY <2>1, <2>2, ViewEmpty DEF SeenGuests
  <2> QED
    BY <2>1, <2>3, GuestInit DEF DraftInv, DraftFits, OwnWrites, ListSent
<1>2. DraftInv /\ [Next]_vars => DraftInv'
  BY DraftStep
<1>3. DraftInv /\ [Next]_vars =>
          [\A u \in User :
              \/ draft[u] \subseteq draft'[u]
              \/ \E c \in User : uninviteContact(u, c)
              \/ \E t \in Trip : /\ made[t] # {} /\ Creator(t) = u
                                 /\ draft[u] \subseteq docs[t]["guests"]]_vars
  BY DraftStep DEF Explained, SentWithTrip
<1> QED
  BY <1>1, <1>2, <1>3, PTL DEF Spec, InvitationsSent

=============================================================================
