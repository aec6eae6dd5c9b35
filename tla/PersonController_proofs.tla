------------------------ MODULE PersonController_proofs ------------------------
(***************************************************************************)
(* Theorems about PersonController for every set of users, devices and     *)
(* phone numbers and every setting of the bounds and switches.             *)
(***************************************************************************)
EXTENDS PersonController, Firestore_proofs, FiniteSetTheorems, TLAPS

-----------------------------------------------------------------------------
(***************************************************************************)
(* Types of the operators.                                                 *)
(***************************************************************************)

\* Changing one field of a record gives a record.
LEMMA WithType ==
    ASSUME NEW person \in Person, NEW f \in Field, NEW members \in SUBSET Value
    PROVE  With(person, f, members) \in Person
BY DEF With, Person, Document

LEMMA SeenType ==
    ASSUME NEW d \in Device, NEW u \in User
    PROVE  Seen(d, u) \in Person
BY LocalDocumentType DEF Seen, Person

LEMMA Fields ==
    /\ "contacts" \in Field
    /\ "blockedUsers" \in Field
    /\ "invitedUsers" \in Field
    /\ "phoneNumber" \in Field
    /\ User \subseteq Value
    /\ Phone \subseteq Value
BY SchemaAssumption DEF RecordField

\* What a queue of writes becomes in the steps that change one.
LEMMA QueueTypes ==
    ASSUME NEW q \in Seq(Write)
    PROVE  /\ \A w \in Write : Append(q, w) \in Seq(Write)
           /\ q # <<>> => Head(q) \in Write /\ Tail(q) \in Seq(Write)
           /\ [i \in DOMAIN q |-> Restored(q[i])] \in Seq(Write)
<1>1. \A w \in Write : Append(q, w) \in Seq(Write)
  OBVIOUS
<1>2. q # <<>> => Head(q) \in Write /\ Tail(q) \in Seq(Write)
  OBVIOUS
<1>3. [i \in DOMAIN q |-> Restored(q[i])] \in Seq(Write)
  <2>1. \A w \in Write : Restored(w) \in Write
    BY DEF Write, Restored
  <2>2. DOMAIN q = 1..Len(q) /\ Len(q) \in Nat
    OBVIOUS
  <2>3. \A i \in DOMAIN q : q[i] \in Write
    OBVIOUS
  <2> QED
    BY <2>1, <2>2, <2>3
<1> QED
  BY <1>1, <1>2, <1>3

-----------------------------------------------------------------------------
(***************************************************************************)
(* The type invariant.                                                     *)
(***************************************************************************)

LEMMA InitType == Init => TypeOK
<1> SUFFICES ASSUME Init PROVE TypeOK
  OBVIOUS
<1>1. users \in [User -> Person]
  <2>1. PICK number \in [User -> Number] :
            users = [u \in User |-> [EmptyDocument EXCEPT !["phoneNumber"] = number[u]]]
    BY DEF Init
  <2>2. \A u \in User : number[u] \in SUBSET Value
    BY <2>1, Fields DEF Number
  <2>3. \A u \in User : [EmptyDocument EXCEPT !["phoneNumber"] = number[u]] \in Person
    BY <2>2, EmptyDocumentType, Fields DEF Person, Document
  <2> QED
    BY <2>1, <2>3
<1>2. currentUser \in [Device -> Person \cup {NoPerson}]
  BY <1>1, OwnerAssumption DEF Init, Me
<1> QED
  BY <1>1, <1>2 DEF Init, TypeOK

\* Every write of currentUser back to the document has the type of a write.
LEMMA SaveType ==
    ASSUME TypeOK, NEW d \in Device, NEW person \in Person, Save(d, person)
    PROVE  TypeOK'
<1>1. Me(d) \in Key
  BY OwnerAssumption, SchemaAssumption DEF Me
<1>2. SetData(Me(d), person, {}) \in Write
  BY <1>1, WriteTypes DEF Person
<1>3. Append(queue[d], SetData(Me(d), person, {})) \in Seq(Write)
  BY <1>2 DEF TypeOK
<1> QED
  BY <1>3 DEF TypeOK, Save

\* Appending one write or one block keeps the types.
LEMMA WriteAdded ==
    ASSUME TypeOK, NEW d \in Device, NEW w \in Write
    PROVE  [queue EXCEPT ![d] = Append(@, w)] \in [Device -> Seq(Write)]
BY DEF TypeOK

LEMMA BlockAdded ==
    ASSUME TypeOK, NEW d \in Device, NEW block \in Callback
    PROVE  [main EXCEPT ![d] = Append(@, block)] \in [Device -> Seq(Callback)]
BY DEF TypeOK

LEMMA BlockRun ==
    ASSUME TypeOK, NEW d \in Device, NEW kind, Runs(d, kind)
    PROVE  /\ Head(main[d]) \in Callback
           /\ Head(main[d]).kind = kind
           /\ [main EXCEPT ![d] = Tail(@)] \in [Device -> Seq(Callback)]
BY DEF TypeOK, Runs

LEMMA BlockType ==
    ASSUME NEW kind \in CallbackKind \ {"reload"}, NEW people \in SUBSET User
    PROVE  Block(kind, people) \in Callback
BY DEF Block, Callback

LEMMA EditType ==
    ASSUME TypeOK, NEW d \in Device, currentUser[d] # NoPerson, NEW c \in User,
           blockContact(d, c) \/ unblockContact(d, c)
              \/ inviteContact(d, c) \/ uninviteContact(d, c)
    PROVE  TypeOK'
<1>1. currentUser[d] \in Person
  BY DEF TypeOK
<1>2. Me(d) \in User
  BY OwnerAssumption DEF Me
<1>3. /\ currentUser[d]["blockedUsers"] \subseteq Value
      /\ currentUser[d]["invitedUsers"] \subseteq Value
      /\ c \in Value /\ Me(d) \in Value
  BY <1>1, <1>2, Fields DEF Person, Document
<1>4. CASE blockContact(d, c)
  BY <1>1, <1>3, <1>4, WithType, SaveType, Fields DEF blockContact
<1>5. CASE unblockContact(d, c)
  BY <1>1, <1>3, <1>5, WithType, SaveType, Fields DEF unblockContact
<1>6. CASE inviteContact(d, c)
  BY <1>1, <1>3, <1>6, WithType, SaveType, Fields DEF inviteContact
<1>7. CASE uninviteContact(d, c)
  BY <1>1, <1>3, <1>7, WithType, SaveType, Fields DEF uninviteContact
<1> QED
  BY <1>4, <1>5, <1>6, <1>7

LEMMA UserStepType ==
    ASSUME TypeOK, NEW d \in Device, UserStep(d)
    PROVE  TypeOK'
<1>0. Me(d) \in User /\ Me(d) \in Key
  BY OwnerAssumption, SchemaAssumption DEF Me
<1>1. CASE contactsButtonTapped(d)
  <2>1. PICK c \in shown[d] : blockContact(d, c) \/ unblockContact(d, c)
    BY <1>1 DEF contactsButtonTapped
  <2> QED
    BY <1>1, <2>1, EditType DEF contactsButtonTapped, CanEdit, TypeOK
<1>2. CASE inviteButtonTapped(d)
  <2>1. PICK c \in shown[d] : inviteContact(d, c) \/ uninviteContact(d, c)
    BY <1>2 DEF inviteButtonTapped
  <2> QED
    BY <1>2, <2>1, EditType DEF inviteButtonTapped, CanEdit, TypeOK
<1>3. CASE tripStored(d)
  <2>1. Block("tripStored", {}) \in Callback
    BY BlockType DEF CallbackKind
  <2> QED
    BY <1>3, <2>1, BlockAdded DEF tripStored, TypeOK
<1>4. CASE updatePhoneNumber(d)
  <2>1. PICK number \in Number :
            queue' = [queue EXCEPT ![d] =
                Append(@, UpdateField(Me(d), "phoneNumber", number))]
    BY <1>4 DEF updatePhoneNumber
  <2>2. UpdateField(Me(d), "phoneNumber", number) \in Write
    BY <1>0, <2>1, Fields, WriteTypes DEF Number
  <2> QED
    BY <1>4, <2>1, <2>2, WriteAdded DEF updatePhoneNumber, TypeOK
<1>5. CASE searchForContact(d)
  <2>1. PICK p \in Phone : main' = [main EXCEPT ![d] = Append(@, Block("found", Matches(d, p)))]
    BY <1>5 DEF searchForContact
  <2>2. Block("found", Matches(d, p)) \in Callback
    BY BlockType DEF Matches, CallbackKind
  <2> QED
    BY <1>5, <2>1, <2>2, BlockAdded DEF searchForContact, TypeOK
<1>6. CASE initializeUser(d)
  <2>1. RecordRead(Seen(d, Me(d))) \in Callback
    BY <1>0, SeenType DEF RecordRead, Callback
  <2> QED
    BY <1>6, <2>1, BlockAdded DEF initializeUser, TypeOK
<1>7. CASE fetchContacts(d)
  <2>1. Block("contacts", Fetched(d)) \in Callback
    BY BlockType DEF Fetched, CallbackKind
  <2> QED
    BY <1>7, <2>1, BlockAdded DEF fetchContacts, TypeOK
<1> QED
  BY <1>1, <1>2, <1>3, <1>4, <1>5, <1>6, <1>7 DEF UserStep

\* The writes that contactFound puts on the queue, one for each person found.
LEMMA AddContactWriteType ==
    ASSUME TypeOK, NEW d \in Device, currentUser[d] \in Person,
           NEW found \in SUBSET User, NEW people \in Listings(found)
    PROVE  [i \in 1..Cardinality(found) |-> AddContactWrite(d, people, i)] \in Seq(Write)
<1>1. Cardinality(found) \in Nat
  BY UserAssumption, FS_Subset, FS_CardinalityType
<1>2. people \in [1..Cardinality(found) -> User]
  BY DEF Listings
<1>3. Me(d) \in User /\ Key = User
  BY OwnerAssumption, SchemaAssumption DEF Me
<1>4. \A i \in 1..Cardinality(found) : AddContactWrite(d, people, i) \in Write
  <2> SUFFICES ASSUME NEW i \in 1..Cardinality(found)
               PROVE  AddContactWrite(d, people, i) \in Write
    OBVIOUS
  <2>1. people[i] \in User
    BY <1>2
  <2>2. addCurrentUser(d, people[i]) \in Write
    BY <1>3, <2>1, Fields, WriteTypes DEF addCurrentUser
  <2>3. currentUser[d]["contacts"] \cup {people[j] : j \in 1..i} \in SUBSET Value
    <3>1. \A j \in 1..i : people[j] \in User
      BY <1>1, <1>2
    <3>2. currentUser[d]["contacts"] \in SUBSET Value
      BY Fields DEF Person, Document
    <3> QED
      BY <3>1, <3>2, Fields
  <2>4. With(currentUser[d], "contacts",
             currentUser[d]["contacts"] \cup {people[j] : j \in 1..i}) \in Document
    BY <2>3, WithType, Fields DEF Person
  <2> QED
    BY <1>3, <2>1, <2>2, <2>4, WriteTypes DEF AddContactWrite
<1> QED
  BY <1>1, <1>4

LEMMA MainStepType ==
    ASSUME TypeOK, NEW d \in Device, MainStep(d),
           Runs(d, "found") \/ Runs(d, "tripStored") => currentUser[d] # NoPerson
    PROVE  TypeOK'
<1>0. Me(d) \in User /\ Key = User
  BY OwnerAssumption, SchemaAssumption DEF Me
<1>1. CASE contactFound(d)
  <2>. DEFINE found == Head(main[d]).people
  <2>1. found \in SUBSET User /\ currentUser[d] \in Person
    BY <1>1, BlockRun DEF contactFound, Callback, TypeOK
  <2>2. PICK people \in Listings(found) :
            queue' = [queue EXCEPT ![d] =
                @ \o [i \in 1..Cardinality(found) |-> AddContactWrite(d, people, i)]]
    BY <1>1 DEF contactFound
  <2>3. queue' \in [Device -> Seq(Write)]
    <3>1. queue[d] \o [i \in 1..Cardinality(found) |-> AddContactWrite(d, people, i)]
              \in Seq(Write)
      <4>1. queue[d] \in Seq(Write)
        BY DEF TypeOK
      <4>2. [i \in 1..Cardinality(found) |-> AddContactWrite(d, people, i)] \in Seq(Write)
        BY <2>1, AddContactWriteType
      <4> QED
        BY <4>1, <4>2
    <3> QED
      BY <2>2, <3>1 DEF TypeOK
  <2>4. With(currentUser[d], "contacts", currentUser[d]["contacts"] \cup found) \in Person
    <3>1. currentUser[d]["contacts"] \cup found \in SUBSET Value
      BY <2>1, Fields DEF Person, Document
    <3> QED
      BY <2>1, <3>1, WithType, Fields
  <2>5. currentUser' \in [Device -> Person \cup {NoPerson}]
    BY <1>1, <2>4 DEF contactFound, TypeOK
  <2> QED
    BY <1>1, <2>3, <2>5, BlockRun DEF contactFound, TypeOK
<1>2. CASE contactSaved(d)
  <2>1. PICK u \in Head(main[d]).people :
            queue' = [queue EXCEPT ![d] = Append(@, addCurrentUser(d, u))]
    BY <1>2 DEF contactSaved
  <2>2. u \in User
    BY <1>2, BlockRun DEF contactSaved, Callback
  <2>3. addCurrentUser(d, u) \in Write
    BY <1>0, <2>2, Fields, WriteTypes DEF addCurrentUser
  <2> QED
    BY <1>2, <2>1, <2>3, WriteAdded, BlockRun DEF contactSaved, TypeOK
<1>3. CASE userInitialized(d)
  <2>1. Head(main[d]).person \in Person \cup {NoPerson}
    BY <1>3, BlockRun DEF userInitialized, Callback
  <2> QED
    BY <1>3, <2>1, BlockRun DEF userInitialized, TypeOK
<1>4. CASE contactsFetched(d)
  <2>1. Head(main[d]).people \in SUBSET User
    BY <1>4, BlockRun DEF contactsFetched, Callback
  <2> QED
    BY <1>4, <2>1, BlockRun DEF contactsFetched, TypeOK
<1>5. CASE removeInvitedContacts(d)
  <2>. DEFINE person == With(currentUser[d], "invitedUsers", {})
  <2>1. person \in Person
    BY <1>5, WithType, Fields DEF removeInvitedContacts, TypeOK
  <2>2. SetData(Me(d), person, {}) \in Write
    BY <1>0, <2>1, WriteTypes DEF Person
  <2>3. /\ currentUser' = [currentUser EXCEPT ![d] = person]
        /\ queue' = [queue EXCEPT ![d] = Append(@, SetData(Me(d), person, {}))]
    BY <1>5 DEF removeInvitedContacts
  <2>4. queue' \in [Device -> Seq(Write)]
    BY <2>2, <2>3, WriteAdded
  <2>5. currentUser' \in [Device -> Person \cup {NoPerson}]
    BY <2>1, <2>3 DEF TypeOK
  <2> QED
    BY <1>5, <2>4, <2>5, BlockRun DEF removeInvitedContacts, TypeOK
<1> QED
  BY <1>1, <1>2, <1>3, <1>4, <1>5 DEF MainStep

LEMMA ClientStepType ==
    ASSUME TypeOK, NEW d \in Device, ClientStep(d)
    PROVE  TypeOK'
<1>1. ASSUME queue[d] # <<>>, Answer(d)
      PROVE  queue' \in [Device -> Seq(Write)] /\ main' \in [Device -> Seq(Callback)]
  <2>1. Head(queue[d]) \in Write /\ Tail(queue[d]) \in Seq(Write)
    BY <1>1, QueueTypes DEF TypeOK
  <2>2. queue' \in [Device -> Seq(Write)]
    BY <1>1, <2>1 DEF Answer, TypeOK
  <2>3. Block("saved", Head(queue[d]).then) \in Callback
    BY <2>1, BlockType, SchemaAssumption DEF Write, CallbackKind
  <2> QED
    BY <1>1, <2>2, <2>3, BlockAdded DEF Answer, TypeOK
<1>2. CASE writeCommitted(d) \/ answerLost(d)
  <2>1. Head(queue[d]) \in Write
    BY <1>2, QueueTypes DEF TypeOK, writeCommitted, answerLost
  <2>2. Head(queue[d]).to \in User
    BY <2>1, SchemaAssumption DEF Write
  <2>3. Applied(users[Head(queue[d]).to], Head(queue[d])) \in Person
    BY <2>1, <2>2, AppliedType DEF TypeOK, Person
  <2>4. users' \in [User -> Person]
    BY <1>2, <2>2, <2>3 DEF writeCommitted, answerLost, TypeOK
  <2> QED
    BY <1>1, <1>2, <2>4 DEF writeCommitted, answerLost, TypeOK
<1>3. CASE writeRejected(d)
  BY <1>1, <1>3 DEF writeRejected, TypeOK
<1>4. CASE crash(d)
  <2>1. [i \in DOMAIN queue[d] |-> Restored(queue[d][i])] \in Seq(Write)
    BY QueueTypes DEF TypeOK
  <2>2. <<>> \in Seq(Callback)
    OBVIOUS
  <2> QED
    BY <1>4, <2>1, <2>2 DEF crash, TypeOK
<1> QED
  BY <1>2, <1>3, <1>4 DEF ClientStep

-----------------------------------------------------------------------------
(***************************************************************************)
(* With no record in memory, no block that needs one waits on the main     *)
(* thread and no queued write leads to one.                                *)
(***************************************************************************)

NothingForced(d) ==
    currentUser[d] = NoPerson =>
        /\ ~Enqueued(d, "found")
        /\ ~Enqueued(d, "saved")
        /\ ~Enqueued(d, "tripStored")
        /\ \A i \in DOMAIN queue[d] : queue[d][i].then = {}

TypeInv == TypeOK /\ \A d \in Device : NothingForced(d)

\* A block that is appended is the only one that may be new.
LEMMA EnqueuedAppend ==
    ASSUME TypeOK, NEW d \in Device, NEW block \in Callback, NEW kind,
           main' = [main EXCEPT ![d] = Append(@, block)]
    PROVE  Enqueued(d, kind)' => Enqueued(d, kind) \/ block.kind = kind
BY DEF TypeOK, Enqueued

LEMMA EnqueuedTail ==
    ASSUME TypeOK, NEW d \in Device, NEW kind, main[d] # <<>>,
           main' = [main EXCEPT ![d] = Tail(@)]
    PROVE  Enqueued(d, kind)' => Enqueued(d, kind)
BY DEF TypeOK, Enqueued

\* A step of one device leaves the memory, queue and main thread of the others alone.
LEMMA OtherDevices ==
    ASSUME TypeOK, NEW d \in Device, UserStep(d) \/ MainStep(d) \/ ClientStep(d),
           NEW e \in Device \ {d}
    PROVE  /\ currentUser'[e] = currentUser[e]
           /\ shown'[e] = shown[e]
           /\ queue'[e] = queue[e]
           /\ main'[e] = main[e]
<1>1. CASE UserStep(d)
  BY <1>1 DEF UserStep, contactsButtonTapped, inviteButtonTapped,
     tripStored, updatePhoneNumber, searchForContact, initializeUser,
     fetchContacts, blockContact, unblockContact, inviteContact, uninviteContact, Save,
     TypeOK
<1>2. CASE MainStep(d)
  BY <1>2 DEF MainStep, contactFound, contactSaved, removeInvitedContacts,
     userInitialized, contactsFetched, TypeOK
<1>3. CASE ClientStep(d)
  BY <1>3 DEF ClientStep, writeCommitted, answerLost, writeRejected, crash, Answer, TypeOK
<1> QED
  BY <1>1, <1>2, <1>3

LEMMA UserStepForced ==
    ASSUME TypeInv, NEW d \in Device, UserStep(d)
    PROVE  NothingForced(d)'
<1> USE DEF TypeInv
<1>1. CASE initializeUser(d)
  <2>1. RecordRead(Seen(d, Me(d))) \in Callback
    BY OwnerAssumption, SeenType DEF RecordRead, Callback, Me
  <2>2. main' = [main EXCEPT ![d] = Append(@, RecordRead(Seen(d, Me(d))))]
    BY <1>1 DEF initializeUser
  <2>3. /\ Enqueued(d, "found")' => Enqueued(d, "found")
        /\ Enqueued(d, "saved")' => Enqueued(d, "saved")
        /\ Enqueued(d, "tripStored")' => Enqueued(d, "tripStored")
    BY <2>1, <2>2, EnqueuedAppend DEF RecordRead
  <2> QED
    BY <1>1, <2>3 DEF initializeUser, NothingForced
<1>2. CASE searchForContact(d) \/ fetchContacts(d) \/ updatePhoneNumber(d) \/ tripStored(d)
  BY <1>2 DEF searchForContact, fetchContacts, updatePhoneNumber, tripStored, CanAsk,
     CanEdit, NothingForced
<1>3. CASE contactsButtonTapped(d) \/ inviteButtonTapped(d)
  <2>1. PICK person : Save(d, person)
    BY <1>3 DEF contactsButtonTapped, inviteButtonTapped,
       blockContact, unblockContact, inviteContact, uninviteContact
  <2>2. currentUser[d] \in Person /\ TypeOK'
    BY <1>3, UserStepType DEF contactsButtonTapped, inviteButtonTapped,
       CanEdit, TypeOK
  <2>3. currentUser'[d] = person
    BY <2>1 DEF Save, TypeOK
  <2>4. currentUser'[d] # NoPerson
    <3>1. PICK f \in Field, members \in SUBSET Value :
              Save(d, With(currentUser[d], f, members))
      BY <1>3, <2>2, OwnerAssumption, Fields DEF contactsButtonTapped,
         inviteButtonTapped, blockContact, unblockContact,
         inviteContact, uninviteContact, TypeOK, Person, Document, Me
    <3>2. With(currentUser[d], f, members) \in Person
      BY <2>2, <3>1, WithType
    <3> QED
      BY <3>1, <3>2, NoPersonAssumption DEF Save, TypeOK, Person
  <2> QED
    BY <2>4 DEF NothingForced
<1> QED
  BY <1>1, <1>2, <1>3 DEF UserStep

LEMMA MainStepForced ==
    ASSUME TypeInv, NEW d \in Device, MainStep(d)
    PROVE  NothingForced(d)'
<1> USE DEF TypeInv
<1>1. CASE contactFound(d) \/ contactSaved(d) \/ contactsFetched(d)
             \/ removeInvitedContacts(d)
  <2>1. main[d] # <<>> /\ main' = [main EXCEPT ![d] = Tail(@)]
    BY <1>1 DEF contactFound, contactSaved, contactsFetched, removeInvitedContacts, Runs
  <2>2. /\ Enqueued(d, "found")' => Enqueued(d, "found")
        /\ Enqueued(d, "saved")' => Enqueued(d, "saved")
        /\ Enqueued(d, "tripStored")' => Enqueued(d, "tripStored")
    BY <2>1, EnqueuedTail
  <2>3. CASE contactsFetched(d)
    BY <2>2, <2>3 DEF contactsFetched, NothingForced
  <2>4. CASE contactFound(d) \/ contactSaved(d) \/ removeInvitedContacts(d)
    <3>1. Enqueued(d, "found") \/ Enqueued(d, "saved") \/ Enqueued(d, "tripStored")
      BY <2>4 DEF contactFound, contactSaved, removeInvitedContacts, Runs, Enqueued, TypeOK
    <3>2. currentUser[d] # NoPerson
      BY <3>1 DEF NothingForced
    <3>3. currentUser'[d] # NoPerson
      <4>1. CASE contactSaved(d)
        BY <3>2, <4>1 DEF contactSaved
      <4>2. CASE contactFound(d)
        <5>1. Head(main[d]).people \in SUBSET User
          BY <4>2, BlockRun DEF contactFound, Callback
        <5>2. currentUser[d]["contacts"] \cup Head(main[d]).people \in SUBSET Value
          BY <3>2, <5>1, Fields DEF TypeOK, Person, Document
        <5>3. With(currentUser[d], "contacts",
                   currentUser[d]["contacts"] \cup Head(main[d]).people) \in Person
          BY <3>2, <5>2, WithType, Fields DEF TypeOK
        <5> QED
          BY <4>2, <5>3, NoPersonAssumption DEF contactFound, TypeOK, Person
      <4>3. CASE removeInvitedContacts(d)
        <5>1. With(currentUser[d], "invitedUsers", {}) \in Person
          BY <3>2, WithType, Fields DEF TypeOK
        <5> QED
          BY <4>3, <5>1, NoPersonAssumption DEF removeInvitedContacts, TypeOK, Person
      <4> QED
        BY <2>4, <4>1, <4>2, <4>3
    <3> QED
      BY <3>3 DEF NothingForced
  <2> QED
    BY <1>1, <2>3, <2>4
<1>2. CASE userInitialized(d)
  <2>1. Head(main[d]).person \in Person
    BY <1>2, BlockRun DEF userInitialized, Callback
  <2> QED
    BY <1>2, <2>1, NoPersonAssumption DEF userInitialized, TypeOK, NothingForced, Person
<1> QED
  BY <1>1, <1>2 DEF MainStep

LEMMA ClientStepForced ==
    ASSUME TypeInv, NEW d \in Device, ClientStep(d)
    PROVE  NothingForced(d)'
<1> USE DEF TypeInv
<1>1. CASE writeCommitted(d) \/ writeRejected(d)
  <2>0. queue[d] # <<>> /\ Answer(d) /\ currentUser' = currentUser
    BY <1>1 DEF writeCommitted, writeRejected
  <2> SUFFICES ASSUME currentUser[d] = NoPerson
               PROVE  /\ ~Enqueued(d, "found")'
                      /\ ~Enqueued(d, "saved")'
                      /\ ~Enqueued(d, "tripStored")'
                      /\ \A i \in DOMAIN queue'[d] : queue'[d][i].then = {}
    BY <2>0 DEF NothingForced
  <2>1. Head(queue[d]).then = {}
    BY <2>0 DEF NothingForced, TypeOK
  <2>2. main' = main
    BY <2>0, <2>1 DEF Answer
  <2>3. queue'[d] = Tail(queue[d])
    BY <2>0 DEF Answer, TypeOK
  <2>4. \A i \in DOMAIN queue'[d] : queue'[d][i].then = {}
    BY <2>0, <2>3 DEF NothingForced, TypeOK
  <2> QED
    BY <2>2, <2>4 DEF NothingForced, Enqueued
<1>2. CASE crash(d)
  <2>1. main'[d] = <<>>
    BY <1>2 DEF crash, TypeOK
  <2>2. queue'[d] = [i \in DOMAIN queue[d] |-> Restored(queue[d][i])]
    BY <1>2 DEF crash, TypeOK
  <2>3. \A i \in DOMAIN queue'[d] : queue'[d][i].then = {}
    BY <2>2 DEF Restored
  <2> QED
    BY <2>1, <2>3 DEF NothingForced, Enqueued
<1>3. CASE answerLost(d)
  BY <1>3 DEF answerLost, NothingForced, Enqueued
<1> QED
  BY <1>1, <1>2, <1>3 DEF ClientStep

LEMMA TypeInvStep == TypeInv /\ [Next]_vars => TypeInv'
<1> SUFFICES ASSUME TypeInv, [Next]_vars PROVE TypeInv'
  OBVIOUS
<1>1. CASE UNCHANGED vars
  BY <1>1 DEF vars, TypeInv, TypeOK, NothingForced, Enqueued
<1>2. ASSUME NEW d \in Device, UserStep(d) \/ MainStep(d) \/ ClientStep(d)
      PROVE  TypeInv'
  <2>1. Runs(d, "found") \/ Runs(d, "tripStored") => currentUser[d] # NoPerson
    BY DEF TypeInv, TypeOK, NothingForced, Runs, Enqueued
  <2>2. TypeOK'
    BY <1>2, <2>1, UserStepType, MainStepType, ClientStepType DEF TypeInv
  <2>3. NothingForced(d)'
    BY <1>2, UserStepForced, MainStepForced, ClientStepForced
  <2>4. ASSUME NEW e \in Device \ {d} PROVE NothingForced(e)'
    BY <1>2, OtherDevices DEF TypeInv, NothingForced, Enqueued
  <2> QED
    BY <2>2, <2>3, <2>4 DEF TypeInv
<1> QED
  BY <1>1, <1>2 DEF Next

\* Every reachable state is well typed: the records, queues and blocks are what the
\* code's classes allow.
THEOREM TypeCorrect == Spec => []TypeOK
<1>1. Init => TypeInv
  BY InitType DEF TypeInv, NothingForced, Init, Enqueued
<1>2. TypeInv => TypeOK
  BY DEF TypeInv
<1> QED
  BY <1>1, <1>2, TypeInvStep, PTL DEF Spec

\* Neither of the forced unwrappings of currentUser in addContactToUser and
\* addCurrentUser ever meets nil.
THEOREM ForcedUserIsPresent == Spec => []ForcedUserPresent
<1>1. Init => TypeInv
  BY InitType DEF TypeInv, NothingForced, Init, Enqueued
<1>2. TypeInv => ForcedUserPresent
  BY DEF TypeInv, NothingForced, ForcedUserPresent
<1> QED
  BY <1>1, <1>2, TypeInvStep, PTL DEF Spec

-----------------------------------------------------------------------------
(***************************************************************************)
(* The host stays on the invitation list.  A user gets off an own list only*)
(* when uninviteContact names him, so he must not be in any own table; and *)
(* he gets into one only through his own stored contacts.  Every copy of a *)
(* record has to agree, since each of them may become the next one.        *)
(***************************************************************************)

HostWrite(d, w) == HostInvited(w.to, w.data) /\ Me(d) \notin w.then

HostBlock(d, block) ==
    /\ Me(d) \notin block.people
    /\ block.kind = "reload" => HostInvited(Me(d), block.person)

HostDevice(d) ==
    /\ currentUser[d] # NoPerson => HostInvited(Me(d), currentUser[d])
    /\ Me(d) \notin shown[d]
    /\ \A i \in DOMAIN queue[d] : HostWrite(d, queue[d][i])
    /\ \A i \in DOMAIN main[d] : HostBlock(d, main[d][i])

HostInv ==
    /\ TypeInv
    /\ \A u \in User : HostInvited(u, users[u])
    /\ \A d \in Device : HostDevice(d)

\* Applying a write that names document k, and viewing k under a queue.
LEMMA HostApplied ==
    ASSUME NEW k, NEW doc \in Document, NEW w \in Write,
           HostInvited(k, doc), HostInvited(k, w.data)
    PROVE  HostInvited(k, Applied(doc, w))
BY Fields DEF HostInvited, Applied, Write, Document

LEMMA HostSeen ==
    ASSUME HostInv, NEW d \in Device, NEW u \in User
    PROVE  HostInvited(u, Seen(d, u))
<1>1. \A i \in DOMAIN queue[d] : queue[d][i].to = u => HostInvited(u, queue[d][i].data)
  BY DEF HostInv, HostDevice, HostWrite
<1>2. HostInvited(u, users[u])
  BY DEF HostInv
<1>3. u \notin LocalField(users[u], queue[d], u, "contacts")
  BY <1>1, <1>2 DEF LocalField, HostInvited
<1>4. ASSUME NEW x \in LocalField(users[u], queue[d], u, "invitedUsers")
      PROVE  u \in LocalField(users[u], queue[d], u, "invitedUsers")
  <2>1. u \in Value
    BY Fields
  <2>2. CASE x \in users[u]["invitedUsers"] /\ ~ReplacedFrom(queue[d], 1, u, "invitedUsers")
    <3>1. u \in users[u]["invitedUsers"]
      BY <1>2, <2>2 DEF HostInvited
    <3> QED
      BY <2>1, <2>2, <3>1 DEF LocalField
  <2>3. CASE \E i \in DOMAIN queue[d] :
                 /\ queue[d][i].to = u
                 /\ x \in queue[d][i].data["invitedUsers"]
                 /\ ~ReplacedFrom(queue[d], i + 1, u, "invitedUsers")
    <3>1. PICK i \in DOMAIN queue[d] :
                 /\ queue[d][i].to = u
                 /\ x \in queue[d][i].data["invitedUsers"]
                 /\ ~ReplacedFrom(queue[d], i + 1, u, "invitedUsers")
      BY <2>3
    <3>2. u \in queue[d][i].data["invitedUsers"]
      BY <1>1, <3>1 DEF HostInvited
    <3> QED
      BY <2>1, <3>1, <3>2 DEF LocalField
  <2> QED
    BY <1>4, <2>2, <2>3 DEF LocalField
<1> QED
  BY <1>3, <1>4, Fields DEF Seen, LocalDocument, HostInvited

\* A write appended to the queue, a block appended to the main thread.
LEMMA HostQueued ==
    ASSUME HostInv, NEW d \in Device, NEW w \in Write, HostWrite(d, w),
           queue' = [queue EXCEPT ![d] = Append(@, w)]
    PROVE  \A i \in DOMAIN queue'[d] : HostWrite(d, queue'[d][i])
<1>1. queue[d] \in Seq(Write) /\ queue'[d] = Append(queue[d], w)
  BY DEF HostInv, TypeInv, TypeOK
<1> QED
  BY <1>1 DEF HostInv, HostDevice

LEMMA HostBlockQueued ==
    ASSUME HostInv, NEW d \in Device, NEW block \in Callback, HostBlock(d, block),
           main' = [main EXCEPT ![d] = Append(@, block)]
    PROVE  \A i \in DOMAIN main'[d] : HostBlock(d, main'[d][i])
<1>1. main[d] \in Seq(Callback) /\ main'[d] = Append(main[d], block)
  BY DEF HostInv, TypeInv, TypeOK
<1> QED
  BY <1>1 DEF HostInv, HostDevice

LEMMA HostBlockRun ==
    ASSUME HostInv, NEW d \in Device, main[d] # <<>>,
           main' = [main EXCEPT ![d] = Tail(@)]
    PROVE  /\ HostBlock(d, Head(main[d]))
           /\ \A i \in DOMAIN main'[d] : HostBlock(d, main'[d][i])
<1>1. main[d] \in Seq(Callback) /\ main'[d] = Tail(main[d])
  BY DEF HostInv, TypeInv, TypeOK
<1> QED
  BY <1>1 DEF HostInv, HostDevice

\* Saving a good record.
LEMMA HostSave ==
    ASSUME HostInv, NEW d \in Device, NEW person \in Person, HostInvited(Me(d), person),
           Save(d, person)
    PROVE  HostDevice(d)'
<1>1. Me(d) \in User /\ Key = User
  BY OwnerAssumption, SchemaAssumption DEF Me
<1>2. SetData(Me(d), person, {}) \in Write
  BY <1>1, WriteTypes DEF Person
<1>3. HostWrite(d, SetData(Me(d), person, {}))
  BY DEF HostWrite, SetData
<1>4. \A i \in DOMAIN queue'[d] : HostWrite(d, queue'[d][i])
  BY <1>2, <1>3, HostQueued DEF Save
<1>5. currentUser'[d] = person /\ shown' = shown /\ main' = main
  BY DEF Save, HostInv, TypeInv, TypeOK
<1> QED
  BY <1>4, <1>5 DEF HostInv, HostDevice, HostWrite, HostBlock, Me

LEMMA HostEdit ==
    ASSUME HostInv, NEW d \in Device, currentUser[d] # NoPerson, NEW c \in shown[d],
           blockContact(d, c) \/ unblockContact(d, c)
              \/ inviteContact(d, c) \/ uninviteContact(d, c)
    PROVE  HostDevice(d)'
<1>. DEFINE person == currentUser[d]
<1>1. person \in Person /\ HostInvited(Me(d), person)
  BY DEF HostInv, HostDevice, TypeInv, TypeOK
<1>2. c \in User /\ c # Me(d) /\ Me(d) \in User
  BY OwnerAssumption DEF HostInv, HostDevice, TypeInv, TypeOK, Me
<1>3. /\ person["blockedUsers"] \subseteq Value
      /\ person["invitedUsers"] \subseteq Value
      /\ c \in Value /\ Me(d) \in Value
  BY <1>1, <1>2, Fields DEF Person, Document
<1>4. \A members \in SUBSET Value :
         /\ With(person, "blockedUsers", members) \in Person
         /\ HostInvited(Me(d), With(person, "blockedUsers", members))
  BY <1>1, WithType, Fields DEF With, HostInvited, Person, Document
<1>5. \A members \in SUBSET Value :
         (members # {} => Me(d) \in members) =>
            /\ With(person, "invitedUsers", members) \in Person
            /\ HostInvited(Me(d), With(person, "invitedUsers", members))
  BY <1>1, WithType, Fields DEF With, HostInvited, Person, Document
<1>6. CASE blockContact(d, c)
  BY <1>3, <1>4, <1>6, HostSave DEF blockContact
<1>7. CASE unblockContact(d, c)
  BY <1>3, <1>4, <1>7, HostSave DEF unblockContact
<1>8. CASE inviteContact(d, c)
  <2>. DEFINE list == person["invitedUsers"] \cup {c, Me(d)}
  <2>1. list \in SUBSET Value /\ Me(d) \in list
    BY <1>3
  <2> QED
    BY <1>5, <1>8, <2>1, HostSave DEF inviteContact
<1>9. CASE uninviteContact(d, c)
  <2>. DEFINE list == person["invitedUsers"] \ {c}
  <2>1. list \in SUBSET Value /\ (list # {} => Me(d) \in list)
    BY <1>1, <1>2, <1>3 DEF HostInvited
  <2> QED
    BY <1>5, <1>9, <2>1, HostSave DEF uninviteContact
<1> QED
  BY <1>6, <1>7, <1>8, <1>9

LEMMA HostUserStep ==
    ASSUME HostInv, SelfSearch = FALSE, NEW d \in Device, UserStep(d)
    PROVE  HostDevice(d)'
<1>0. Me(d) \in User /\ Key = User
  BY OwnerAssumption, SchemaAssumption DEF Me
<1>1. CASE contactsButtonTapped(d) \/ inviteButtonTapped(d)
  <2>1. PICK c \in shown[d] : \/ blockContact(d, c) \/ unblockContact(d, c)
                              \/ inviteContact(d, c) \/ uninviteContact(d, c)
    BY <1>1 DEF contactsButtonTapped, inviteButtonTapped
  <2>2. currentUser[d] # NoPerson
    BY <1>1 DEF contactsButtonTapped, inviteButtonTapped, CanEdit
  <2> QED
    BY <2>1, <2>2, HostEdit
<1>2. CASE tripStored(d)
  <2>1. Block("tripStored", {}) \in Callback
    BY BlockType DEF CallbackKind
  <2>2. HostBlock(d, Block("tripStored", {}))
    BY DEF HostBlock, Block
  <2>3. \A i \in DOMAIN main'[d] : HostBlock(d, main'[d][i])
    BY <1>2, <2>1, <2>2, HostBlockQueued DEF tripStored
  <2> QED
    BY <1>2, <2>3 DEF tripStored, HostInv, HostDevice, HostWrite, HostBlock, Me
<1>3. CASE updatePhoneNumber(d)
  <2>1. PICK number \in Number :
            queue' = [queue EXCEPT ![d] =
                Append(@, UpdateField(Me(d), "phoneNumber", number))]
    BY <1>3 DEF updatePhoneNumber
  <2>2. UpdateField(Me(d), "phoneNumber", number) \in Write
    BY <1>0, <2>1, Fields, WriteTypes DEF Number
  <2>3. HostWrite(d, UpdateField(Me(d), "phoneNumber", number))
    BY Fields DEF HostWrite, UpdateField, EmptyDocument, HostInvited
  <2>4. \A i \in DOMAIN queue'[d] : HostWrite(d, queue'[d][i])
    BY <2>1, <2>2, <2>3, HostQueued
  <2> QED
    BY <1>3, <2>4 DEF updatePhoneNumber, HostInv, HostDevice, HostWrite, HostBlock, Me
<1>4. CASE searchForContact(d)
  <2>1. PICK p \in Phone : /\ main' = [main EXCEPT ![d] = Append(@, Block("found", Matches(d, p)))]
                           /\ Me(d) \notin Matches(d, p)
    BY <1>4 DEF searchForContact
  <2>2. Block("found", Matches(d, p)) \in Callback /\ HostBlock(d, Block("found", Matches(d, p)))
    BY <2>1, BlockType DEF Matches, CallbackKind, HostBlock, Block
  <2>3. \A i \in DOMAIN main'[d] : HostBlock(d, main'[d][i])
    BY <2>1, <2>2, HostBlockQueued
  <2> QED
    BY <1>4, <2>3 DEF searchForContact, HostInv, HostDevice, HostWrite, HostBlock, Me
<1>5. CASE initializeUser(d)
  <2>. DEFINE block == RecordRead(Seen(d, Me(d)))
  <2>1. block \in Callback
    BY <1>0, SeenType DEF RecordRead, Callback
  <2>2. HostBlock(d, block)
    BY <1>0, HostSeen DEF HostBlock, RecordRead
  <2>3. \A i \in DOMAIN main'[d] : HostBlock(d, main'[d][i])
    BY <1>5, <2>1, <2>2, HostBlockQueued DEF initializeUser
  <2> QED
    BY <1>5, <2>3 DEF initializeUser, HostInv, HostDevice, HostWrite, HostBlock, Me
<1>6. CASE fetchContacts(d)
  <2>. DEFINE block == Block("contacts", Fetched(d))
  <2>1. block \in Callback
    BY BlockType DEF Fetched, CallbackKind
  <2>2. HostBlock(d, block)
    BY <1>0, HostSeen DEF HostBlock, Block, Fetched, HostInvited
  <2>3. \A i \in DOMAIN main'[d] : HostBlock(d, main'[d][i])
    BY <1>6, <2>1, <2>2, HostBlockQueued DEF fetchContacts
  <2> QED
    BY <1>6, <2>3 DEF fetchContacts, HostInv, HostDevice, HostWrite, HostBlock, Me
<1> QED
  BY <1>1, <1>2, <1>3, <1>4, <1>5, <1>6 DEF UserStep

\* The writes a match brings: none of them names the own user as a new contact.
LEMMA HostFound ==
    ASSUME HostInv, NEW d \in Device, currentUser[d] # NoPerson,
           NEW found \in SUBSET User, Me(d) \notin found,
           NEW people \in Listings(found), NEW i \in 1..Cardinality(found)
    PROVE  HostWrite(d, AddContactWrite(d, people, i))
<1>1. Cardinality(found) \in Nat
  BY UserAssumption, FS_Subset, FS_CardinalityType
<1>2. \A j \in 1..i : people[j] \in found
  BY <1>1 DEF Listings
<1>3. people[i] \in found
  BY <1>1, <1>2
<1>4. Me(d) \in User /\ currentUser[d] \in Person /\ HostInvited(Me(d), currentUser[d])
  BY OwnerAssumption DEF Me, HostInv, HostDevice, TypeInv, TypeOK
<1>5. CASE people[i] \in currentUser[d]["contacts"]
  <2>1. HostWrite(d, ArrayUnion(people[i], "contacts", {Me(d)}))
    BY <1>3, Fields DEF HostWrite, ArrayUnion, EmptyDocument, HostInvited
  <2> QED
    BY <1>5, <2>1 DEF AddContactWrite, addCurrentUser
<1>6. CASE people[i] \notin currentUser[d]["contacts"]
  <2>. DEFINE grown  == currentUser[d]["contacts"] \cup {people[j] : j \in 1..i}
              person == With(currentUser[d], "contacts", grown)
  <2>1. Me(d) \notin grown
    BY <1>2, <1>4 DEF HostInvited
  <2>2. HostInvited(Me(d), person)
    BY <1>4, <2>1, Fields DEF With, HostInvited, Person, Document
  <2>3. HostWrite(d, SetData(Me(d), person, {people[i]}))
    BY <1>3, <2>2 DEF HostWrite, SetData
  <2> QED
    BY <1>6, <2>3 DEF AddContactWrite
<1> QED
  BY <1>5, <1>6

LEMMA HostMainStep ==
    ASSUME HostInv, NEW d \in Device, MainStep(d)
    PROVE  HostDevice(d)'
<1>0. Me(d) \in User /\ Key = User
  BY OwnerAssumption, SchemaAssumption DEF Me
<1>1. /\ main[d] # <<>> /\ Head(main[d]) \in Callback
      /\ main' = [main EXCEPT ![d] = Tail(@)]
  BY BlockRun DEF MainStep, contactFound, contactSaved, removeInvitedContacts,
     userInitialized, contactsFetched, Runs, HostInv, TypeInv
<1>2. /\ HostBlock(d, Head(main[d]))
      /\ \A i \in DOMAIN main'[d] : HostBlock(d, main'[d][i])
  BY <1>1, HostBlockRun
<1>. DEFINE people == Head(main[d]).people
<1>3. people \in SUBSET User /\ Me(d) \notin people
  BY <1>1, <1>2 DEF Callback, HostBlock
<1>4. CASE contactFound(d)
  <2>1. currentUser[d] # NoPerson
    BY <1>4 DEF contactFound, Runs, Enqueued, HostInv, TypeInv, TypeOK, NothingForced
  <2>2. PICK list \in Listings(people) :
            queue' = [queue EXCEPT ![d] =
                @ \o [i \in 1..Cardinality(people) |-> AddContactWrite(d, list, i)]]
    BY <1>4 DEF contactFound
  <2>3. \A i \in DOMAIN queue'[d] : HostWrite(d, queue'[d][i])
    <3>. DEFINE added == [i \in 1..Cardinality(people) |-> AddContactWrite(d, list, i)]
    <3>1. currentUser[d] \in Person /\ queue[d] \in Seq(Write)
      BY <2>1 DEF HostInv, TypeInv, TypeOK
    <3>2. added \in Seq(Write)
      BY <1>3, <3>1, AddContactWriteType DEF HostInv, TypeInv
    <3>3. Cardinality(people) \in Nat
      BY <1>3, UserAssumption, FS_Subset, FS_CardinalityType
    <3>4. \A i \in 1..Cardinality(people) : HostWrite(d, added[i])
      BY <1>3, <2>1, HostFound
    <3>5. \A i \in DOMAIN added : HostWrite(d, added[i])
      BY <3>4
    <3>6. \A i \in DOMAIN queue[d] : HostWrite(d, queue[d][i])
      BY DEF HostInv, HostDevice
    <3>7. queue'[d] = queue[d] \o added
      BY <2>2 DEF HostInv, TypeInv, TypeOK
    <3> HIDE DEF added
    <3> QED
      BY <3>1, <3>2, <3>5, <3>6, <3>7
  <2>4. HostInvited(Me(d), currentUser'[d]) /\ shown' = shown
    <3>. DEFINE grown == currentUser[d]["contacts"] \cup people
    <3>1. currentUser[d] \in Person /\ HostInvited(Me(d), currentUser[d])
      BY <2>1 DEF HostInv, HostDevice, TypeInv, TypeOK
    <3>2. Me(d) \notin grown
      BY <1>3, <3>1 DEF HostInvited
    <3>3. HostInvited(Me(d), With(currentUser[d], "contacts", grown))
      BY <3>1, <3>2, Fields DEF With, HostInvited, Person, Document
    <3> QED
      BY <1>4, <3>3 DEF contactFound, HostInv, TypeInv, TypeOK
  <2> QED
    BY <1>2, <2>3, <2>4 DEF HostInv, HostDevice, HostWrite, HostBlock, Me
<1>5. CASE contactSaved(d)
  <2>1. PICK u \in people : queue' = [queue EXCEPT ![d] = Append(@, addCurrentUser(d, u))]
    BY <1>5 DEF contactSaved
  <2>2. addCurrentUser(d, u) \in Write
    BY <1>0, <1>3, Fields, WriteTypes DEF addCurrentUser
  <2>3. HostWrite(d, addCurrentUser(d, u))
    BY <1>3, Fields DEF addCurrentUser, HostWrite, ArrayUnion, EmptyDocument, HostInvited
  <2>4. \A i \in DOMAIN queue'[d] : HostWrite(d, queue'[d][i])
    BY <2>1, <2>2, <2>3, HostQueued
  <2> QED
    BY <1>2, <1>5, <2>4 DEF contactSaved, HostInv, HostDevice, HostWrite, HostBlock, Me
<1>6. CASE userInitialized(d)
  <2>1. HostInvited(Me(d), Head(main[d]).person)
    BY <1>2, <1>6 DEF userInitialized, Runs, HostBlock
  <2>2. currentUser'[d] = Head(main[d]).person /\ shown' = shown /\ queue' = queue
    BY <1>6 DEF userInitialized, HostInv, TypeInv, TypeOK
  <2> QED
    BY <1>2, <2>1, <2>2 DEF HostInv, HostDevice, HostWrite, HostBlock, Me
<1>7. CASE contactsFetched(d)
  <2>1. Me(d) \notin shown'[d]
    BY <1>3, <1>7 DEF contactsFetched, HostInv, HostDevice, TypeInv, TypeOK
  <2> QED
    BY <1>2, <1>7, <2>1 DEF contactsFetched, HostInv, HostDevice, HostWrite, HostBlock, Me
<1>8. CASE removeInvitedContacts(d)
  <2>. DEFINE person == With(currentUser[d], "invitedUsers", {})
  <2>1. currentUser[d] \in Person /\ HostInvited(Me(d), currentUser[d])
    BY <1>8 DEF removeInvitedContacts, Runs, Enqueued, HostInv, HostDevice, TypeInv, TypeOK,
       NothingForced
  <2>2. person \in Person
    BY <2>1, WithType, Fields
  <2>3. HostInvited(Me(d), person)
    BY <2>1, Fields DEF With, HostInvited, Person, Document
  <2>4. SetData(Me(d), person, {}) \in Write /\ HostWrite(d, SetData(Me(d), person, {}))
    BY <1>0, <2>2, <2>3, WriteTypes DEF Person, HostWrite, SetData
  <2>5. \A i \in DOMAIN queue'[d] : HostWrite(d, queue'[d][i])
    BY <1>8, <2>4, HostQueued DEF removeInvitedContacts
  <2>6. currentUser'[d] = person /\ shown' = shown
    BY <1>8 DEF removeInvitedContacts, HostInv, TypeInv, TypeOK
  <2> QED
    BY <1>2, <2>3, <2>5, <2>6 DEF HostInv, HostDevice, HostWrite, HostBlock, Me
<1> QED
  BY <1>4, <1>5, <1>6, <1>7, <1>8 DEF MainStep

LEMMA HostClientStep ==
    ASSUME HostInv, NEW d \in Device, ClientStep(d)
    PROVE  HostDevice(d)'
<1>1. CASE writeCommitted(d) \/ writeRejected(d)
  <2>0. queue[d] # <<>> /\ Answer(d) /\ currentUser' = currentUser /\ shown' = shown
    BY <1>1 DEF writeCommitted, writeRejected
  <2>1. queue[d] \in Seq(Write) /\ queue'[d] = Tail(queue[d])
    BY <2>0 DEF Answer, HostInv, TypeInv, TypeOK
  <2>2. Head(queue[d]) \in Write /\ HostWrite(d, Head(queue[d]))
    BY <2>0, <2>1 DEF HostInv, HostDevice
  <2>3. \A i \in DOMAIN queue'[d] : HostWrite(d, queue'[d][i])
    BY <2>0, <2>1 DEF HostInv, HostDevice
  <2>4. \A i \in DOMAIN main'[d] : HostBlock(d, main'[d][i])
    <3>. DEFINE then == Head(queue[d]).then
    <3>1. CASE then = {}
      BY <2>0, <3>1 DEF Answer, HostInv, HostDevice, HostBlock, Me
    <3>2. CASE then # {}
      <4>1. then \in SUBSET User /\ Me(d) \notin then
        BY <2>2, SchemaAssumption DEF Write, HostWrite
      <4>2. Block("saved", then) \in Callback
        BY <4>1, BlockType DEF CallbackKind
      <4>3. HostBlock(d, Block("saved", then))
        BY <4>1 DEF HostBlock, Block
      <4> QED
        BY <2>0, <3>2, <4>2, <4>3, HostBlockQueued DEF Answer
    <3> QED
      BY <3>1, <3>2
  <2> QED
    BY <2>0, <2>3, <2>4 DEF HostInv, HostDevice, HostWrite, HostBlock, Me
<1>2. CASE crash(d)
  <2>1. /\ currentUser'[d] = NoPerson /\ shown'[d] = {} /\ main'[d] = <<>>
        /\ queue'[d] = [i \in DOMAIN queue[d] |-> Restored(queue[d][i])]
    BY <1>2 DEF crash, HostInv, TypeInv, TypeOK
  <2>2. \A i \in DOMAIN queue'[d] : HostWrite(d, queue'[d][i])
    <3>1. \A i \in DOMAIN queue[d] : HostWrite(d, queue[d][i])
      BY DEF HostInv, HostDevice
    <3>2. \A i \in DOMAIN queue[d] : HostWrite(d, Restored(queue[d][i]))
      BY <3>1 DEF Restored, HostWrite, HostInvited
    <3> QED
      BY <2>1, <3>2
  <2>3. \A i \in DOMAIN main'[d] : HostBlock(d, main'[d][i])
    BY <2>1
  <2>4. currentUser'[d] = NoPerson /\ Me(d) \notin shown'[d]
    BY <2>1
  <2> QED
    BY <2>2, <2>3, <2>4 DEF HostDevice, HostWrite, HostBlock, Me
<1>3. CASE answerLost(d)
  BY <1>3 DEF answerLost, HostInv, HostDevice, HostWrite, HostBlock, Me
<1> QED
  BY <1>1, <1>2, <1>3 DEF ClientStep

LEMMA HostStored ==
    ASSUME HostInv, NEW d \in Device, UserStep(d) \/ MainStep(d) \/ ClientStep(d)
    PROVE  \A u \in User : HostInvited(u, users'[u])
<1>1. CASE writeCommitted(d) \/ answerLost(d)
  <2>. DEFINE w == Head(queue[d])
  <2>1. queue[d] \in Seq(Write) /\ queue[d] # <<>>
    BY <1>1 DEF writeCommitted, answerLost, HostInv, TypeInv, TypeOK
  <2>2. w \in Write /\ HostInvited(w.to, w.data)
    BY <2>1 DEF HostInv, HostDevice, HostWrite
  <2>3. users \in [User -> Document] /\ w.to \in User
    BY <2>2, SchemaAssumption DEF HostInv, TypeInv, TypeOK, Person, Write
  <2>4. HostInvited(w.to, Applied(users[w.to], w))
    BY <2>2, <2>3, HostApplied DEF HostInv
  <2>5. users' = [users EXCEPT ![w.to] = Applied(@, w)]
    BY <1>1 DEF writeCommitted, answerLost
  <2> QED
    BY <2>3, <2>4, <2>5 DEF HostInv
<1>2. CASE ~(writeCommitted(d) \/ answerLost(d))
  <2>1. users' = users
    BY <1>2 DEF UserStep, MainStep, ClientStep, contactsButtonTapped, inviteButtonTapped,
       blockContact, unblockContact, inviteContact, uninviteContact, tripStored,
       Save, updatePhoneNumber, searchForContact, initializeUser, fetchContacts,
       contactFound, contactSaved, removeInvitedContacts, userInitialized, contactsFetched,
       writeRejected, crash
  <2> QED
    BY <2>1 DEF HostInv
<1> QED
  BY <1>1, <1>2

LEMMA HostInvStep ==
    ASSUME SelfSearch = FALSE, HostInv, [Next]_vars
    PROVE  HostInv'
<1>0. TypeInv'
  BY TypeInvStep DEF HostInv
<1>1. CASE UNCHANGED vars
  BY <1>0, <1>1 DEF vars, HostInv, HostDevice, HostWrite, HostBlock, Me
<1>2. ASSUME NEW d \in Device, UserStep(d) \/ MainStep(d) \/ ClientStep(d)
      PROVE  HostInv'
  <2>1. \A u \in User : HostInvited(u, users'[u])
    BY <1>2, HostStored
  <2>2. HostDevice(d)'
    BY <1>2, HostUserStep, HostMainStep, HostClientStep
  <2>3. ASSUME NEW e \in Device \ {d} PROVE HostDevice(e)'
    BY <1>2, OtherDevices DEF HostInv, TypeInv, HostDevice, HostWrite, HostBlock, Me
  <2> QED
    BY <1>0, <2>1, <2>2, <2>3 DEF HostInv
<1> QED
  BY <1>1, <1>2 DEF Next

LEMMA HostInit == Init => HostInv
<1> SUFFICES ASSUME Init PROVE HostInv
  OBVIOUS
<1>1. TypeInv
  BY InitType DEF TypeInv, NothingForced, Init, Enqueued
<1>2. \A u \in User : HostInvited(u, users[u])
  <2>1. PICK number \in [User -> Number] :
            users = [u \in User |-> [EmptyDocument EXCEPT !["phoneNumber"] = number[u]]]
    BY DEF Init
  <2>2. \A u \in User : /\ users[u]["contacts"] = {}
                        /\ users[u]["invitedUsers"] = {}
    BY <2>1, Fields DEF EmptyDocument
  <2> QED
    BY <2>2 DEF HostInvited
<1>3. ASSUME NEW d \in Device PROVE HostDevice(d)
  <2>1. Me(d) \in User /\ currentUser[d] = users[Me(d)]
    BY OwnerAssumption DEF Init, Me
  <2>2. shown[d] = {} /\ queue[d] = <<>> /\ main[d] = <<>>
    BY DEF Init
  <2> QED
    BY <1>2, <2>1, <2>2 DEF HostDevice
<1> QED
  BY <1>1, <1>2, <1>3 DEF HostInv

\* As long as nobody looks up an own number, the host is on every invitation list
\* that is not empty, stored or in memory: with any number of users and devices,
\* several of them for one user, crashes, refused writes and racing reloads.
THEOREM HostStaysInvited ==
    ASSUME SelfSearch = FALSE PROVE Spec => []InvitesIncludeHost
<1>1. Init => HostInv
  BY HostInit
<1>2. HostInv => InvitesIncludeHost
  BY DEF HostInv, HostDevice, InvitesIncludeHost
<1>3. HostInv /\ [Next]_vars => HostInv'
  BY HostInvStep
<1> QED
  BY <1>1, <1>2, <1>3, PTL DEF Spec

-----------------------------------------------------------------------------
(***************************************************************************)
(* What a device sees does not change when the oldest of its writes moves  *)
(* from its queue to the backend.                                          *)
(***************************************************************************)

\* A write that is applied by the backend and leaves the queue changes nothing that
\* its device reads back, for any number of queued writes to any documents.
THEOREM AcknowledgedWritesDoNotFlicker == Spec => AckKeepsView
<1>1. ASSUME TypeInv, NEW d \in Device, writeCommitted(d), NEW u \in User
      PROVE  Seen(d, u)' = Seen(d, u)
  <2>. DEFINE w == Head(queue[d])
  <2>1. queue[d] \in Seq(Write) /\ queue[d] # <<>> /\ w \in Write
    BY <1>1 DEF TypeInv, TypeOK, writeCommitted
  <2>2. queue'[d] = Tail(queue[d])
    BY <1>1 DEF TypeInv, TypeOK, writeCommitted, Answer
  <2>3. users'[u] = IF w.to = u THEN Applied(users[u], w) ELSE users[u]
    BY <1>1, <2>1, SchemaAssumption DEF TypeInv, TypeOK, writeCommitted, Write
  <2>4. users[u] \in Document /\ u \in Key
    BY <1>1, SchemaAssumption DEF TypeInv, TypeOK, Person
  <2> QED
    BY <2>1, <2>2, <2>3, <2>4, ViewAfterHead DEF Seen
<1>2. Init => TypeInv
  BY InitType DEF TypeInv, NothingForced, Init, Enqueued
<1>3. TypeInv /\ [Next]_vars =>
         [\A d \in Device : writeCommitted(d) => \A u \in User : Seen(d, u)' = Seen(d, u)]_vars
  BY <1>1
<1> QED
  BY <1>2, <1>3, TypeInvStep, PTL DEF Spec, AckKeepsView

-----------------------------------------------------------------------------
(***************************************************************************)
(* Who changes a stored record: every queued write goes to the own record  *)
(* or adds the owner of the device to another record's contacts.           *)
(***************************************************************************)

AddsOnly(w, u) == w.replaces = {} /\ w.data = [EmptyDocument EXCEPT !["contacts"] = {u}]

MayWrite(d, w) == w.to = Me(d) \/ AddsOnly(w, Me(d))

WritesInv == TypeInv /\ \A d \in Device : \A i \in DOMAIN queue[d] : MayWrite(d, queue[d][i])

LEMMA OwnWriteMay ==
    ASSUME NEW d \in Device, NEW u, NEW doc, NEW then, NEW values, NEW f
    PROVE  /\ MayWrite(d, SetData(Me(d), doc, then))
           /\ MayWrite(d, UpdateField(Me(d), f, values))
           /\ MayWrite(d, addCurrentUser(d, u))
BY DEF MayWrite, AddsOnly, SetData, UpdateField, addCurrentUser, ArrayUnion

LEMMA WriteQueuedMay ==
    ASSUME WritesInv, NEW d \in Device, NEW w, MayWrite(d, w),
           queue' = [queue EXCEPT ![d] = Append(@, w)]
    PROVE  \A i \in DOMAIN queue'[d] : MayWrite(d, queue'[d][i])
<1>1. queue[d] \in Seq(Write) /\ queue'[d] = Append(queue[d], w)
  BY DEF WritesInv, TypeInv, TypeOK
<1> QED
  BY <1>1 DEF WritesInv

LEMMA UserStepMay ==
    ASSUME WritesInv, NEW d \in Device, UserStep(d)
    PROVE  \A i \in DOMAIN queue'[d] : MayWrite(d, queue'[d][i])
<1>1. ASSUME NEW person, Save(d, person)
      PROVE  \A i \in DOMAIN queue'[d] : MayWrite(d, queue'[d][i])
  BY <1>1, OwnWriteMay, WriteQueuedMay DEF Save
<1>2. CASE contactsButtonTapped(d) \/ inviteButtonTapped(d)
  BY <1>1, <1>2 DEF contactsButtonTapped, inviteButtonTapped,
     blockContact, unblockContact, inviteContact, uninviteContact
<1>3. CASE updatePhoneNumber(d)
  BY <1>3, OwnWriteMay, WriteQueuedMay DEF updatePhoneNumber
<1>4. CASE searchForContact(d) \/ initializeUser(d) \/ fetchContacts(d) \/ tripStored(d)
  BY <1>4 DEF searchForContact, initializeUser, fetchContacts, tripStored, WritesInv
<1> QED
  BY <1>2, <1>3, <1>4 DEF UserStep

LEMMA MainStepMay ==
    ASSUME WritesInv, NEW d \in Device, MainStep(d)
    PROVE  \A i \in DOMAIN queue'[d] : MayWrite(d, queue'[d][i])
<1>1. CASE contactFound(d)
  <2>. DEFINE found == Head(main[d]).people
  <2>1. found \in SUBSET User
    BY <1>1, BlockRun DEF contactFound, Callback, WritesInv, TypeInv
  <2>2. currentUser[d] \in Person
    BY <1>1 DEF contactFound, Runs, Enqueued, WritesInv, TypeInv, TypeOK, NothingForced
  <2>3. PICK people \in Listings(found) :
            queue' = [queue EXCEPT ![d] =
                @ \o [i \in 1..Cardinality(found) |-> AddContactWrite(d, people, i)]]
    BY <1>1 DEF contactFound
  <2>. DEFINE added == [i \in 1..Cardinality(found) |-> AddContactWrite(d, people, i)]
  <2>4. added \in Seq(Write)
    BY <2>1, <2>2, AddContactWriteType DEF WritesInv, TypeInv
  <2>5. \A i \in DOMAIN added : MayWrite(d, added[i])
    BY OwnWriteMay DEF AddContactWrite
  <2>6. queue[d] \in Seq(Write) /\ queue'[d] = queue[d] \o added
    BY <2>3 DEF WritesInv, TypeInv, TypeOK
  <2>7. \A i \in DOMAIN queue[d] : MayWrite(d, queue[d][i])
    BY DEF WritesInv
  <2> HIDE DEF added
  <2> QED
    BY <2>4, <2>5, <2>6, <2>7
<1>2. CASE contactSaved(d) \/ removeInvitedContacts(d)
  BY <1>2, OwnWriteMay, WriteQueuedMay DEF contactSaved, removeInvitedContacts
<1>3. CASE userInitialized(d) \/ contactsFetched(d)
  BY <1>3 DEF userInitialized, contactsFetched, WritesInv
<1> QED
  BY <1>1, <1>2, <1>3 DEF MainStep

LEMMA ClientStepMay ==
    ASSUME WritesInv, NEW d \in Device, ClientStep(d)
    PROVE  \A i \in DOMAIN queue'[d] : MayWrite(d, queue'[d][i])
<1>1. CASE writeCommitted(d) \/ writeRejected(d)
  <2>1. queue[d] \in Seq(Write) /\ queue[d] # <<>> /\ queue'[d] = Tail(queue[d])
    BY <1>1 DEF writeCommitted, writeRejected, Answer, WritesInv, TypeInv, TypeOK
  <2> QED
    BY <2>1 DEF WritesInv
<1>2. CASE crash(d)
  <2>1. queue'[d] = [i \in DOMAIN queue[d] |-> Restored(queue[d][i])]
    BY <1>2 DEF crash, WritesInv, TypeInv, TypeOK
  <2> QED
    BY <2>1 DEF Restored, MayWrite, AddsOnly, WritesInv
<1>3. CASE answerLost(d)
  BY <1>3 DEF answerLost, WritesInv
<1> QED
  BY <1>1, <1>2, <1>3 DEF ClientStep

LEMMA WritesInvStep == WritesInv /\ [Next]_vars => WritesInv'
<1> SUFFICES ASSUME WritesInv, [Next]_vars PROVE WritesInv'
  OBVIOUS
<1>0. TypeInv'
  BY TypeInvStep DEF WritesInv
<1>1. CASE UNCHANGED vars
  BY <1>0, <1>1 DEF vars, WritesInv, MayWrite, AddsOnly, Me
<1>2. ASSUME NEW d \in Device, UserStep(d) \/ MainStep(d) \/ ClientStep(d)
      PROVE  WritesInv'
  <2>1. \A i \in DOMAIN queue'[d] : MayWrite(d, queue'[d][i])
    BY <1>2, UserStepMay, MainStepMay, ClientStepMay
  <2>2. ASSUME NEW e \in Device \ {d}
        PROVE  \A i \in DOMAIN queue'[e] : MayWrite(e, queue'[e][i])
    BY <1>2, OtherDevices DEF WritesInv, TypeInv
  <2> QED
    BY <1>0, <2>1, <2>2 DEF WritesInv, MayWrite, AddsOnly, Me
<1> QED
  BY <1>1, <1>2 DEF Next

\* What another user's device may do to a stored record is to put its own user among
\* the contacts, nothing else: for any number of devices, crashes and refusals.
THEOREM StrangersOnlyAddThemselves == Spec => OthersOnlyAddThemselves
<1>. DEFINE Allowed(u) ==
        \E d \in Device :
           /\ queue[d] # <<>> /\ Head(queue[d]).to = u
           /\ \/ Me(d) = u
              \/ users'[u] = With(users[u], "contacts", users[u]["contacts"] \cup {Me(d)})
<1>1. ASSUME WritesInv, NEW d \in Device, UserStep(d) \/ MainStep(d) \/ ClientStep(d),
             NEW u \in User, users'[u] # users[u]
      PROVE  Allowed(u)
  <2>1. writeCommitted(d) \/ answerLost(d)
    BY <1>1 DEF UserStep, MainStep, ClientStep, contactsButtonTapped, inviteButtonTapped,
       blockContact, unblockContact, inviteContact, uninviteContact, tripStored,
       Save, updatePhoneNumber, searchForContact, initializeUser, fetchContacts,
       contactFound, contactSaved, removeInvitedContacts, userInitialized, contactsFetched,
       writeRejected, crash
  <2>. DEFINE w == Head(queue[d])
  <2>2. queue[d] \in Seq(Write) /\ queue[d] # <<>>
    BY <1>1, <2>1 DEF WritesInv, TypeInv, TypeOK, writeCommitted, answerLost
  <2>3. w \in Write /\ MayWrite(d, w)
    BY <1>1, <2>2 DEF WritesInv
  <2>4. w.to = u /\ users'[u] = Applied(users[u], w)
    BY <1>1, <2>1, <2>3, SchemaAssumption
    DEF WritesInv, TypeInv, TypeOK, writeCommitted, answerLost, Write
  <2>5. users[u] \in Document
    BY <1>1 DEF WritesInv, TypeInv, TypeOK, Person
  <2>6. CASE AddsOnly(w, Me(d))
    <3>1. Applied(users[u], w)
             = With(users[u], "contacts", users[u]["contacts"] \cup {Me(d)})
      BY <2>5, <2>6, Fields DEF Applied, AddsOnly, EmptyDocument, With, Document
    <3> QED
      BY <2>2, <2>4, <3>1
  <2> QED
    BY <2>2, <2>3, <2>4, <2>6 DEF MayWrite
<1>2. Init => WritesInv
  BY InitType DEF WritesInv, TypeInv, NothingForced, Init, Enqueued
<1>3. WritesInv /\ [Next]_vars => [\A u \in User : users'[u] # users[u] => Allowed(u)]_vars
  BY <1>1 DEF Next
<1> QED
  BY <1>2, <1>3, WritesInvStep, PTL DEF Spec, OthersOnlyAddThemselves

-----------------------------------------------------------------------------
(***************************************************************************)
(* A user's edits are not lost.  What the device reads back of its record  *)
(* agrees with the record in memory, and with every record that was read   *)
(* and waits to replace it.  The own writes bring the whole record, the    *)
(* phone number alone or the own UID, the others' add one contact; and the *)
(* block of a search or of a stored trip saves what is in memory when it   *)
(* runs, so that no record read before may wait behind it.                 *)
(***************************************************************************)

SeenOwn(d) == Seen(d, Me(d))

Kept(view, person) ==
    /\ view["blockedUsers"] = person["blockedUsers"]
    /\ view["invitedUsers"] = person["invitedUsers"]
    /\ person["contacts"] \subseteq view["contacts"]

\* A change of the view that loses nothing.
Grows(old, new) ==
    /\ new["blockedUsers"] = old["blockedUsers"]
    /\ new["invitedUsers"] = old["invitedUsers"]
    /\ old["contacts"] \subseteq new["contacts"]

OnlyNumber(w) ==
    /\ w.replaces = {"phoneNumber"}
    /\ \A f \in Field \ {"phoneNumber"} : w.data[f] = {}

WholeWrites(d) ==
    \A i \in DOMAIN queue[d] :
        queue[d][i].to = Me(d) =>
            queue[d][i].replaces = Field \/ OnlyNumber(queue[d][i]) \/ AddsOnly(queue[d][i], Me(d))

KeptRecords(d) ==
    /\ currentUser[d] # NoPerson => Kept(SeenOwn(d), currentUser[d])
    /\ \A i \in DOMAIN main[d] :
           main[d][i].kind = "reload" => Kept(SeenOwn(d), main[d][i].person)

\* The blocks that write the whole record back.
Saving == {"found", "tripStored"}

ReloadsFirst(d) ==
    \A i, j \in DOMAIN main[d] :
        main[d][i].kind \in Saving /\ main[d][j].kind = "reload" => j < i

DeviceKept(d) == WholeWrites(d) /\ KeptRecords(d) /\ ReloadsFirst(d)

\* Place i of the record: the stored one, or the write in place i of the queue, lists
\* the user as the own contact.
SelfAt(d, i) ==
    IF i = 0 THEN Me(d) \in users[Me(d)]["contacts"]
    ELSE queue[d][i].to = Me(d) /\ Me(d) \in queue[d][i].data["contacts"]

SelfSomewhere(d) == \E i \in 0..Len(queue[d]) : SelfAt(d, i)

SelfHeld(d) ==
    /\ currentUser[d] # NoPerson => Me(d) \in currentUser[d]["contacts"]
    /\ \A i \in DOMAIN main[d] :
           main[d][i].kind = "reload" => Me(d) \in main[d][i].person["contacts"]

\* A user who has become the own contact, by a search for the own number, stays it: in
\* memory and in every later save. The own UID is added to a record that has it.
SelfStays(d) ==
    /\ \A i \in 0..Len(queue[d]) : SelfAt(d, i) =>
           /\ SelfHeld(d)
           /\ \A j \in DOMAIN queue[d] :
                  j > i /\ queue[d][j].to = Me(d) /\ queue[d][j].replaces = Field => SelfAt(d, j)
    /\ \A i \in DOMAIN queue[d] :
           queue[d][i].to = Me(d) /\ queue[d][i].replaces = {} =>
               \E j \in 0..(i - 1) : SelfAt(d, j)
    /\ \A i \in DOMAIN queue[d] : Me(d) \in queue[d][i].then => SelfAt(d, i)
    /\ \A i \in DOMAIN main[d] :
           main[d][i].kind = "saved" /\ Me(d) \in main[d][i].people => SelfAt(d, 0)

KeptInv == WritesInv /\ \A d \in Device : DeviceKept(d) /\ SelfStays(d)

\* What the edits need to be safe: a reload's answer is awaited, no save is refused for
\* good, and a user has one device.
EditsAreSafe ==
    /\ ReloadRaces = FALSE
    /\ Refusable \subseteq {"updateData"}
    /\ \A d, e \in Device : Owner[d] = Owner[e] => d = e

LEMMA OwnTypes ==
    ASSUME TypeOK, NEW d \in Device
    PROVE  /\ Me(d) \in User /\ Me(d) \in Key /\ users[Me(d)] \in Document
           /\ queue[d] \in Seq(Write) /\ main[d] \in Seq(Callback)
           /\ SeenOwn(d) \in Document
           /\ SeenOwn(d) = LocalDocument(users[Me(d)], queue[d], Me(d))
           /\ currentUser[d] \in Document \cup {NoPerson}
<1>1. Me(d) \in User /\ Me(d) \in Key
  BY OwnerAssumption, SchemaAssumption DEF Me
<1>2. users[Me(d)] \in Document /\ currentUser[d] \in Document \cup {NoPerson}
  BY <1>1 DEF TypeOK, Person
<1>3. SeenOwn(d) \in Document
  BY <1>1, SeenType DEF SeenOwn, Person
<1> QED
  BY <1>1, <1>2, <1>3 DEF SeenOwn, Seen, TypeOK

LEMMA UnionGrows ==
    ASSUME NEW doc \in Document, NEW w, NEW u, AddsOnly(w, u)
    PROVE  Grows(doc, Applied(doc, w))
BY Fields DEF AddsOnly, Grows, Applied, EmptyDocument, Document

LEMMA GrownKept ==
    ASSUME NEW old, NEW new, NEW person, Grows(old, new), Kept(old, person)
    PROVE  Kept(new, person)
BY DEF Grows, Kept

\* A step that loses nothing of the view and brings no record to the device.
LEMMA StillKept ==
    ASSUME NEW d, KeptRecords(d), Grows(SeenOwn(d), SeenOwn(d)'),
           currentUser'[d] \in {currentUser[d], NoPerson},
           \A i \in DOMAIN main'[d] : main'[d][i].kind = "reload" =>
               \E j \in DOMAIN main[d] : main[d][j] = main'[d][i]
    PROVE  KeptRecords(d)'
<1>1. PICK old, new : old = SeenOwn(d) /\ new = SeenOwn(d)'
  OBVIOUS
<1>2. \A person : Kept(old, person) => Kept(new, person)
  BY <1>1, GrownKept
<1>3. currentUser'[d] # NoPerson => Kept(new, currentUser'[d])
  BY <1>1, <1>2 DEF KeptRecords
<1>4. \A i \in DOMAIN main'[d] :
          main'[d][i].kind = "reload" => Kept(new, main'[d][i].person)
  BY <1>1, <1>2 DEF KeptRecords
<1> QED
  BY <1>1, <1>3, <1>4 DEF KeptRecords

\* A write and a block that are appended.
LEMMA WholeAppend ==
    ASSUME TypeOK, NEW d \in Device, WholeWrites(d), NEW w \in Write,
           queue'[d] = Append(queue[d], w),
           w.to = Me(d) => w.replaces = Field \/ OnlyNumber(w) \/ AddsOnly(w, Me(d))
    PROVE  WholeWrites(d)'
<1>1. \A i \in DOMAIN queue'[d] : \/ i \in DOMAIN queue[d] /\ queue'[d][i] = queue[d][i]
                                  \/ queue'[d][i] = w
  BY OwnTypes, Elements
<1> QED
  BY <1>1 DEF WholeWrites, OnlyNumber, AddsOnly, Me

LEMMA BlockElements ==
    ASSUME TypeOK, NEW d \in Device, NEW block \in Callback,
           main'[d] = Append(main[d], block)
    PROVE  \A i \in DOMAIN main'[d] :
               \/ i \in DOMAIN main[d] /\ main'[d][i] = main[d][i]
               \/ i = Len(main[d]) + 1 /\ main'[d][i] = block
BY OwnTypes, Elements

LEMMA OrderAppend ==
    ASSUME TypeOK, NEW d \in Device, ReloadsFirst(d), NEW block \in Callback,
           main'[d] = Append(main[d], block),
           block.kind = "reload" => \A kind \in Saving : ~Enqueued(d, kind)
    PROVE  ReloadsFirst(d)'
<1>1. \A i \in DOMAIN main'[d] :
          \/ i \in DOMAIN main[d] /\ main'[d][i] = main[d][i]
          \/ i = Len(main[d]) + 1 /\ main'[d][i] = block
  BY BlockElements
<1>2. Len(main[d]) \in Nat /\ DOMAIN main[d] = 1..Len(main[d])
  BY OwnTypes, Elements
<1> SUFFICES ASSUME NEW i \in DOMAIN main'[d], NEW j \in DOMAIN main'[d],
                    main'[d][i].kind \in Saving, main'[d][j].kind = "reload"
             PROVE  j < i
  BY DEF ReloadsFirst
<1>3. CASE i \in DOMAIN main[d] /\ main'[d][i] = main[d][i]
  <2>1. \E kind \in Saving : Enqueued(d, kind)
    BY <1>3 DEF Enqueued
  <2>2. j \in DOMAIN main[d] /\ main'[d][j] = main[d][j]
    BY <1>1, <2>1
  <2> QED
    BY <1>3, <2>2 DEF ReloadsFirst
<1>4. CASE i = Len(main[d]) + 1 /\ main'[d][i] = block
  <2>1. j \in DOMAIN main[d]
    BY <1>1, <1>4 DEF Saving
  <2> QED
    BY <1>2, <1>4, <2>1
<1> QED
  BY <1>1, <1>3, <1>4

\* The first block is run: those behind it keep their order.
LEMMA BlockGone ==
    ASSUME TypeOK, NEW d \in Device, main[d] # <<>>, main'[d] = Tail(main[d])
    PROVE  /\ \A i \in DOMAIN main'[d] : i + 1 \in DOMAIN main[d] /\ main'[d][i] = main[d][i + 1]
           /\ ReloadsFirst(d) => ReloadsFirst(d)'
<1>1. /\ Len(main[d]) \in Nat /\ DOMAIN main[d] = 1..Len(main[d])
      /\ \A i \in DOMAIN main'[d] : i + 1 \in DOMAIN main[d] /\ main'[d][i] = main[d][i + 1]
  BY OwnTypes, Elements
<1>2. DOMAIN main'[d] \subseteq Nat
  BY OwnTypes
<1>3. ReloadsFirst(d) => ReloadsFirst(d)'
  <2> SUFFICES ASSUME ReloadsFirst(d), NEW i \in DOMAIN main'[d], NEW j \in DOMAIN main'[d],
                      main'[d][i].kind \in Saving, main'[d][j].kind = "reload"
               PROVE  j < i
    BY DEF ReloadsFirst
  <2>1. j + 1 < i + 1
    BY <1>1 DEF ReloadsFirst
  <2> QED
    BY <1>2, <2>1
<1> QED
  BY <1>1, <1>3

\* No record that was read waits behind the block of a search or of a stored trip.
LEMMA NoReloadBehind ==
    ASSUME TypeOK, NEW d \in Device, ReloadsFirst(d), NEW kind \in Saving, Runs(d, kind),
           main'[d] = Tail(main[d])
    PROVE  \A i \in DOMAIN main'[d] : main'[d][i].kind # "reload"
<1> SUFFICES ASSUME NEW i \in DOMAIN main'[d], main'[d][i].kind = "reload" PROVE FALSE
  OBVIOUS
<1>1. main[d] # <<>> /\ Head(main[d]).kind \in Saving
  BY DEF Runs
<1>2. 1 \in DOMAIN main[d] /\ main[d][1] = Head(main[d])
  BY <1>1, OwnTypes, Elements
<1>3. i + 1 \in DOMAIN main[d] /\ main[d][i + 1].kind = "reload"
  BY <1>1, BlockGone
<1>4. i + 1 < 1
  BY <1>1, <1>2, <1>3 DEF ReloadsFirst
<1>5. DOMAIN main[d] = 1..Len(main[d]) /\ Len(main[d]) \in Nat
  BY OwnTypes, Elements
<1> QED
  BY <1>3, <1>4, <1>5

\* A record that is saved is the record the device sees from then on.
LEMMA KeptSaved ==
    ASSUME TypeOK, NEW d \in Device, DeviceKept(d), NEW person \in Person,
           queue'[d] = Append(queue[d], SetData(Me(d), person, {})),
           currentUser'[d] = person, users' = users, ReloadsFirst(d)',
           \A i \in DOMAIN main'[d] : main'[d][i].kind # "reload"
    PROVE  DeviceKept(d)'
<1>1. PICK w : w = SetData(Me(d), person, {})
  OBVIOUS
<1>2. queue'[d] = Append(queue[d], w)
  BY <1>1
<1>3. w \in Write /\ w.to = Me(d) /\ w.replaces = Field /\ w.data = person
  BY <1>1, OwnTypes, WriteTypes DEF Person, SetData
<1>4. WholeWrites(d)'
  BY <1>2, <1>3, WholeAppend DEF DeviceKept
<1>5. SeenOwn(d)' = Applied(SeenOwn(d), w)
  <2>1. LocalDocument(users[Me(d)], Append(queue[d], w), Me(d))
            = Applied(LocalDocument(users[Me(d)], queue[d], Me(d)), w)
    BY <1>3, OwnTypes, ViewAppend
  <2> QED
    BY <1>2, <2>1 DEF SeenOwn, Seen, Me
<1>6. Kept(SeenOwn(d)', person)
  <2>1. \A f \in Field : Applied(SeenOwn(d), w)[f] = person[f]
    BY <1>3 DEF Applied
  <2> QED
    BY <1>5, <2>1, Fields DEF Kept
<1>7. KeptRecords(d)'
  BY <1>6 DEF KeptRecords
<1> QED
  BY <1>4, <1>7 DEF DeviceKept

LEMMA KeptSave ==
    ASSUME TypeOK, NEW d \in Device, DeviceKept(d), NEW person \in Person, Save(d, person),
           ~Enqueued(d, "reload")
    PROVE  DeviceKept(d)'
<1>1. /\ queue'[d] = Append(queue[d], SetData(Me(d), person, {}))
      /\ currentUser'[d] = person /\ users' = users /\ main' = main
  BY DEF Save, TypeOK
<1>2. ReloadsFirst(d)' /\ \A i \in DOMAIN main'[d] : main'[d][i].kind # "reload"
  BY <1>1 DEF DeviceKept, ReloadsFirst, Enqueued
<1> QED
  BY <1>1, <1>2, KeptSaved

\* A queued write to another record, of the number alone or of the own UID, loses nothing.
LEMMA AppendGrows ==
    ASSUME TypeOK, NEW d \in Device, NEW w \in Write,
           queue'[d] = Append(queue[d], w), users' = users,
           w.to = Me(d) => OnlyNumber(w) \/ AddsOnly(w, Me(d))
    PROVE  Grows(SeenOwn(d), SeenOwn(d)')
<1>1. SeenOwn(d)' = IF w.to = Me(d) THEN Applied(SeenOwn(d), w) ELSE SeenOwn(d)
  <2>1. LocalDocument(users[Me(d)], Append(queue[d], w), Me(d))
            = IF w.to = Me(d) THEN Applied(LocalDocument(users[Me(d)], queue[d], Me(d)), w)
              ELSE LocalDocument(users[Me(d)], queue[d], Me(d))
    BY OwnTypes, ViewAppend
  <2> QED
    BY <2>1 DEF SeenOwn, Seen, Me
<1>2. \A f \in Field \ {"phoneNumber"} :
          OnlyNumber(w) => Applied(SeenOwn(d), w)[f] = SeenOwn(d)[f]
  BY DEF Applied, OnlyNumber
<1>3. AddsOnly(w, Me(d)) => Grows(SeenOwn(d), Applied(SeenOwn(d), w))
  BY OwnTypes, UnionGrows
<1> QED
  BY <1>1, <1>2, <1>3, Fields DEF Grows

LEMMA KeptAppend ==
    ASSUME TypeOK, NEW d \in Device, DeviceKept(d), NEW w \in Write,
           queue'[d] = Append(queue[d], w), users' = users, currentUser'[d] = currentUser[d],
           main'[d] = main[d],
           w.to = Me(d) => OnlyNumber(w)
    PROVE  DeviceKept(d)'
<1>1. WholeWrites(d)'
  BY WholeAppend DEF DeviceKept
<1>2. Grows(SeenOwn(d), SeenOwn(d)')
  BY AppendGrows
<1>3. KeptRecords(d)'
  BY <1>2, StillKept DEF DeviceKept
<1> QED
  BY <1>1, <1>3 DEF DeviceKept, ReloadsFirst

\* A block is appended that brings no record, or the one that is seen now.
LEMMA KeptAsk ==
    ASSUME TypeOK, NEW d \in Device, DeviceKept(d), NEW block \in Callback,
           UNCHANGED <<users, queue, currentUser>>, main'[d] = Append(main[d], block),
           block.kind = "reload" =>
               block.person = SeenOwn(d) /\ \A kind \in Saving : ~Enqueued(d, kind)
    PROVE  DeviceKept(d)'
<1>1. SeenOwn(d)' = SeenOwn(d)
  BY DEF SeenOwn, Seen, Me
<1>2. WholeWrites(d)'
  BY DEF DeviceKept, WholeWrites, OnlyNumber, AddsOnly, Me
<1>3. ReloadsFirst(d)'
  BY OrderAppend DEF DeviceKept
<1>4. Kept(SeenOwn(d), SeenOwn(d))
  BY DEF Kept
<1>5. \A i \in DOMAIN main'[d] :
          main'[d][i].kind = "reload" => Kept(SeenOwn(d), main'[d][i].person)
  BY <1>4, BlockElements DEF DeviceKept, KeptRecords
<1>6. KeptRecords(d)'
  BY <1>1, <1>5 DEF DeviceKept, KeptRecords
<1> QED
  BY <1>2, <1>3, <1>6 DEF DeviceKept

LEMMA NoReload ==
    ASSUME EditsAreSafe, NEW d \in Device, NEW feature, CanEdit(d, feature)
    PROVE  ~Enqueued(d, "reload")
BY DEF EditsAreSafe, CanEdit

LEMMA KeptUserStep ==
    ASSUME KeptInv, EditsAreSafe, NEW d \in Device, UserStep(d)
    PROVE  DeviceKept(d)'
<1>0. TypeOK /\ DeviceKept(d)
  BY DEF KeptInv, WritesInv, TypeInv
<1>1. ASSUME NEW f \in Field, NEW members \in SUBSET Value, currentUser[d] # NoPerson,
             Save(d, With(currentUser[d], f, members)), ~Enqueued(d, "reload")
      PROVE  DeviceKept(d)'
  <2>1. With(currentUser[d], f, members) \in Person
    BY <1>0, <1>1, WithType DEF TypeOK
  <2> QED
    BY <1>0, <1>1, <2>1, KeptSave
<1>2. CASE contactsButtonTapped(d) \/ inviteButtonTapped(d)
  <2>1. PICK c \in shown[d] : \/ blockContact(d, c) \/ unblockContact(d, c)
                              \/ inviteContact(d, c) \/ uninviteContact(d, c)
    BY <1>2 DEF contactsButtonTapped, inviteButtonTapped
  <2>2. currentUser[d] # NoPerson /\ ~Enqueued(d, "reload")
    BY <1>2, NoReload DEF contactsButtonTapped, inviteButtonTapped, CanEdit
  <2>3. /\ currentUser[d]["blockedUsers"] \subseteq Value
        /\ currentUser[d]["invitedUsers"] \subseteq Value
        /\ c \in Value /\ Me(d) \in Value
    BY <1>0, <2>2, OwnTypes, Fields DEF TypeOK, Person, Document
  <2>4. PICK f \in Field, members \in SUBSET Value : Save(d, With(currentUser[d], f, members))
    <3>1. CASE blockContact(d, c)
      BY <2>3, <3>1, Fields DEF blockContact
    <3>2. CASE unblockContact(d, c)
      BY <2>3, <3>2, Fields DEF unblockContact
    <3>3. CASE inviteContact(d, c)
      BY <2>3, <3>3, Fields DEF inviteContact
    <3>4. CASE uninviteContact(d, c)
      BY <2>3, <3>4, Fields DEF uninviteContact
    <3> QED
      BY <2>1, <3>1, <3>2, <3>3, <3>4
  <2> QED
    BY <1>1, <2>2, <2>4
<1>4. CASE updatePhoneNumber(d)
  <2>1. PICK number \in Number :
            queue' = [queue EXCEPT ![d] =
                Append(@, UpdateField(Me(d), "phoneNumber", number))]
    BY <1>4 DEF updatePhoneNumber
  <2>2. PICK w : w = UpdateField(Me(d), "phoneNumber", number)
    OBVIOUS
  <2>3. w \in Write
    BY <1>0, <2>1, <2>2, OwnTypes, Fields, WriteTypes DEF Number
  <2>4. OnlyNumber(w)
    BY <2>2 DEF OnlyNumber, UpdateField, EmptyDocument
  <2>5. queue'[d] = Append(queue[d], w) /\ UNCHANGED <<users, currentUser, main>>
    BY <1>0, <1>4, <2>1, <2>2 DEF updatePhoneNumber, TypeOK
  <2> QED
    BY <1>0, <2>3, <2>4, <2>5, KeptAppend
<1>5. CASE searchForContact(d) \/ fetchContacts(d) \/ tripStored(d)
  <2>1. PICK kind \in {"found", "contacts", "tripStored"}, people \in SUBSET User :
            main' = [main EXCEPT ![d] = Append(@, Block(kind, people))]
    BY <1>5 DEF searchForContact, fetchContacts, tripStored, Matches, Fetched
  <2>2. PICK block : block = Block(kind, people)
    OBVIOUS
  <2>3. block \in Callback /\ block.kind # "reload"
    BY <2>2, BlockType DEF CallbackKind, Block
  <2>4. main'[d] = Append(main[d], block) /\ UNCHANGED <<users, queue, currentUser>>
    BY <1>0, <1>5, <2>1, <2>2 DEF searchForContact, fetchContacts, tripStored, TypeOK
  <2> QED
    BY <1>0, <2>3, <2>4, KeptAsk
<1>6. CASE initializeUser(d)
  <2>1. PICK block : block = RecordRead(SeenOwn(d))
    OBVIOUS
  <2>2. block \in Callback /\ block.person = SeenOwn(d)
    BY <1>0, <2>1, OwnTypes DEF RecordRead, Callback, Person
  <2>3. main'[d] = Append(main[d], block) /\ UNCHANGED <<users, queue, currentUser>>
    BY <1>0, <1>6, <2>1 DEF initializeUser, TypeOK, SeenOwn
  <2>4. \A kind \in Saving : ~Enqueued(d, kind)
    BY <1>6 DEF initializeUser, EditsAreSafe, Saving
  <2> QED
    BY <1>0, <2>2, <2>3, <2>4, KeptAsk
<1> QED
  BY <1>2, <1>4, <1>5, <1>6 DEF UserStep

-----------------------------------------------------------------------------
(***************************************************************************)
(* A search is answered.                                                   *)
(***************************************************************************)

\* A listing leaves nobody out.
LEMMA ListsEveryone ==
    ASSUME NEW found \in SUBSET User, NEW people \in Listings(found), NEW u \in found
    PROVE  \E j \in 1..Cardinality(found) : people[j] = u
<1> DEFINE n == Cardinality(found)
<1>1. IsFiniteSet(found) /\ n \in Nat
  BY UserAssumption, FS_Subset, FS_CardinalityType
<1> HIDE DEF n
<1>2. /\ people \in [1..n -> found]
      /\ \A i, j \in 1..n : people[i] = people[j] => i = j
  BY DEF Listings, n
<1>3. people \in Injection(1..n, found)
  BY <1>2 DEF Injection, IsInjective
<1>4. Cardinality(1..n) = n
  BY <1>1, FS_Interval
<1>5. people \in Surjection(1..n, found)
  BY <1>1, <1>3, <1>4, FS_Injection DEF n
<1> QED
  BY <1>5 DEF Surjection, n

\* The first i of the people listed.
Until(people, i) == {people[j] : j \in 1..i}

\* The device sees the record with everyone found among its contacts.
LEMMA FoundView ==
    ASSUME NEW d \in Device, NEW view \in Document, currentUser[d] \in Document,
           Kept(view, currentUser[d]),
           NEW found \in SUBSET User, NEW people \in Listings(found),
           NEW s \in Seq(Write), Len(s) = Cardinality(found),
           \A i \in 1..Cardinality(found) : s[i] = AddContactWrite(d, people, i)
    PROVE  Kept(LocalDocument(view, s, Me(d)),
                With(currentUser[d], "contacts", currentUser[d]["contacts"] \cup found))
<1> DEFINE n == Len(s)
           me == Me(d)
           person == currentUser[d]
           known == person["contacts"]
           then == With(person, "contacts", known \cup found)
           new == LocalDocument(view, s, me)
<1>1. n \in Nat /\ DOMAIN s = 1..n /\ n = Cardinality(found)
  OBVIOUS
<1>2. \A i \in 1..n : people[i] \in found
  BY <1>1 DEF Listings
<1>3. \A u \in found : \E i \in 1..n : people[i] = u
  BY <1>1, ListsEveryone
<1>4. \A i \in 1..n :
          /\ people[i] \in known => s[i].to = people[i] /\ AddsOnly(s[i], me)
          /\ people[i] \notin known =>
                 /\ s[i].to = me /\ s[i].replaces = Field
                 /\ s[i].data = With(person, "contacts", known \cup Until(people, i))
  <2> HIDE DEF n
  <2> SUFFICES ASSUME NEW i \in 1..n
               PROVE  /\ people[i] \in known => s[i].to = people[i] /\ AddsOnly(s[i], me)
                      /\ people[i] \notin known =>
                             /\ s[i].to = me /\ s[i].replaces = Field
                             /\ s[i].data = With(person, "contacts", known \cup Until(people, i))
    OBVIOUS
  <2>1. s[i] = AddContactWrite(d, people, i)
    BY <1>1
  <2>2. PICK w : w = s[i]
    OBVIOUS
  <2>3. w = AddContactWrite(d, people, i)
    BY <2>1, <2>2
  <2>4. people[i] \in known => w.to = people[i] /\ AddsOnly(w, me)
    BY <2>3 DEF AddContactWrite, addCurrentUser, ArrayUnion, SetData, AddsOnly, person
  <2>5. people[i] \notin known => w.to = me /\ w.replaces = Field
    BY <2>3 DEF AddContactWrite, addCurrentUser, ArrayUnion, SetData, AddsOnly, person
  <2>6. people[i] \notin known =>
            w.data = With(person, "contacts", known \cup Until(people, i))
    BY <2>3 DEF AddContactWrite, SetData, Until, person
  <2> QED
    BY <2>2, <2>4, <2>5, <2>6
<1>5. /\ then["blockedUsers"] = person["blockedUsers"]
      /\ then["invitedUsers"] = person["invitedUsers"]
      /\ then["contacts"] = known \cup found
  BY Fields DEF With, Document
<1>6. \A f \in Field : new[f] = LocalField(view, s, me, f)
  BY DEF LocalDocument
<1> HIDE DEF n, me, person, known, then, new
<1>7. \A i \in 1..n : people[i] \notin known =>
          /\ s[i].to = me
          /\ \A f \in Field : Replaces(s[i], me, f)
          /\ s[i].data["blockedUsers"] = person["blockedUsers"]
          /\ s[i].data["invitedUsers"] = person["invitedUsers"]
          /\ s[i].data["contacts"] = known \cup Until(people, i)
  <2> SUFFICES ASSUME NEW i \in 1..n, people[i] \notin known
               PROVE  /\ s[i].to = me
                      /\ \A f \in Field : Replaces(s[i], me, f)
                      /\ s[i].data["blockedUsers"] = person["blockedUsers"]
                      /\ s[i].data["invitedUsers"] = person["invitedUsers"]
                      /\ s[i].data["contacts"] = known \cup Until(people, i)
    OBVIOUS
  <2>1. /\ s[i].to = me /\ s[i].replaces = Field
        /\ s[i].data = With(person, "contacts", known \cup Until(people, i))
    BY <1>4
  <2>2. person \in Document
    BY DEF person
  <2> QED
    BY <2>1, <2>2, Fields DEF With, Document, Replaces
<1>8. \A i \in 1..n : people[i] \in known =>
          /\ \A f \in Field : ~Replaces(s[i], me, f)
          /\ s[i].data["blockedUsers"] = {} /\ s[i].data["invitedUsers"] = {}
  BY <1>4, Fields DEF AddsOnly, Replaces, EmptyDocument
<1>9. ASSUME NEW f \in {"blockedUsers", "invitedUsers"}
      PROVE  new[f] = person[f]
  <2>1. f \in Field /\ view[f] = person[f] /\ person[f] \subseteq Value
    BY Fields DEF Kept, person, Document
  <2>2. \A i \in 1..n : s[i].data[f] \subseteq person[f]
    BY <1>7, <1>8
  <2>6. \A i \in 1..n : Replaces(s[i], me, f) => s[i].data[f] = person[f]
    BY <1>7, <1>8, <2>1
  <2>3. LocalField(view, s, me, f) \subseteq person[f]
    BY <1>1, <2>1, <2>2 DEF LocalField
  <2>4. CASE ~ReplacedFrom(s, 1, me, f)
    BY <2>1, <2>3, <2>4, <1>6 DEF LocalField
  <2>5. CASE ReplacedFrom(s, 1, me, f)
    <3>1. PICK i \in 1..n : Replaces(s[i], me, f) /\ ~ReplacedFrom(s, i + 1, me, f)
      BY <1>1, <2>5, LastReplaces
    <3>4. s[i].data[f] = person[f]
      BY <2>6, <3>1
    <3>2. s[i].to = me /\ s[i].data[f] = person[f]
      BY <3>1, <3>4 DEF Replaces
    <3>3. person[f] \subseteq LocalField(view, s, me, f)
      BY <1>1, <2>1, <3>1, <3>2 DEF LocalField
    <3> QED
      BY <1>6, <2>1, <2>3, <3>3
  <2> QED
    BY <2>4, <2>5
<1>10. known \cup found \subseteq new["contacts"]
  <2>0. "contacts" \in Field /\ known \subseteq view["contacts"] /\ view["contacts"] \subseteq Value
    BY Fields DEF Kept, person, known, Document
  <2>1. CASE ~ReplacedFrom(s, 1, me, "contacts")
    <3>1. \A i \in 1..n : people[i] \in known
      <4> SUFFICES ASSUME NEW i \in 1..n, people[i] \notin known PROVE FALSE
        OBVIOUS
      <4>0. i >= 1
        BY <1>1
      <4>2. Replaces(s[i], me, "contacts")
        BY <1>7, <2>0
      <4> QED
        BY <1>1, <2>1, <4>0, <4>2 DEF ReplacedFrom
    <3>2. found \subseteq known
      BY <1>3, <3>1
    <3>3. view["contacts"] \subseteq LocalField(view, s, me, "contacts")
      BY <2>0, <2>1 DEF LocalField
    <3> QED
      BY <1>6, <2>0, <3>2, <3>3
  <2>2. CASE ReplacedFrom(s, 1, me, "contacts")
    <3>1. PICK i \in 1..n :
              Replaces(s[i], me, "contacts") /\ ~ReplacedFrom(s, i + 1, me, "contacts")
      BY <1>1, <2>2, LastReplaces
    <3>2. s[i].to = me
      BY <3>1 DEF Replaces
    <3>3. s[i].data["contacts"] = known \cup Until(people, i)
      BY <1>7, <1>8, <2>0, <3>1
    <3>4. ASSUME NEW u \in found PROVE u \in s[i].data["contacts"]
      <4>1. PICK j \in 1..n : people[j] = u
        BY <1>3
      <4>2. CASE j \in 1..i
        BY <3>3, <4>1, <4>2 DEF Until
      <4>3. CASE j \notin 1..i
        <5>1. j >= i + 1
          BY <1>1, <4>3
        <5>2. ~Replaces(s[j], me, "contacts")
          BY <1>1, <3>1, <5>1 DEF ReplacedFrom
        <5>3. people[j] \in known
          BY <1>7, <2>0, <5>2
        <5> QED
          BY <3>3, <4>1, <5>3
      <4> QED
        BY <4>2, <4>3
    <3>5. known \cup found \subseteq s[i].data["contacts"]
      BY <3>3, <3>4
    <3>6. found \subseteq Value
      BY Fields
    <3>7. known \cup found \subseteq LocalField(view, s, me, "contacts")
      BY <1>1, <2>0, <3>1, <3>2, <3>5, <3>6 DEF LocalField
    <3> QED
      BY <1>6, <2>0, <3>7
  <2> QED
    BY <2>1, <2>2
<1>11. Kept(new, then)
  BY <1>5, <1>9, <1>10 DEF Kept
<1> QED
  BY <1>11 DEF new, then, known, person, me

LEMMA KeptFound ==
    ASSUME KeptInv, NEW d \in Device, contactFound(d)
    PROVE  DeviceKept(d)'
<1>0. TypeOK /\ DeviceKept(d)
  BY DEF KeptInv, WritesInv, TypeInv
<1>1. PICK found : found = Head(main[d]).people
  OBVIOUS
<1>2. found \in SUBSET User /\ main[d] # <<>> /\ main[d][1].kind = "found" /\ 1 \in DOMAIN main[d]
  <2>1. Head(main[d]) \in Callback /\ Head(main[d]).kind = "found" /\ main[d] # <<>>
    BY <1>0, BlockRun DEF contactFound, Runs
  <2>2. Head(main[d]) = main[d][1] /\ 1 \in DOMAIN main[d]
    BY <1>0, <2>1, OwnTypes, Elements
  <2> QED
    BY <1>1, <2>1, <2>2 DEF Callback
<1>4. currentUser[d] # NoPerson
  BY <1>2 DEF Enqueued, KeptInv, WritesInv, TypeInv, NothingForced
<1>5. currentUser[d] \in Document /\ Kept(SeenOwn(d), currentUser[d])
  BY <1>0, <1>4, OwnTypes DEF DeviceKept, KeptRecords
<1>6. PICK people \in Listings(found) :
          queue' = [queue EXCEPT ![d] =
              @ \o [i \in 1..Cardinality(found) |-> AddContactWrite(d, people, i)]]
  BY <1>1 DEF contactFound
<1>7. PICK s : s = [i \in 1..Cardinality(found) |-> AddContactWrite(d, people, i)]
  OBVIOUS
<1>8. /\ s \in Seq(Write) /\ Len(s) = Cardinality(found)
      /\ \A i \in 1..Cardinality(found) : s[i] = AddContactWrite(d, people, i)
  <2>1. s \in Seq(Write)
    BY <1>0, <1>2, <1>5, <1>7, AddContactWriteType DEF Person
  <2>2. Cardinality(found) \in Nat
    BY <1>2, UserAssumption, FS_Subset, FS_CardinalityType
  <2> QED
    BY <1>7, <2>1, <2>2
<1>9. queue'[d] = queue[d] \o s /\ users' = users /\ main'[d] = Tail(main[d])
  BY <1>0, <1>6, <1>7 DEF contactFound, TypeOK
<1>10. PICK then : then = With(currentUser[d], "contacts", currentUser[d]["contacts"] \cup found)
  OBVIOUS
<1>11. currentUser'[d] = then
  BY <1>0, <1>1, <1>10 DEF contactFound, TypeOK
<1>12. Kept(SeenOwn(d)', then)
  <2>1. Kept(LocalDocument(SeenOwn(d), s, Me(d)), then)
    BY <1>0, <1>2, <1>5, <1>8, <1>10, FoundView, OwnTypes
  <2>2. LocalDocument(users[Me(d)], queue[d] \o s, Me(d))
            = LocalDocument(LocalDocument(users[Me(d)], queue[d], Me(d)), s, Me(d))
    BY <1>0, <1>8, OwnTypes, ViewConcat
  <2> QED
    BY <1>9, <2>1, <2>2 DEF SeenOwn, Seen, Me
<1>13. \A i \in DOMAIN main'[d] : main'[d][i].kind # "reload"
  BY <1>0, <1>9, NoReloadBehind DEF contactFound, DeviceKept, Saving
<1>14. WholeWrites(d)'
  <2>1. \A i \in 1..Len(s) : s[i].replaces = Field \/ AddsOnly(s[i], Me(d))
    <3> SUFFICES ASSUME NEW i \in 1..Len(s)
                 PROVE  s[i].replaces = Field \/ AddsOnly(s[i], Me(d))
      OBVIOUS
    <3>1. s[i] = AddContactWrite(d, people, i)
      BY <1>8
    <3>2. PICK w : w = s[i]
      OBVIOUS
    <3>3. w = AddContactWrite(d, people, i)
      BY <3>1, <3>2
    <3>4. w.replaces = Field \/ AddsOnly(w, Me(d))
      BY <3>3 DEF AddContactWrite, addCurrentUser, ArrayUnion, SetData, AddsOnly
    <3> QED
      BY <3>2, <3>4
  <2>2. \A i \in DOMAIN queue'[d] : \/ i \in DOMAIN queue[d] /\ queue'[d][i] = queue[d][i]
                                    \/ \E j \in 1..Len(s) : queue'[d][i] = s[j]
    <3>1. /\ Len(queue[d]) \in Nat /\ DOMAIN queue[d] = 1..Len(queue[d]) /\ Len(s) \in Nat
          /\ DOMAIN (queue[d] \o s) = 1..(Len(queue[d]) + Len(s))
          /\ \A i \in 1..Len(queue[d]) : (queue[d] \o s)[i] = queue[d][i]
          /\ \A i \in 1..Len(s) : (queue[d] \o s)[Len(queue[d]) + i] = s[i]
      BY <1>0, <1>8, OwnTypes, Concatenated
    <3> SUFFICES ASSUME NEW i \in 1..(Len(queue[d]) + Len(s)), i \notin 1..Len(queue[d])
                 PROVE  \E j \in 1..Len(s) : (queue[d] \o s)[i] = s[j]
      BY <1>9, <3>1
    <3>2. i - Len(queue[d]) \in 1..Len(s) /\ Len(queue[d]) + (i - Len(queue[d])) = i
      BY <3>1
    <3> QED
      BY <3>1, <3>2
  <2>3. \A i \in DOMAIN queue'[d] : queue'[d][i].to = Me(d) =>
            queue'[d][i].replaces = Field \/ OnlyNumber(queue'[d][i])
               \/ AddsOnly(queue'[d][i], Me(d))
    BY <1>0, <2>1, <2>2 DEF DeviceKept, WholeWrites
  <2> QED
    BY <2>3 DEF WholeWrites, OnlyNumber, AddsOnly, Me
<1>15. KeptRecords(d)'
  BY <1>11, <1>12, <1>13 DEF KeptRecords
<1>16. ReloadsFirst(d)'
  BY <1>13 DEF ReloadsFirst
<1> QED
  BY <1>14, <1>15, <1>16 DEF DeviceKept

\* The block of a stored trip saves the record in memory without its guests.
LEMMA KeptTripStored ==
    ASSUME KeptInv, NEW d \in Device, removeInvitedContacts(d)
    PROVE  DeviceKept(d)'
<1>0. TypeOK /\ DeviceKept(d)
  BY DEF KeptInv, WritesInv, TypeInv
<1>1. PICK person : person = With(currentUser[d], "invitedUsers", {})
  OBVIOUS
<1>2. person \in Person
  <2>1. currentUser[d] \in Person
    BY DEF removeInvitedContacts, Runs, Enqueued, KeptInv, WritesInv, TypeInv, TypeOK,
       NothingForced
  <2> QED
    BY <1>1, <2>1, WithType, Fields
<1>3. /\ queue'[d] = Append(queue[d], SetData(Me(d), person, {}))
      /\ currentUser'[d] = person /\ users' = users
      /\ main[d] # <<>> /\ main'[d] = Tail(main[d])
  BY <1>0, <1>1 DEF removeInvitedContacts, Runs, TypeOK
<1>4. \A i \in DOMAIN main'[d] : main'[d][i].kind # "reload"
  BY <1>0, <1>3, NoReloadBehind DEF removeInvitedContacts, DeviceKept, Saving
<1>5. ReloadsFirst(d)'
  BY <1>4 DEF ReloadsFirst
<1> QED
  BY <1>0, <1>2, <1>3, <1>4, <1>5, KeptSaved

LEMMA KeptMainStep ==
    ASSUME KeptInv, NEW d \in Device, MainStep(d)
    PROVE  DeviceKept(d)'
<1>0. TypeOK /\ DeviceKept(d)
  BY DEF KeptInv, WritesInv, TypeInv
<1>1. CASE contactSaved(d) \/ userInitialized(d) \/ contactsFetched(d)
  <2>1. main[d] # <<>> /\ main'[d] = Tail(main[d]) /\ users' = users
    BY <1>0, <1>1 DEF contactSaved, userInitialized, contactsFetched, Runs, TypeOK
  <2>2. /\ ReloadsFirst(d)'
        /\ \A i \in DOMAIN main'[d] : \E j \in DOMAIN main[d] : main[d][j] = main'[d][i]
    BY <1>0, <2>1, BlockGone DEF DeviceKept
  <2>3. 1 \in DOMAIN main[d] /\ Head(main[d]) = main[d][1]
    BY <1>0, <2>1, OwnTypes, Elements
  <2>4. CASE contactSaved(d)
    <3>1. PICK u \in Head(main[d]).people :
              queue' = [queue EXCEPT ![d] = Append(@, addCurrentUser(d, u))]
      BY <2>4 DEF contactSaved
    <3>2. u \in User
      BY <1>0, <2>4, <3>1, BlockRun DEF contactSaved, Callback
    <3>4. PICK w : w = addCurrentUser(d, u)
      OBVIOUS
    <3>5. w \in Write
      BY <1>0, <3>2, <3>4, Fields, WriteTypes, OwnTypes, SchemaAssumption DEF addCurrentUser
    <3>6. AddsOnly(w, Me(d))
      BY <3>4 DEF addCurrentUser, ArrayUnion, AddsOnly
    <3>7. queue'[d] = Append(queue[d], w) /\ currentUser' = currentUser
      BY <1>0, <2>4, <3>1, <3>4 DEF contactSaved, TypeOK
    <3>8. WholeWrites(d)'
      BY <1>0, <3>5, <3>6, <3>7, WholeAppend DEF DeviceKept
    <3>9. Grows(SeenOwn(d), SeenOwn(d)')
      BY <1>0, <2>1, <3>5, <3>6, <3>7, AppendGrows
    <3>10. KeptRecords(d)'
      BY <1>0, <2>2, <3>7, <3>9, StillKept DEF DeviceKept
    <3> QED
      BY <2>2, <3>8, <3>10 DEF DeviceKept
  <2>5. CASE userInitialized(d) \/ contactsFetched(d)
    <3>1. queue' = queue /\ SeenOwn(d)' = SeenOwn(d)
      BY <2>1, <2>5 DEF userInitialized, contactsFetched, SeenOwn, Seen, Me
    <3>2. WholeWrites(d)'
      BY <1>0, <3>1 DEF DeviceKept, WholeWrites, OnlyNumber, AddsOnly, Me
    <3>3. \A i \in DOMAIN main'[d] :
              main'[d][i].kind = "reload" => Kept(SeenOwn(d), main'[d][i].person)
      BY <1>0, <2>2 DEF DeviceKept, KeptRecords
    <3>4. currentUser'[d] # NoPerson => Kept(SeenOwn(d), currentUser'[d])
      <4>1. CASE userInitialized(d)
        <5>1. main[d][1].kind = "reload" /\ currentUser'[d] = main[d][1].person
          BY <1>0, <2>3, <4>1 DEF userInitialized, Runs, TypeOK
        <5> QED
          BY <1>0, <2>3, <5>1 DEF DeviceKept, KeptRecords
      <4>2. CASE contactsFetched(d)
        BY <1>0, <4>2 DEF contactsFetched, DeviceKept, KeptRecords
      <4> QED
        BY <2>5, <4>1, <4>2
    <3>5. KeptRecords(d)'
      BY <3>1, <3>3, <3>4 DEF KeptRecords
    <3> QED
      BY <2>2, <3>2, <3>5 DEF DeviceKept
  <2> QED
    BY <1>1, <2>4, <2>5
<1>2. CASE contactFound(d)
  BY <1>2, KeptFound
<1>3. CASE removeInvitedContacts(d)
  BY <1>3, KeptTripStored
<1> QED
  BY <1>1, <1>2, <1>3 DEF MainStep

-----------------------------------------------------------------------------
(***************************************************************************)
(* Answers, crashes and the other devices.                                 *)
(***************************************************************************)

\* A document that changes by what loses nothing is seen to lose nothing, whatever is
\* queued on top of it.
LEMMA GrowsUnderQueue ==
    ASSUME NEW old \in Document, NEW new \in Document, NEW q, NEW k, Grows(old, new)
    PROVE  Grows(LocalDocument(old, q, k), LocalDocument(new, q, k))
<1>1. \A f \in {"blockedUsers", "invitedUsers"} : LocalField(new, q, k, f) = LocalField(old, q, k, f)
  BY DEF Grows, LocalField
<1>2. LocalField(old, q, k, "contacts") \subseteq LocalField(new, q, k, "contacts")
  BY DEF Grows, LocalField
<1> QED
  BY <1>1, <1>2, Fields DEF Grows, LocalDocument

\* The head of the queue is answered: the view keeps everything if the write was
\* applied, and if it was refused and is not a save.
LEMMA KeptAnswer ==
    ASSUME TypeOK, NEW d \in Device, DeviceKept(d), queue[d] # <<>>, Answer(d),
           Grows(SeenOwn(d), SeenOwn(d)'), currentUser' = currentUser
    PROVE  DeviceKept(d)'
<1>1. queue'[d] = Tail(queue[d])
  BY DEF Answer, TypeOK
<1>2. WholeWrites(d)'
  <2>1. \A i \in DOMAIN queue'[d] : i + 1 \in DOMAIN queue[d] /\ queue'[d][i] = queue[d][i + 1]
    BY <1>1, OwnTypes, Elements
  <2>2. \A i \in DOMAIN queue'[d] : queue'[d][i].to = Me(d) =>
            queue'[d][i].replaces = Field \/ OnlyNumber(queue'[d][i])
               \/ AddsOnly(queue'[d][i], Me(d))
    BY <2>1 DEF DeviceKept, WholeWrites
  <2> QED
    BY <2>2 DEF WholeWrites, OnlyNumber, AddsOnly, Me
<1>3. Head(queue[d]).then \in SUBSET User
  <2>1. Head(queue[d]) \in Write
    BY OwnTypes
  <2> QED
    BY <2>1, SchemaAssumption DEF Write
<1>4. PICK block : block = Block("saved", Head(queue[d]).then)
  OBVIOUS
<1>5. block \in Callback /\ block.kind = "saved"
  BY <1>3, <1>4, BlockType DEF CallbackKind, Block
<1>6. CASE main'[d] = main[d]
  <2>1. ReloadsFirst(d)'
    BY <1>6 DEF DeviceKept, ReloadsFirst
  <2>2. KeptRecords(d)'
    BY <1>6, StillKept DEF DeviceKept
  <2> QED
    BY <1>2, <2>1, <2>2 DEF DeviceKept
<1>7. CASE main'[d] = Append(main[d], block)
  <2>1. ReloadsFirst(d)'
    BY <1>5, <1>7, OrderAppend DEF DeviceKept
  <2>2. \A i \in DOMAIN main'[d] : main'[d][i].kind = "reload" =>
            \E j \in DOMAIN main[d] : main[d][j] = main'[d][i]
    BY <1>5, <1>7, BlockElements
  <2>3. KeptRecords(d)'
    BY <2>2, StillKept DEF DeviceKept
  <2> QED
    BY <1>2, <2>1, <2>3 DEF DeviceKept
<1>8. main'[d] = main[d] \/ main'[d] = Append(main[d], block)
  BY <1>4 DEF Answer, TypeOK
<1> QED
  BY <1>6, <1>7, <1>8

LEMMA KeptClientStep ==
    ASSUME KeptInv, EditsAreSafe, NEW d \in Device, ClientStep(d)
    PROVE  DeviceKept(d)'
<1>0. TypeOK /\ DeviceKept(d)
  BY DEF KeptInv, WritesInv, TypeInv
<1>1. PICK w : w = Head(queue[d])
  OBVIOUS
<1>2. PICK doc, k, q : doc = users[Me(d)] /\ k = Me(d) /\ q = queue[d]
  OBVIOUS
<1>3. /\ doc \in Document /\ k \in Key /\ q \in Seq(Write) /\ w = Head(q)
      /\ SeenOwn(d) = LocalDocument(doc, q, k)
      /\ q # <<>> => w \in Write
  BY <1>0, <1>1, <1>2, OwnTypes
<1>4. \A view : Grows(view, view)
  BY DEF Grows
<1>5. CASE writeCommitted(d)
  <2>1. q # <<>> /\ queue'[d] = Tail(q) /\ Answer(d) /\ currentUser' = currentUser
    BY <1>0, <1>2, <1>5 DEF writeCommitted, Answer, TypeOK
  <2>2. users'[k] = IF w.to = k THEN Applied(doc, w) ELSE doc
    BY <1>0, <1>1, <1>2, <1>5, <1>3, SchemaAssumption DEF writeCommitted, TypeOK
  <2>3. SeenOwn(d)' = SeenOwn(d)
    <3>1. LocalDocument(IF w.to = k THEN Applied(doc, w) ELSE doc, Tail(q), k)
              = LocalDocument(doc, q, k)
      BY <1>3, <2>1, ViewAfterHead
    <3> QED
      BY <1>2, <1>3, <2>1, <2>2, <3>1 DEF SeenOwn, Seen, Me
  <2> QED
    BY <1>0, <1>2, <1>4, <2>1, <2>3, KeptAnswer
<1>6. CASE answerLost(d)
  <2>1. q # <<>> /\ UNCHANGED <<currentUser, queue, main>>
    BY <1>2, <1>6 DEF answerLost
  <2>2. users'[k] = IF w.to = k THEN Applied(doc, w) ELSE doc
    BY <1>0, <1>1, <1>2, <1>3, <1>6, SchemaAssumption DEF answerLost, TypeOK
  <2>3. SeenOwn(d)' = SeenOwn(d)
    <3>1. w.to = k => LocalDocument(Applied(doc, w), q, k) = LocalDocument(doc, q, k)
      BY <1>3, <2>1, ViewAnswerLost
    <3> QED
      BY <1>2, <1>3, <2>1, <2>2, <3>1 DEF SeenOwn, Seen, Me
  <2> QED
    BY <1>0, <2>1, <2>3 DEF DeviceKept, WholeWrites, OnlyNumber, AddsOnly, KeptRecords, ReloadsFirst, Me
<1>7. CASE writeRejected(d)
  <2>1. /\ q # <<>> /\ queue'[d] = Tail(q) /\ Answer(d) /\ UNCHANGED <<currentUser, users>>
        /\ w.replaces # Field
    <3>1. w.replaces # Field
      BY <1>1, <1>7 DEF writeRejected, Call, EditsAreSafe
    <3> QED
      BY <1>0, <1>2, <1>7, <3>1 DEF writeRejected, Answer, TypeOK
  <2>2. w.to = k => OnlyNumber(w) \/ (AddsOnly(w, k) /\ k \in doc["contacts"])
    <3>1. 1 \in DOMAIN q /\ w = q[1]
      BY <1>3, <2>1, Elements
    <3>2. w.to = k => OnlyNumber(w) \/ AddsOnly(w, k)
      BY <1>0, <1>2, <2>1, <3>1 DEF DeviceKept, WholeWrites
    <3>3. w.to = k /\ AddsOnly(w, k) => \E j \in 0..(1 - 1) : SelfAt(d, j)
      BY <1>2, <3>1 DEF KeptInv, SelfStays, AddsOnly
    <3> QED
      BY <1>2, <3>2, <3>3 DEF SelfAt
  <2>3. PICK applied : applied = IF w.to = k THEN Applied(doc, w) ELSE doc
    OBVIOUS
  <2>4. applied \in Document
    BY <1>3, <2>1, <2>3, AppliedType
  <2>5. Grows(applied, doc)
    <3>1. OnlyNumber(w) => Grows(Applied(doc, w), doc)
      BY Fields DEF Grows, Applied, OnlyNumber
    <3>2. AddsOnly(w, k) /\ k \in doc["contacts"] => Grows(Applied(doc, w), doc)
      BY <1>3, Fields DEF Grows, Applied, AddsOnly, EmptyDocument, Document
    <3> QED
      BY <1>4, <2>2, <2>3, <3>1, <3>2
  <2>6. LocalDocument(applied, Tail(q), k) = LocalDocument(doc, q, k)
    BY <1>3, <2>1, <2>3, ViewAfterHead
  <2>7. Grows(LocalDocument(applied, Tail(q), k), LocalDocument(doc, Tail(q), k))
    BY <1>3, <2>4, <2>5, GrowsUnderQueue
  <2>8. SeenOwn(d)' = LocalDocument(doc, Tail(q), k)
    BY <1>2, <2>1 DEF SeenOwn, Seen, Me
  <2> QED
    <3>1. Grows(SeenOwn(d), SeenOwn(d)')
      BY <1>3, <2>6, <2>7, <2>8
    <3>2. queue[d] # <<>> /\ Answer(d) /\ currentUser' = currentUser
      BY <1>2, <2>1
    <3> QED
      BY <1>0, <3>1, <3>2, KeptAnswer
<1>8. CASE crash(d)
  <2>1. /\ queue'[d] = [i \in DOMAIN q |-> Restored(q[i])] /\ main'[d] = <<>>
        /\ currentUser'[d] = NoPerson /\ users' = users
    BY <1>0, <1>2, <1>8 DEF crash, TypeOK
  <2>2. WholeWrites(d)'
    <3>1. DOMAIN queue'[d] = DOMAIN queue[d]
      BY <1>2, <2>1
    <3>2. \A i \in DOMAIN queue[d] : /\ queue'[d][i].to = queue[d][i].to
                                    /\ queue'[d][i].replaces = queue[d][i].replaces
                                    /\ queue'[d][i].data = queue[d][i].data
      BY <1>2, <2>1 DEF Restored
    <3> QED
      BY <1>0, <3>1, <3>2 DEF DeviceKept, WholeWrites, OnlyNumber, AddsOnly, Me
  <2>3. KeptRecords(d)' /\ ReloadsFirst(d)'
    BY <2>1 DEF KeptRecords, ReloadsFirst
  <2> QED
    BY <2>2, <2>3 DEF DeviceKept
<1> QED
  BY <1>5, <1>6, <1>7, <1>8 DEF ClientStep

\* What another device does to the record is to add its own user.
LEMMA KeptElsewhere ==
    ASSUME KeptInv, EditsAreSafe, NEW d \in Device, UserStep(d) \/ MainStep(d) \/ ClientStep(d),
           NEW e \in Device \ {d}
    PROVE  DeviceKept(e)'
<1>0. TypeOK /\ DeviceKept(e) /\ Me(e) # Me(d)
  BY DEF KeptInv, WritesInv, TypeInv, EditsAreSafe, Me
<1>1. /\ currentUser'[e] = currentUser[e]
      /\ queue'[e] = queue[e]
      /\ main'[e] = main[e]
  BY <1>0, OtherDevices
<1>2. PICK doc, new : doc = users[Me(e)] /\ new = users'[Me(e)]
  OBVIOUS
<1>3. Grows(doc, new) /\ doc \in Document /\ new \in Document
  <2>1. doc \in Document
    BY <1>0, <1>2, OwnTypes
  <2>2. CASE writeCommitted(d) \/ answerLost(d)
    <3>1. PICK w : w = Head(queue[d])
      OBVIOUS
    <3>2. queue[d] # <<>> /\ users' = [users EXCEPT ![w.to] = Applied(@, w)]
      BY <2>2, <3>1 DEF writeCommitted, answerLost
    <3>3. w \in Write /\ 1 \in DOMAIN queue[d] /\ w = queue[d][1]
      BY <1>0, <3>1, <3>2, OwnTypes, Elements
    <3>4. new = IF w.to = Me(e) THEN Applied(doc, w) ELSE doc
      BY <1>0, <1>2, <3>2, OwnTypes DEF TypeOK
    <3>5. MayWrite(d, w)
      BY <3>3 DEF KeptInv, WritesInv
    <3>6. w.to = Me(e) => AddsOnly(w, Me(d))
      BY <1>0, <3>5 DEF MayWrite
    <3>7. AddsOnly(w, Me(d)) => Grows(doc, Applied(doc, w))
      BY <2>1, UnionGrows
    <3>8. Grows(doc, doc)
      BY DEF Grows
    <3> QED
      BY <2>1, <3>3, <3>4, <3>6, <3>7, <3>8, AppliedType
  <2>3. CASE ~(writeCommitted(d) \/ answerLost(d))
    <3>1. users' = users
      BY <2>3 DEF UserStep, MainStep, ClientStep, contactsButtonTapped, inviteButtonTapped,
         blockContact, unblockContact, inviteContact, uninviteContact, tripStored,
         Save, updatePhoneNumber, searchForContact, initializeUser, fetchContacts,
         contactFound, contactSaved, removeInvitedContacts, userInitialized, contactsFetched,
         writeRejected, crash
    <3> QED
      BY <1>2, <2>1, <3>1 DEF Grows
  <2> QED
    BY <2>2, <2>3
<1>4. Grows(SeenOwn(e), SeenOwn(e)')
  <2>1. PICK q, k : q = queue[e] /\ k = Me(e)
    OBVIOUS
  <2>2. Grows(LocalDocument(doc, q, k), LocalDocument(new, q, k))
    BY <1>3, GrowsUnderQueue
  <2> QED
    BY <1>1, <1>2, <2>1, <2>2 DEF SeenOwn, Seen, Me
<1>5. WholeWrites(e)' /\ ReloadsFirst(e)'
  BY <1>0, <1>1 DEF DeviceKept, WholeWrites, OnlyNumber, AddsOnly, ReloadsFirst, Me
<1>6. KeptRecords(e)'
  BY <1>0, <1>1, <1>4, StillKept DEF DeviceKept
<1> QED
  BY <1>5, <1>6 DEF DeviceKept

-----------------------------------------------------------------------------
(***************************************************************************)
(* Users who look up their own number.                                     *)
(***************************************************************************)

\* The device sees the own UID among the contacts just when some place lists it.
LEMMA SelfSeen ==
    ASSUME TypeOK, NEW d \in Device, WholeWrites(d), SelfStays(d)
    PROVE  Me(d) \in SeenOwn(d)["contacts"] <=> SelfSomewhere(d)
<1>1. PICK doc, q, k : doc = users[Me(d)] /\ q = queue[d] /\ k = Me(d)
  OBVIOUS
<1>2. /\ doc \in Document /\ q \in Seq(Write) /\ k \in Value /\ "contacts" \in Field
      /\ Len(q) \in Nat /\ DOMAIN q = 1..Len(q)
  BY <1>1, OwnTypes, Elements, Fields
<1>3. SeenOwn(d)["contacts"] = LocalField(doc, q, k, "contacts")
  BY <1>1, <1>2, OwnTypes DEF LocalDocument
<1>4. \A i \in 1..Len(q) : SelfAt(d, i) <=> q[i].to = k /\ k \in q[i].data["contacts"]
  BY <1>1, <1>2 DEF SelfAt
<1>5. SelfAt(d, 0) <=> k \in doc["contacts"]
  BY <1>1 DEF SelfAt
<1>6. \A i \in 1..Len(q) : Replaces(q[i], k, "contacts") =>
          q[i].to = Me(d) /\ q[i].replaces = Field
  BY <1>1, <1>2, Fields DEF WholeWrites, Replaces, OnlyNumber, AddsOnly
<1>7. ASSUME Me(d) \in SeenOwn(d)["contacts"] PROVE SelfSomewhere(d)
  <2>1. CASE k \in doc["contacts"]
    BY <1>1, <1>2, <1>5, <2>1 DEF SelfSomewhere
  <2>2. CASE \E i \in 1..Len(q) : q[i].to = k /\ k \in q[i].data["contacts"]
    BY <1>1, <1>2, <1>4, <2>2 DEF SelfSomewhere
  <2> QED
    BY <1>1, <1>2, <1>3, <1>7, <2>1, <2>2 DEF LocalField
<1>8. ASSUME NEW i \in 0..Len(q), SelfAt(d, i) PROVE k \in LocalField(doc, q, k, "contacts")
  <2>1. CASE ~ReplacedFrom(q, i + 1, k, "contacts")
    <3>1. CASE i = 0
      BY <1>2, <1>5, <1>8, <2>1, <3>1 DEF LocalField
    <3>2. CASE i # 0
      BY <1>2, <1>4, <1>8, <2>1, <3>2 DEF LocalField
    <3> QED
      BY <3>1, <3>2
  <2>2. CASE ReplacedFrom(q, i + 1, k, "contacts")
    <3>1. PICK a \in 1..Len(q) : a >= i + 1 /\ Replaces(q[a], k, "contacts")
      BY <1>2, <2>2 DEF ReplacedFrom
    <3>2. ReplacedFrom(q, 1, k, "contacts")
      BY <1>2, <3>1 DEF ReplacedFrom
    <3>3. PICK j \in 1..Len(q) :
              Replaces(q[j], k, "contacts") /\ ~ReplacedFrom(q, j + 1, k, "contacts")
      BY <1>2, <3>2, LastReplaces
    <3>4. j > i
      BY <1>2, <3>1, <3>3 DEF ReplacedFrom
    <3>5. SelfAt(d, j)
      BY <1>1, <1>2, <1>6, <1>8, <3>3, <3>4 DEF SelfStays
    <3> QED
      BY <1>2, <1>4, <3>3, <3>5 DEF LocalField
  <2> QED
    BY <2>1, <2>2
<1> QED
  BY <1>1, <1>3, <1>7, <1>8 DEF SelfSomewhere

\* Writes are queued behind the others.
LEMMA SelfConcat ==
    ASSUME TypeOK, NEW d \in Device, SelfStays(d), users' = users,
           NEW s \in Seq(Write), queue'[d] = queue[d] \o s,
           SelfSomewhere(d) => SelfHeld(d)',
           \A i \in 1..Len(s) : s[i].to = Me(d) =>
               /\ SelfSomewhere(d) /\ s[i].replaces = Field => Me(d) \in s[i].data["contacts"]
               /\ Me(d) \in s[i].data["contacts"] =>
                      /\ SelfHeld(d)'
                      /\ \A j \in 1..Len(s) :
                             j > i /\ s[j].to = Me(d) /\ s[j].replaces = Field =>
                                 Me(d) \in s[j].data["contacts"]
               /\ s[i].replaces = {} => SelfSomewhere(d),
           \A i \in 1..Len(s) :
               Me(d) \in s[i].then => s[i].to = Me(d) /\ Me(d) \in s[i].data["contacts"],
           \A i \in DOMAIN main'[d] : main'[d][i].kind = "saved" =>
               \E j \in DOMAIN main[d] : main[d][j] = main'[d][i]
    PROVE  SelfStays(d)'
<1>1. PICK q, n, m : q = queue[d] /\ n = Len(q) /\ m = Len(s)
  OBVIOUS
<1>2. /\ n \in Nat /\ m \in Nat /\ DOMAIN q = 1..n /\ q \in Seq(Write)
      /\ DOMAIN queue'[d] = 1..(n + m) /\ Len(queue'[d]) = n + m
      /\ \A i \in 1..n : queue'[d][i] = q[i]
      /\ \A i \in 1..m : queue'[d][n + i] = s[i]
  <2>1. q \in Seq(Write) /\ queue'[d] = q \o s
    BY <1>1, OwnTypes
  <2>2. Len(q \o s) = n + m
    BY <1>1, <2>1
  <2> QED
    BY <1>1, <2>1, <2>2, Concatenated
<1>3. n \in Nat /\ m \in Nat
  BY <1>2
<1>4. \A i \in 0..n : SelfAt(d, i)' <=> SelfAt(d, i)
  BY <1>1, <1>2 DEF SelfAt, Me
<1>5. \A i \in (n + 1)..(n + m) :
          /\ i - n \in 1..m /\ queue'[d][i] = s[i - n]
          /\ SelfAt(d, i)' <=> s[i - n].to = Me(d) /\ Me(d) \in s[i - n].data["contacts"]
  <2> SUFFICES ASSUME NEW i \in (n + 1)..(n + m)
               PROVE  /\ i - n \in 1..m /\ queue'[d][i] = s[i - n]
                      /\ SelfAt(d, i)' <=>
                             s[i - n].to = Me(d) /\ Me(d) \in s[i - n].data["contacts"]
    OBVIOUS
  <2>1. i - n \in 1..m /\ n + (i - n) = i /\ i # 0
    BY <1>2
  <2>2. queue'[d][i] = s[i - n]
    BY <1>2, <2>1
  <2> QED
    BY <2>1, <2>2 DEF SelfAt, Me
<1>6. SelfSomewhere(d) <=> \E i \in 0..n : SelfAt(d, i)
  BY <1>1 DEF SelfSomewhere
<1>7. ASSUME NEW i \in 0..(n + m), SelfAt(d, i)'
      PROVE  /\ SelfHeld(d)'
             /\ \A j \in 1..(n + m) :
                    j > i /\ queue'[d][j].to = Me(d) /\ queue'[d][j].replaces = Field =>
                        SelfAt(d, j)'
  <2>1. CASE i \in 0..n
    <3>1. SelfAt(d, i) /\ SelfSomewhere(d)
      BY <1>4, <1>6, <1>7, <2>1
    <3>2. ASSUME NEW j \in 1..(n + m), j > i, queue'[d][j].to = Me(d),
                 queue'[d][j].replaces = Field
          PROVE  SelfAt(d, j)'
      <4>1. CASE j \in 1..n
        <5>1. j \in DOMAIN queue[d] /\ queue[d][j] = queue'[d][j]
          BY <1>1, <1>2, <4>1
        <5>2. SelfAt(d, j)
          BY <1>1, <2>1, <3>1, <3>2, <5>1 DEF SelfStays
        <5> QED
          BY <1>2, <1>4, <4>1, <5>2
      <4>2. CASE j \in (n + 1)..(n + m)
        BY <1>1, <1>5, <3>1, <3>2, <4>2
      <4> QED
        BY <1>2, <4>1, <4>2
    <3> QED
      BY <3>1, <3>2
  <2>2. CASE i \in (n + 1)..(n + m)
    <3>1. i - n \in 1..m /\ s[i - n].to = Me(d) /\ Me(d) \in s[i - n].data["contacts"]
      BY <1>5, <1>7, <2>2
    <3>2. ASSUME NEW j \in 1..(n + m), j > i, queue'[d][j].to = Me(d),
                 queue'[d][j].replaces = Field
          PROVE  SelfAt(d, j)'
      <4>1. j \in (n + 1)..(n + m) /\ j - n > i - n
        BY <1>3, <2>2, <3>2
      <4>2. j - n \in 1..m /\ queue'[d][j] = s[j - n]
        BY <1>5, <4>1
      <4> QED
        BY <1>1, <1>5, <3>1, <3>2, <4>1, <4>2
    <3> QED
      BY <1>1, <3>1, <3>2
  <2> QED
    BY <1>2, <2>1, <2>2
<1>8. ASSUME NEW i \in 1..(n + m), queue'[d][i].to = Me(d), queue'[d][i].replaces = {}
      PROVE  \E j \in 0..(i - 1) : SelfAt(d, j)'
  <2>1. CASE i \in 1..n
    <3>1. PICK j \in 0..(i - 1) : SelfAt(d, j)
      BY <1>1, <1>2, <1>8, <2>1 DEF SelfStays
    <3> QED
      BY <1>2, <1>4, <2>1, <3>1
  <2>2. CASE i \in (n + 1)..(n + m)
    <3>1. PICK a \in 1..m : queue'[d][i] = s[a]
      BY <1>5, <2>2
    <3>2. SelfSomewhere(d)
      BY <1>1, <1>8, <3>1
    <3>3. PICK j \in 0..n : SelfAt(d, j)
      BY <1>6, <3>2
    <3>4. j \in 0..(i - 1)
      BY <1>3, <2>2
    <3> QED
      BY <1>4, <3>3, <3>4
  <2> QED
    BY <1>2, <2>1, <2>2
<1>9. ASSUME NEW i \in 1..(n + m), Me(d) \in queue'[d][i].then
      PROVE  SelfAt(d, i)'
  <2>1. CASE i \in 1..n
    <3>1. i \in DOMAIN queue[d] /\ queue'[d][i] = queue[d][i]
      BY <1>1, <1>2, <2>1
    <3>2. SelfAt(d, i)
      BY <1>9, <3>1 DEF SelfStays
    <3>3. i \in 0..n
      BY <2>1
    <3> QED
      BY <1>4, <3>2, <3>3
  <2>2. CASE i \in (n + 1)..(n + m)
    BY <1>1, <1>5, <1>9, <2>2
  <2> QED
    BY <1>3, <2>1, <2>2
<1>10. ASSUME NEW i \in DOMAIN main'[d], main'[d][i].kind = "saved",
             Me(d) \in main'[d][i].people
      PROVE  SelfAt(d, 0)'
  <2>1. PICK j \in DOMAIN main[d] : main[d][j] = main'[d][i]
    BY <1>10
  <2>2. SelfAt(d, 0)
    BY <1>10, <2>1 DEF SelfStays
  <2>3. 0 \in 0..n
    BY <1>3
  <2> QED
    BY <1>4, <2>2, <2>3
<1> QED
  BY <1>2, <1>7, <1>8, <1>9, <1>10 DEF SelfStays, Me

\* The queue stays, and the stored record becomes that of its first write, at most.
LEMMA SelfApplied ==
    ASSUME TypeOK, NEW d \in Device, SelfStays(d),
           DOMAIN queue'[d] = DOMAIN queue[d], Len(queue'[d]) = Len(queue[d]),
           \A i \in DOMAIN queue[d] : /\ queue'[d][i].to = queue[d][i].to
                                      /\ queue'[d][i].replaces = queue[d][i].replaces
                                      /\ queue'[d][i].data = queue[d][i].data
                                      /\ queue'[d][i].then \subseteq queue[d][i].then,
           SelfAt(d, 0) => SelfAt(d, 0)',
           SelfAt(d, 0)' => SelfAt(d, 0) \/ (1 \in DOMAIN queue[d] /\ SelfAt(d, 1)),
           SelfHeld(d) => SelfHeld(d)',
           \A i \in DOMAIN main'[d] : main'[d][i].kind = "saved" =>
               \E j \in DOMAIN main[d] : main[d][j] = main'[d][i]
    PROVE  SelfStays(d)'
<1>1. Len(queue[d]) \in Nat /\ DOMAIN queue[d] = 1..Len(queue[d])
  BY OwnTypes, Elements
<1>2. \A i \in DOMAIN queue[d] : SelfAt(d, i)' <=> SelfAt(d, i)
  BY <1>1 DEF SelfAt, Me
<1>3. ASSUME NEW i \in 0..Len(queue[d]), SelfAt(d, i)'
      PROVE  /\ SelfHeld(d)'
             /\ \A j \in DOMAIN queue[d] :
                    j > i /\ queue[d][j].to = Me(d) /\ queue[d][j].replaces = Field =>
                        SelfAt(d, j)
  <2>1. CASE SelfAt(d, i)
    BY <2>1 DEF SelfStays
  <2>2. CASE ~SelfAt(d, i)
    <3>1. i = 0 /\ 1 \in DOMAIN queue[d] /\ SelfAt(d, 1)
      BY <1>1, <1>2, <1>3, <2>2
    <3>2. \A j \in DOMAIN queue[d] :
              j > 1 /\ queue[d][j].to = Me(d) /\ queue[d][j].replaces = Field => SelfAt(d, j)
      BY <1>1, <3>1 DEF SelfStays
    <3>3. SelfHeld(d)
      BY <1>1, <3>1 DEF SelfStays
    <3> QED
      BY <1>1, <3>1, <3>2, <3>3
  <2> QED
    BY <2>1, <2>2
<1>4. ASSUME NEW i \in DOMAIN queue[d], queue[d][i].to = Me(d), queue[d][i].replaces = {}
      PROVE  \E j \in 0..(i - 1) : SelfAt(d, j)'
  <2>1. PICK j \in 0..(i - 1) : SelfAt(d, j)
    BY <1>4 DEF SelfStays
  <2> QED
    BY <1>1, <1>2, <2>1
<1>5. \A i \in DOMAIN queue[d] : Me(d) \in queue[d][i].then => SelfAt(d, i)'
  BY <1>2 DEF SelfStays
<1>6. \A i \in DOMAIN main'[d] :
          main'[d][i].kind = "saved" /\ Me(d) \in main'[d][i].people => SelfAt(d, 0)'
  BY DEF SelfStays
<1> QED
  BY <1>2, <1>3, <1>4, <1>5, <1>6 DEF SelfStays, Me

\* The first write is answered.
LEMMA SelfAnswered ==
    ASSUME TypeOK, NEW d \in Device, SelfStays(d), queue[d] # <<>>, Answer(d),
           currentUser' = currentUser,
           SelfAt(d, 0)' <=> SelfAt(d, 0) \/ SelfAt(d, 1)
    PROVE  SelfStays(d)'
<1>1. PICK q, n, w : q = queue[d] /\ n = Len(q) - 1 /\ w = Head(q)
  OBVIOUS
<1>2. /\ n \in Nat /\ Len(q) = n + 1 /\ DOMAIN q = 1..(n + 1) /\ w = q[1] /\ w \in Write
      /\ queue'[d] = Tail(q) /\ Len(queue'[d]) = n /\ DOMAIN queue'[d] = 1..n
      /\ \A i \in 1..n : queue'[d][i] = q[i + 1]
  <2>1. queue'[d] = Tail(q) /\ q \in Seq(Write) /\ q # <<>>
    BY <1>1, OwnTypes DEF Answer, TypeOK
  <2> QED
    BY <1>1, <2>1
<1>3. \A i \in 1..n : SelfAt(d, i)' <=> SelfAt(d, i + 1)
  <2> SUFFICES ASSUME NEW i \in 1..n PROVE SelfAt(d, i)' <=> SelfAt(d, i + 1)
    OBVIOUS
  <2>1. i # 0 /\ i + 1 # 0 /\ queue'[d][i] = queue[d][i + 1]
    BY <1>1, <1>2
  <2> QED
    BY <2>1 DEF SelfAt, Me
<1>4. /\ main[d] \in Seq(Callback) /\ w.then \in SUBSET User
      /\ main'[d] = main[d] \/ main'[d] = Append(main[d], Block("saved", w.then))
  BY <1>1, <1>2, SchemaAssumption DEF Answer, TypeOK, Write
<1>5. PICK block : block = Block("saved", w.then)
  OBVIOUS
<1>6. \A i \in DOMAIN main'[d] : \/ \E j \in DOMAIN main[d] : main[d][j] = main'[d][i]
                                 \/ main'[d][i] = block
  <2>1. block \in Callback
    BY <1>4, <1>5, BlockType DEF CallbackKind
  <2> QED
    BY <1>4, <1>5, <2>1, BlockElements
<1>7. block.kind = "saved" /\ block.people = w.then
  BY <1>5 DEF Block
<1>8. SelfHeld(d) => SelfHeld(d)'
  BY <1>6, <1>7 DEF SelfHeld, Me
<1>9. ASSUME NEW i \in 0..n, SelfAt(d, i)'
      PROVE  \E a \in 0..(n + 1) : a <= i + 1 /\ SelfAt(d, a)
  <2>1. CASE i = 0
    BY <1>2, <1>9, <2>1
  <2>2. CASE i # 0
    BY <1>2, <1>3, <1>9, <2>2
  <2> QED
    BY <2>1, <2>2
<1>10. ASSUME NEW i \in 0..n, SelfAt(d, i)'
       PROVE  /\ SelfHeld(d)'
              /\ \A j \in 1..n :
                     j > i /\ queue'[d][j].to = Me(d) /\ queue'[d][j].replaces = Field =>
                         SelfAt(d, j)'
  <2>1. PICK a \in 0..(n + 1) : a <= i + 1 /\ SelfAt(d, a)
    BY <1>9, <1>10
  <2>2. SelfHeld(d) /\ \A j \in DOMAIN q :
            j > a /\ q[j].to = Me(d) /\ q[j].replaces = Field => SelfAt(d, j)
    BY <1>1, <1>2, <2>1 DEF SelfStays
  <2>3. ASSUME NEW j \in 1..n, j > i, queue'[d][j].to = Me(d), queue'[d][j].replaces = Field
        PROVE  SelfAt(d, j)'
    <3>1. j + 1 \in DOMAIN q /\ j + 1 > a
      BY <1>2, <2>1, <2>3
    <3> QED
      BY <1>2, <1>3, <2>2, <2>3, <3>1
  <2> QED
    BY <1>8, <2>2, <2>3
<1>11. ASSUME NEW i \in 1..n, queue'[d][i].to = Me(d), queue'[d][i].replaces = {}
       PROVE  \E j \in 0..(i - 1) : SelfAt(d, j)'
  <2>1. PICK j \in 0..((i + 1) - 1) : SelfAt(d, j)
    BY <1>1, <1>2, <1>11 DEF SelfStays
  <2>2. CASE j \in {0, 1}
    BY <1>2, <2>1, <2>2
  <2>3. CASE j > 1
    <3>1. j - 1 \in 1..n /\ (j - 1) + 1 = j /\ j - 1 \in 0..(i - 1)
      BY <1>2, <2>1, <2>3
    <3> QED
      BY <1>3, <2>1, <3>1
  <2> QED
    BY <1>2, <2>1, <2>2, <2>3
<1>12. \A i \in 1..n : Me(d) \in queue'[d][i].then => SelfAt(d, i)'
  <2> SUFFICES ASSUME NEW i \in 1..n, Me(d) \in queue'[d][i].then PROVE SelfAt(d, i)'
    OBVIOUS
  <2>1. i + 1 \in DOMAIN queue[d] /\ queue'[d][i] = queue[d][i + 1]
    BY <1>1, <1>2
  <2> QED
    BY <1>3, <2>1 DEF SelfStays
<1>13. ASSUME NEW i \in DOMAIN main'[d], main'[d][i].kind = "saved",
              Me(d) \in main'[d][i].people
       PROVE  SelfAt(d, 0)'
  <2>1. CASE \E j \in DOMAIN main[d] : main[d][j] = main'[d][i]
    BY <1>13, <2>1 DEF SelfStays
  <2>2. CASE main'[d][i] = block
    BY <1>1, <1>2, <1>7, <1>13, <2>2 DEF SelfStays
  <2> QED
    BY <1>6, <2>1, <2>2
<1> QED
  BY <1>2, <1>10, <1>11, <1>12, <1>13 DEF SelfStays, Me

\* A step that queues no write, and brings no record or one that is seen.
LEMMA SelfQuiet ==
    ASSUME TypeOK, NEW d \in Device, SelfStays(d), users' = users, queue'[d] = queue[d],
           SelfSomewhere(d) => SelfHeld(d)',
           \A i \in DOMAIN main'[d] : main'[d][i].kind = "saved" =>
               \E j \in DOMAIN main[d] : main[d][j] = main'[d][i]
    PROVE  SelfStays(d)'
<1>0. <<>> \in Seq(Write)
  OBVIOUS
<1>1. PICK s \in Seq(Write) : s = <<>>
  BY <1>0
<1>2. queue'[d] = queue[d] \o s /\ 1..Len(s) = {}
  BY <1>1, OwnTypes
<1> QED
  BY <1>2, SelfConcat

\* One write is queued that brings no block with the own UID.
LEMMA SelfAppend ==
    ASSUME TypeOK, NEW d \in Device, SelfStays(d), users' = users,
           NEW w \in Write, queue'[d] = Append(queue[d], w), Me(d) \notin w.then,
           SelfSomewhere(d) => SelfHeld(d)',
           w.to = Me(d) =>
               /\ SelfSomewhere(d) /\ w.replaces = Field => Me(d) \in w.data["contacts"]
               /\ Me(d) \in w.data["contacts"] => SelfHeld(d)'
               /\ w.replaces = {} => SelfSomewhere(d),
           \A i \in DOMAIN main'[d] : main'[d][i].kind = "saved" =>
               \E j \in DOMAIN main[d] : main[d][j] = main'[d][i]
    PROVE  SelfStays(d)'
<1>0. <<w>> \in Seq(Write)
  OBVIOUS
<1>1. PICK s \in Seq(Write) : s = <<w>>
  BY <1>0
<1>2. queue'[d] = queue[d] \o s
  BY <1>1, OwnTypes
<1>3. 1..Len(s) = {1} /\ s[1] = w
  BY <1>1
<1> QED
  BY <1>2, <1>3, SelfConcat

\* A record is saved that has the contacts of the one in memory.
LEMMA SelfSaved ==
    ASSUME TypeOK, NEW d \in Device, SelfStays(d), currentUser[d] # NoPerson,
           NEW person \in Person, person["contacts"] = currentUser[d]["contacts"],
           queue'[d] = Append(queue[d], SetData(Me(d), person, {})),
           currentUser'[d] = person, users' = users,
           \A i \in DOMAIN main'[d] : /\ main'[d][i].kind # "reload"
                                      /\ \E j \in DOMAIN main[d] : main[d][j] = main'[d][i]
    PROVE  SelfStays(d)'
<1>1. PICK w : w = SetData(Me(d), person, {})
  OBVIOUS
<1>2. w \in Write /\ w.to = Me(d) /\ w.data = person /\ w.then = {} /\ w.replaces = Field
  BY <1>1, OwnTypes, WriteTypes DEF Person, SetData
<1>3. SelfHeld(d)' <=> Me(d) \in person["contacts"]
  <2>1. person # NoPerson
    BY NoPersonAssumption DEF Person
  <2> QED
    BY <2>1 DEF SelfHeld, Me
<1>4. SelfSomewhere(d) => Me(d) \in person["contacts"]
  BY DEF SelfSomewhere, SelfStays, SelfHeld
<1>5. w.replaces # {}
  BY <1>2, Fields
<1>6. queue'[d] = Append(queue[d], w)
  BY <1>1
<1> QED
  BY <1>2, <1>3, <1>4, <1>5, <1>6, SelfAppend

LEMMA SelfUserStep ==
    ASSUME KeptInv, EditsAreSafe, NEW d \in Device, UserStep(d)
    PROVE  SelfStays(d)'
<1>0. TypeOK /\ DeviceKept(d) /\ SelfStays(d)
  BY DEF KeptInv, WritesInv, TypeInv
<1>1. SelfSomewhere(d) => SelfHeld(d)
  BY <1>0 DEF SelfSomewhere, SelfStays
<1>2. ASSUME NEW f \in Field \ {"contacts"}, NEW members \in SUBSET Value,
             currentUser[d] # NoPerson,
             Save(d, With(currentUser[d], f, members)), ~Enqueued(d, "reload")
      PROVE  SelfStays(d)'
  <2>1. PICK person : person = With(currentUser[d], f, members)
    OBVIOUS
  <2>2. person \in Person /\ person["contacts"] = currentUser[d]["contacts"]
    BY <1>0, <1>2, <2>1, WithType, Fields DEF TypeOK, With, Person, Document
  <2>3. /\ queue'[d] = Append(queue[d], SetData(Me(d), person, {}))
        /\ currentUser'[d] = person /\ users' = users /\ main' = main
    BY <1>0, <1>2, <2>1 DEF Save, TypeOK
  <2>4. \A i \in DOMAIN main'[d] : /\ main'[d][i].kind # "reload"
                                   /\ \E j \in DOMAIN main[d] : main[d][j] = main'[d][i]
    BY <1>2, <2>3 DEF Enqueued
  <2> QED
    BY <1>0, <1>2, <2>2, <2>3, <2>4, SelfSaved
<1>3. CASE contactsButtonTapped(d) \/ inviteButtonTapped(d)
  <2>1. PICK c \in shown[d] : \/ blockContact(d, c) \/ unblockContact(d, c)
                              \/ inviteContact(d, c) \/ uninviteContact(d, c)
    BY <1>3 DEF contactsButtonTapped, inviteButtonTapped
  <2>2. currentUser[d] # NoPerson /\ ~Enqueued(d, "reload")
    BY <1>3, NoReload DEF contactsButtonTapped, inviteButtonTapped, CanEdit
  <2>3. /\ currentUser[d]["blockedUsers"] \subseteq Value
        /\ currentUser[d]["invitedUsers"] \subseteq Value
        /\ c \in Value /\ Me(d) \in Value
    BY <1>0, <2>2, OwnTypes, Fields DEF TypeOK, Person, Document
  <2>4. PICK f \in Field \ {"contacts"}, members \in SUBSET Value :
            Save(d, With(currentUser[d], f, members))
    <3>1. CASE blockContact(d, c)
      BY <2>3, <3>1, Fields DEF blockContact
    <3>2. CASE unblockContact(d, c)
      BY <2>3, <3>2, Fields DEF unblockContact
    <3>3. CASE inviteContact(d, c)
      BY <2>3, <3>3, Fields DEF inviteContact
    <3>4. CASE uninviteContact(d, c)
      BY <2>3, <3>4, Fields DEF uninviteContact
    <3> QED
      BY <2>1, <3>1, <3>2, <3>3, <3>4
  <2> QED
    BY <1>2, <2>2, <2>4
<1>5. CASE updatePhoneNumber(d)
  <2>1. PICK number \in Number :
            queue' = [queue EXCEPT ![d] =
                Append(@, UpdateField(Me(d), "phoneNumber", number))]
    BY <1>5 DEF updatePhoneNumber
  <2>2. PICK w : w = UpdateField(Me(d), "phoneNumber", number)
    OBVIOUS
  <2>3. w \in Write
    BY <1>0, <2>1, <2>2, OwnTypes, Fields, WriteTypes DEF Number
  <2>4. /\ w.then = {} /\ w.replaces = {"phoneNumber"}
        /\ w.data["contacts"] = {}
    BY <2>2, Fields DEF UpdateField, EmptyDocument
  <2>5. w.replaces # Field
    BY <2>4, Fields
  <2>6. queue'[d] = Append(queue[d], w) /\ UNCHANGED <<users, currentUser, main>>
    BY <1>0, <1>5, <2>1, <2>2 DEF updatePhoneNumber, TypeOK
  <2>7. SelfHeld(d)' <=> SelfHeld(d)
    BY <2>6 DEF SelfHeld, Me
  <2> QED
    BY <1>0, <1>1, <2>3, <2>4, <2>5, <2>6, <2>7, SelfAppend
<1>6. ASSUME NEW block \in Callback, block.kind # "saved",
             block.kind = "reload" => block.person = SeenOwn(d),
             main'[d] = Append(main[d], block), UNCHANGED <<users, queue, currentUser>>
      PROVE  SelfStays(d)'
  <2>1. \A i \in DOMAIN main'[d] : \/ i \in DOMAIN main[d] /\ main'[d][i] = main[d][i]
                                   \/ main'[d][i] = block
    BY <1>0, <1>6, BlockElements
  <2>2. SelfSomewhere(d) => Me(d) \in SeenOwn(d)["contacts"]
    BY <1>0, SelfSeen DEF DeviceKept
  <2>3. ASSUME SelfSomewhere(d) PROVE SelfHeld(d)'
    <3>1. \A i \in DOMAIN main'[d] :
              main'[d][i].kind = "reload" => Me(d) \in main'[d][i].person["contacts"]
      BY <1>1, <1>6, <2>1, <2>2, <2>3 DEF SelfHeld
    <3> QED
      BY <1>1, <1>6, <2>3, <3>1 DEF SelfHeld, Me
  <2>4. \A i \in DOMAIN main'[d] : main'[d][i].kind = "saved" =>
            \E j \in DOMAIN main[d] : main[d][j] = main'[d][i]
    BY <1>6, <2>1
  <2> QED
    BY <1>0, <1>6, <2>3, <2>4, SelfQuiet
<1>7. CASE searchForContact(d) \/ fetchContacts(d) \/ tripStored(d)
  <2>1. PICK kind \in {"found", "contacts", "tripStored"}, people \in SUBSET User :
            main' = [main EXCEPT ![d] = Append(@, Block(kind, people))]
    BY <1>7 DEF searchForContact, fetchContacts, tripStored, Matches, Fetched
  <2>2. PICK block : block = Block(kind, people)
    OBVIOUS
  <2>3. block \in Callback /\ block.kind \notin {"reload", "saved"}
    BY <2>2, BlockType DEF CallbackKind, Block
  <2>4. main'[d] = Append(main[d], block) /\ UNCHANGED <<users, queue, currentUser>>
    BY <1>0, <1>7, <2>1, <2>2 DEF searchForContact, fetchContacts, tripStored, TypeOK
  <2> QED
    BY <1>6, <2>3, <2>4
<1>8. CASE initializeUser(d)
  <2>1. PICK block : block = RecordRead(SeenOwn(d))
    OBVIOUS
  <2>2. block \in Callback /\ block.person = SeenOwn(d) /\ block.kind = "reload"
    BY <1>0, <2>1, OwnTypes DEF RecordRead, Callback, Person
  <2>3. main'[d] = Append(main[d], block) /\ UNCHANGED <<users, queue, currentUser>>
    BY <1>0, <1>8, <2>1 DEF initializeUser, TypeOK, SeenOwn
  <2> QED
    BY <1>6, <2>2, <2>3
<1> QED
  BY <1>3, <1>5, <1>7, <1>8 DEF UserStep

LEMMA SelfFound ==
    ASSUME KeptInv, NEW d \in Device, contactFound(d)
    PROVE  SelfStays(d)'
<1>0. TypeOK /\ DeviceKept(d) /\ SelfStays(d)
  BY DEF KeptInv, WritesInv, TypeInv
<1>1. PICK found : found = Head(main[d]).people
  OBVIOUS
<1>2. found \in SUBSET User /\ main[d] # <<>> /\ main[d][1].kind = "found" /\ 1 \in DOMAIN main[d]
  <2>1. Head(main[d]) \in Callback /\ Head(main[d]).kind = "found" /\ main[d] # <<>>
    BY <1>0, BlockRun DEF contactFound, Runs
  <2>2. Head(main[d]) = main[d][1] /\ 1 \in DOMAIN main[d]
    BY <1>0, <2>1, OwnTypes, Elements
  <2> QED
    BY <1>1, <2>1, <2>2 DEF Callback
<1>3. currentUser[d] # NoPerson
  BY <1>2 DEF Enqueued, KeptInv, WritesInv, TypeInv, NothingForced
<1>4. currentUser[d] \in Document /\ Kept(SeenOwn(d), currentUser[d])
  BY <1>0, <1>3, OwnTypes DEF DeviceKept, KeptRecords
<1>5. PICK known : known = currentUser[d]["contacts"]
  OBVIOUS
<1>6. Me(d) \in known <=> SelfSomewhere(d)
  <2>1. Me(d) \in known => SelfSomewhere(d)
    BY <1>0, <1>4, <1>5, SelfSeen DEF Kept, DeviceKept
  <2>2. SelfSomewhere(d) => SelfHeld(d)
    BY <1>0 DEF SelfSomewhere, SelfStays
  <2> QED
    BY <1>3, <1>5, <2>1, <2>2 DEF SelfHeld
<1>7. PICK people \in Listings(found) :
          queue' = [queue EXCEPT ![d] =
              @ \o [i \in 1..Cardinality(found) |-> AddContactWrite(d, people, i)]]
  BY <1>1 DEF contactFound
<1>8. PICK s : s = [i \in 1..Cardinality(found) |-> AddContactWrite(d, people, i)]
  OBVIOUS
<1>9. /\ s \in Seq(Write) /\ Len(s) = Cardinality(found) /\ Len(s) \in Nat
      /\ \A i \in 1..Len(s) : s[i] = AddContactWrite(d, people, i) /\ people[i] \in found
  <2>1. s \in Seq(Write)
    BY <1>0, <1>2, <1>4, <1>8, AddContactWriteType DEF Person
  <2>2. Cardinality(found) \in Nat
    BY <1>2, UserAssumption, FS_Subset, FS_CardinalityType
  <2>3. Len(s) = Cardinality(found)
    BY <1>8, <2>2
  <2> QED
    BY <1>8, <2>1, <2>2, <2>3 DEF Listings
<1>10. queue'[d] = queue[d] \o s /\ users' = users /\ main'[d] = Tail(main[d])
  BY <1>0, <1>7, <1>8 DEF contactFound, TypeOK
<1>11. currentUser'[d] # NoPerson => currentUser'[d]["contacts"] = known \cup found
  BY <1>0, <1>1, <1>4, <1>5, Fields DEF contactFound, TypeOK, With, Document
<1>12. \A i \in DOMAIN main'[d] : i + 1 \in DOMAIN main[d] /\ main'[d][i] = main[d][i + 1]
  BY <1>0, <1>2, <1>10, BlockGone
<1>13. \A i \in DOMAIN main'[d] : main'[d][i].kind # "reload"
  BY <1>0, <1>10, NoReloadBehind DEF contactFound, DeviceKept, Saving
<1>14. Me(d) \in known \cup found => SelfHeld(d)'
  BY <1>11, <1>13 DEF SelfHeld, Me
<1>15. \A i \in 1..Len(s) :
           /\ people[i] \in known =>
                  /\ s[i].to = people[i] /\ s[i].replaces = {} /\ s[i].then = {}
                  /\ s[i].data["contacts"] = {Me(d)}
           /\ people[i] \notin known =>
                  /\ s[i].to = Me(d) /\ s[i].replaces = Field /\ s[i].then = {people[i]}
                  /\ s[i].data["contacts"] = known \cup Until(people, i)
  <2> SUFFICES ASSUME NEW i \in 1..Len(s)
               PROVE  /\ people[i] \in known =>
                             /\ s[i].to = people[i] /\ s[i].replaces = {} /\ s[i].then = {}
                             /\ s[i].data["contacts"] = {Me(d)}
                      /\ people[i] \notin known =>
                             /\ s[i].to = Me(d) /\ s[i].replaces = Field
                             /\ s[i].then = {people[i]}
                             /\ s[i].data["contacts"] = known \cup Until(people, i)
    OBVIOUS
  <2>1. s[i] = AddContactWrite(d, people, i)
    BY <1>9
  <2>6. PICK w : w = s[i]
    OBVIOUS
  <2>7. w = AddContactWrite(d, people, i)
    BY <2>1, <2>6
  <2>2. people[i] \in known => w.to = people[i] /\ AddsOnly(w, Me(d)) /\ w.then = {}
    BY <1>5, <2>7 DEF AddContactWrite, addCurrentUser, ArrayUnion, SetData, AddsOnly
  <2>3. people[i] \notin known => w.to = Me(d) /\ w.replaces = Field /\ w.then = {people[i]}
    BY <1>5, <2>7 DEF AddContactWrite, addCurrentUser, ArrayUnion, SetData, AddsOnly
  <2>8. people[i] \notin known =>
            w.data = With(currentUser[d], "contacts", known \cup Until(people, i))
    BY <1>5, <2>7 DEF AddContactWrite, SetData, Until
  <2>4. With(currentUser[d], "contacts", known \cup Until(people, i))["contacts"]
            = known \cup Until(people, i)
    BY <1>4, Fields DEF With, Document
  <2>5. AddsOnly(w, Me(d)) => w.replaces = {} /\ w.data["contacts"] = {Me(d)}
    BY Fields DEF AddsOnly, EmptyDocument
  <2> QED
    BY <2>2, <2>3, <2>4, <2>5, <2>6, <2>8
<1>16. Field # {}
  BY Fields
<1>17. \A i \in 1..Len(s) : Until(people, i) \subseteq found
  BY <1>9 DEF Until
<1>18. \A i, j \in 1..Len(s) : i < j => Until(people, i) \subseteq Until(people, j)
  BY <1>9 DEF Until
<1>19. \A i \in 1..Len(s) : people[i] \in Until(people, i)
  BY <1>9 DEF Until
<1>20. ASSUME NEW i \in 1..Len(s), s[i].to = Me(d)
       PROVE  /\ SelfSomewhere(d) /\ s[i].replaces = Field => Me(d) \in s[i].data["contacts"]
              /\ Me(d) \in s[i].data["contacts"] =>
                     /\ SelfHeld(d)'
                     /\ \A j \in 1..Len(s) :
                            j > i /\ s[j].to = Me(d) /\ s[j].replaces = Field =>
                                Me(d) \in s[j].data["contacts"]
              /\ s[i].replaces = {} => SelfSomewhere(d)
  <2>1. CASE people[i] \in known
    <3>1. Me(d) \in known /\ s[i].replaces = {}
      BY <1>15, <1>20, <2>1
    <3>2. \A j \in 1..Len(s) : s[j].replaces = Field => Me(d) \in s[j].data["contacts"]
      BY <1>15, <1>16, <3>1
    <3> QED
      BY <1>6, <1>14, <1>16, <3>1, <3>2
  <2>2. CASE people[i] \notin known
    <3>1. s[i].replaces = Field /\ s[i].data["contacts"] = known \cup Until(people, i)
      BY <1>15, <2>2
    <3>2. Me(d) \in s[i].data["contacts"] => SelfHeld(d)'
      BY <1>14, <1>17, <3>1
    <3>3. ASSUME NEW j \in 1..Len(s), j > i, s[j].replaces = Field,
                 Me(d) \in s[i].data["contacts"]
          PROVE  Me(d) \in s[j].data["contacts"]
      <4>1. s[j].data["contacts"] = known \cup Until(people, j)
        BY <1>15, <1>16, <3>3
      <4>2. Until(people, i) \subseteq Until(people, j)
        BY <1>18, <3>3
      <4> QED
        BY <3>1, <3>3, <4>1, <4>2
    <3> QED
      BY <1>6, <1>16, <3>1, <3>2, <3>3
  <2> QED
    BY <2>1, <2>2
<1>21. \A i \in 1..Len(s) :
           Me(d) \in s[i].then => s[i].to = Me(d) /\ Me(d) \in s[i].data["contacts"]
  BY <1>15, <1>19
<1>22. SelfSomewhere(d) => SelfHeld(d)'
  BY <1>6, <1>14
<1>23. \A i \in DOMAIN main'[d] : main'[d][i].kind = "saved" =>
           \E j \in DOMAIN main[d] : main[d][j] = main'[d][i]
  BY <1>12
<1> QED
  BY <1>0, <1>9, <1>10, <1>20, <1>21, <1>22, <1>23, SelfConcat

LEMMA SelfTripStored ==
    ASSUME KeptInv, NEW d \in Device, removeInvitedContacts(d)
    PROVE  SelfStays(d)'
<1>0. TypeOK /\ DeviceKept(d) /\ SelfStays(d)
  BY DEF KeptInv, WritesInv, TypeInv
<1>1. PICK person : person = With(currentUser[d], "invitedUsers", {})
  OBVIOUS
<1>2. currentUser[d] \in Person /\ currentUser[d] # NoPerson
  BY NoPersonAssumption DEF removeInvitedContacts, Runs, Enqueued, KeptInv, WritesInv,
     TypeInv, TypeOK, NothingForced
<1>3. person \in Person /\ person["contacts"] = currentUser[d]["contacts"]
  BY <1>1, <1>2, WithType, Fields DEF With, Person, Document
<1>4. /\ queue'[d] = Append(queue[d], SetData(Me(d), person, {}))
      /\ currentUser'[d] = person /\ users' = users
      /\ main[d] # <<>> /\ main'[d] = Tail(main[d])
  BY <1>0, <1>1 DEF removeInvitedContacts, Runs, TypeOK
<1>5. \A i \in DOMAIN main'[d] : main'[d][i].kind # "reload"
  BY <1>0, <1>4, NoReloadBehind DEF removeInvitedContacts, DeviceKept, Saving
<1>6. \A i \in DOMAIN main'[d] : \E j \in DOMAIN main[d] : main[d][j] = main'[d][i]
  BY <1>0, <1>4, BlockGone
<1> QED
  BY <1>0, <1>2, <1>3, <1>4, <1>5, <1>6, SelfSaved

LEMMA SelfMainStep ==
    ASSUME KeptInv, NEW d \in Device, MainStep(d)
    PROVE  SelfStays(d)'
<1>0. TypeOK /\ DeviceKept(d) /\ SelfStays(d)
  BY DEF KeptInv, WritesInv, TypeInv
<1>1. CASE contactFound(d)
  BY <1>1, SelfFound
<1>2. CASE contactSaved(d) \/ userInitialized(d) \/ contactsFetched(d)
  <2>1. main[d] # <<>> /\ main'[d] = Tail(main[d]) /\ users' = users
    BY <1>0, <1>2 DEF contactSaved, userInitialized, contactsFetched, Runs, TypeOK
  <2>2. \A i \in DOMAIN main'[d] : \E j \in DOMAIN main[d] : main[d][j] = main'[d][i]
    BY <1>0, <2>1, BlockGone
  <2>3. 1 \in DOMAIN main[d] /\ Head(main[d]) = main[d][1]
    BY <1>0, <2>1, OwnTypes, Elements
  <2>4. SelfSomewhere(d) => SelfHeld(d)
    BY <1>0 DEF SelfSomewhere, SelfStays
  <2>5. SelfHeld(d) => SelfHeld(d)'
    <3>1. SelfHeld(d) => \A i \in DOMAIN main'[d] :
              main'[d][i].kind = "reload" => Me(d) \in main'[d][i].person["contacts"]
      BY <2>2 DEF SelfHeld
    <3>2. CASE contactSaved(d) \/ contactsFetched(d)
      <4>1. currentUser' = currentUser
        BY <3>2 DEF contactSaved, contactsFetched
      <4> QED
        BY <3>1, <4>1 DEF SelfHeld, Me
    <3>3. CASE userInitialized(d)
      <4>1. main[d][1].kind = "reload" /\ currentUser'[d] = main[d][1].person
        BY <1>0, <2>3, <3>3 DEF userInitialized, Runs, TypeOK
      <4> QED
        BY <2>3, <3>1, <4>1 DEF SelfHeld, Me
    <3> QED
      BY <1>2, <3>2, <3>3
  <2>6. CASE contactSaved(d)
    <3>1. PICK u \in Head(main[d]).people :
              queue' = [queue EXCEPT ![d] = Append(@, addCurrentUser(d, u))]
      BY <2>6 DEF contactSaved
    <3>2. u \in User
      BY <1>0, <2>6, <3>1, BlockRun DEF contactSaved, Callback
    <3>3. PICK w : w = addCurrentUser(d, u)
      OBVIOUS
    <3>4. w \in Write
      BY <1>0, <3>2, <3>3, Fields, WriteTypes, OwnTypes, SchemaAssumption DEF addCurrentUser
    <3>5. w.to = u /\ w.replaces = {} /\ w.then = {}
      BY <3>3 DEF addCurrentUser, ArrayUnion
    <3>6. queue'[d] = Append(queue[d], w)
      BY <1>0, <3>1, <3>3 DEF TypeOK
    <3>7. u = Me(d) => SelfSomewhere(d)
      <4>1. u = Me(d) => SelfAt(d, 0)
        BY <1>0, <2>3, <2>6, <3>1 DEF SelfStays, contactSaved, Runs
      <4>2. Len(queue[d]) \in Nat
        BY <1>0, OwnTypes, Elements
      <4> QED
        BY <4>1, <4>2 DEF SelfSomewhere
    <3>8. w.replaces # Field
      BY <3>5, Fields
    <3> QED
      BY <1>0, <2>1, <2>2, <2>4, <2>5, <3>4, <3>5, <3>6, <3>7, <3>8, SelfAppend
  <2>7. CASE userInitialized(d) \/ contactsFetched(d)
    <3>1. queue' = queue
      BY <2>7 DEF userInitialized, contactsFetched
    <3> QED
      BY <1>0, <2>1, <2>2, <2>4, <2>5, <3>1, SelfQuiet
  <2> QED
    BY <1>2, <2>6, <2>7
<1>3. CASE removeInvitedContacts(d)
  BY <1>3, SelfTripStored
<1> QED
  BY <1>1, <1>2, <1>3 DEF MainStep

\* What the first write makes of the stored record.
LEMMA SelfHead ==
    ASSUME KeptInv, NEW d \in Device, queue[d] # <<>>,
           users' = [users EXCEPT ![Head(queue[d]).to] = Applied(@, Head(queue[d]))]
    PROVE  SelfAt(d, 0)' <=> SelfAt(d, 0) \/ SelfAt(d, 1)
<1>0. TypeOK /\ WholeWrites(d) /\ SelfStays(d)
  BY DEF KeptInv, WritesInv, TypeInv, DeviceKept
<1>1. PICK w, k, doc : w = Head(queue[d]) /\ k = Me(d) /\ doc = users[k]
  OBVIOUS
<1>2. /\ w \in Write /\ 1 \in DOMAIN queue[d] /\ w = queue[d][1] /\ doc \in Document
      /\ k \in User /\ Len(queue[d]) \in Nat /\ "contacts" \in Field
  BY <1>0, <1>1, OwnTypes, Elements, Fields
<1>3. users'[k] = IF w.to = k THEN Applied(doc, w) ELSE doc
  BY <1>0, <1>1, <1>2 DEF TypeOK
<1>4. /\ SelfAt(d, 0)' <=> k \in users'[k]["contacts"]
      /\ SelfAt(d, 0) <=> k \in doc["contacts"]
      /\ SelfAt(d, 1) <=> w.to = k /\ k \in w.data["contacts"]
  BY <1>1, <1>2 DEF SelfAt, Me
<1>5. CASE w.to # k
  BY <1>3, <1>4, <1>5
<1>6. CASE w.to = k /\ w.replaces = Field
  <2>1. users'[k]["contacts"] = w.data["contacts"]
    BY <1>2, <1>3, <1>6 DEF Applied
  <2>2. SelfAt(d, 0) => SelfAt(d, 1)
    BY <1>0, <1>1, <1>2, <1>6 DEF SelfStays
  <2> QED
    BY <1>4, <1>6, <2>1, <2>2
<1>7. CASE w.to = k /\ w.replaces # Field
  <2>1. "contacts" \notin w.replaces
    BY <1>0, <1>1, <1>2, <1>7 DEF WholeWrites, OnlyNumber, AddsOnly
  <2>2. users'[k]["contacts"] = doc["contacts"] \cup w.data["contacts"]
    BY <1>2, <1>3, <1>7, <2>1 DEF Applied
  <2> QED
    BY <1>4, <1>7, <2>2
<1> QED
  BY <1>5, <1>6, <1>7

LEMMA SelfClientStep ==
    ASSUME KeptInv, EditsAreSafe, NEW d \in Device, ClientStep(d)
    PROVE  SelfStays(d)'
<1>0. TypeOK /\ WholeWrites(d) /\ SelfStays(d)
  BY DEF KeptInv, WritesInv, TypeInv, DeviceKept
<1>1. CASE writeCommitted(d)
  <2>1. /\ queue[d] # <<>> /\ Answer(d) /\ currentUser' = currentUser
        /\ users' = [users EXCEPT ![Head(queue[d]).to] = Applied(@, Head(queue[d]))]
    BY <1>1 DEF writeCommitted
  <2> QED
    BY <1>0, <2>1, SelfHead, SelfAnswered
<1>2. CASE answerLost(d)
  <2>1. /\ queue[d] # <<>> /\ UNCHANGED <<currentUser, queue, main>>
        /\ users' = [users EXCEPT ![Head(queue[d]).to] = Applied(@, Head(queue[d]))]
    BY <1>2 DEF answerLost
  <2>2. SelfAt(d, 0)' <=> SelfAt(d, 0) \/ SelfAt(d, 1)
    BY <2>1, SelfHead
  <2>3. 1 \in DOMAIN queue[d]
    BY <1>0, <2>1, OwnTypes, Elements
  <2>4. SelfHeld(d) => SelfHeld(d)'
    BY <2>1 DEF SelfHeld, Me
  <2> QED
    BY <1>0, <2>1, <2>2, <2>3, <2>4, SelfApplied
<1>3. CASE writeRejected(d)
  <2>1. /\ queue[d] # <<>> /\ Answer(d) /\ UNCHANGED <<currentUser, users>>
        /\ Head(queue[d]).replaces # Field
    BY <1>3 DEF writeRejected, Call, EditsAreSafe
  <2>2. 1 \in DOMAIN queue[d] /\ Head(queue[d]) = queue[d][1]
    BY <1>0, <2>1, OwnTypes, Elements
  <2>3. SelfAt(d, 1) => SelfAt(d, 0)
    <3> SUFFICES ASSUME SelfAt(d, 1) PROVE SelfAt(d, 0)
      OBVIOUS
    <3>1. queue[d][1].to = Me(d) /\ Me(d) \in queue[d][1].data["contacts"]
      BY DEF SelfAt
    <3>2. ~OnlyNumber(queue[d][1])
      BY <3>1, Fields DEF OnlyNumber
    <3>3. queue[d][1].replaces = {}
      BY <1>0, <2>1, <2>2, <3>1, <3>2 DEF WholeWrites, AddsOnly
    <3>4. \E j \in 0..(1 - 1) : SelfAt(d, j)
      BY <1>0, <2>2, <3>1, <3>3 DEF SelfStays
    <3> QED
      BY <3>4
  <2>4. SelfAt(d, 0)' <=> SelfAt(d, 0)
    BY <2>1 DEF SelfAt, Me
  <2> QED
    BY <1>0, <2>1, <2>3, <2>4, SelfAnswered
<1>4. CASE crash(d)
  <2>1. PICK q : q = queue[d]
    OBVIOUS
  <2>2. /\ queue'[d] = [i \in DOMAIN q |-> Restored(q[i])] /\ main'[d] = <<>>
        /\ currentUser'[d] = NoPerson /\ users' = users
    BY <1>0, <1>4, <2>1 DEF crash, TypeOK
  <2>3. /\ DOMAIN queue'[d] = DOMAIN queue[d] /\ Len(queue'[d]) = Len(queue[d])
        /\ \A i \in DOMAIN queue[d] : /\ queue'[d][i].to = queue[d][i].to
                                      /\ queue'[d][i].replaces = queue[d][i].replaces
                                      /\ queue'[d][i].data = queue[d][i].data
                                      /\ queue'[d][i].then = {}
    <3>1. DOMAIN q = 1..Len(q) /\ Len(q) \in Nat
      BY <1>0, <2>1, OwnTypes, Elements
    <3> QED
      BY <2>1, <2>2, <3>1 DEF Restored
  <2>4. SelfAt(d, 0)' <=> SelfAt(d, 0)
    BY <2>2 DEF SelfAt, Me
  <2>5. SelfHeld(d)' /\ DOMAIN main'[d] = {}
    BY <2>2 DEF SelfHeld
  <2> QED
    BY <1>0, <2>3, <2>4, <2>5, SelfApplied
<1> QED
  BY <1>1, <1>2, <1>3, <1>4 DEF ClientStep

\* Another device adds its own user to a record, and nobody else.
LEMMA SelfElsewhere ==
    ASSUME KeptInv, EditsAreSafe, NEW d \in Device, UserStep(d) \/ MainStep(d) \/ ClientStep(d),
           NEW e \in Device \ {d}
    PROVE  SelfStays(e)'
<1>0. TypeOK /\ SelfStays(e) /\ Me(e) # Me(d)
  BY DEF KeptInv, WritesInv, TypeInv, EditsAreSafe, Me
<1>1. /\ currentUser'[e] = currentUser[e]
      /\ queue'[e] = queue[e]
      /\ main'[e] = main[e]
  BY <1>0, OtherDevices
<1>2. Me(e) \in users'[Me(e)]["contacts"] <=> Me(e) \in users[Me(e)]["contacts"]
  <2>1. users[Me(e)] \in Document /\ Me(e) \in User /\ "contacts" \in Field
    BY <1>0, OwnTypes, Fields
  <2>2. CASE writeCommitted(d) \/ answerLost(d)
    <3>1. PICK w : w = Head(queue[d])
      OBVIOUS
    <3>2. queue[d] # <<>> /\ users' = [users EXCEPT ![w.to] = Applied(@, w)]
      BY <2>2, <3>1 DEF writeCommitted, answerLost
    <3>3. w \in Write /\ 1 \in DOMAIN queue[d] /\ w = queue[d][1]
      BY <1>0, <3>1, <3>2, OwnTypes, Elements
    <3>4. users'[Me(e)] = IF w.to = Me(e) THEN Applied(users[Me(e)], w) ELSE users[Me(e)]
      BY <1>0, <2>1, <3>2 DEF TypeOK
    <3>5. MayWrite(d, w)
      BY <3>3 DEF KeptInv, WritesInv
    <3>6. w.to = Me(e) => AddsOnly(w, Me(d))
      BY <1>0, <3>5 DEF MayWrite
    <3>7. AddsOnly(w, Me(d)) =>
              Applied(users[Me(e)], w)["contacts"] = users[Me(e)]["contacts"] \cup {Me(d)}
      BY <2>1 DEF AddsOnly, Applied, EmptyDocument
    <3> QED
      BY <1>0, <3>4, <3>6, <3>7
  <2>3. CASE ~(writeCommitted(d) \/ answerLost(d))
    <3>1. users' = users
      BY <2>3 DEF UserStep, MainStep, ClientStep, contactsButtonTapped, inviteButtonTapped,
         blockContact, unblockContact, inviteContact, uninviteContact, tripStored,
         Save, updatePhoneNumber, searchForContact, initializeUser, fetchContacts,
         contactFound, contactSaved, removeInvitedContacts, userInitialized, contactsFetched,
         writeRejected, crash
    <3> QED
      BY <3>1
  <2> QED
    BY <2>2, <2>3
<1>3. SelfAt(e, 0)' <=> SelfAt(e, 0)
  BY <1>2 DEF SelfAt, Me
<1>4. SelfHeld(e)' <=> SelfHeld(e)
  BY <1>1 DEF SelfHeld, Me
<1> QED
  BY <1>0, <1>1, <1>3, <1>4, SelfApplied

LEMMA KeptInvStep ==
    ASSUME EditsAreSafe, KeptInv, [Next]_vars
    PROVE  KeptInv'
<1>1. WritesInv'
  BY WritesInvStep DEF KeptInv
<1>2. CASE UNCHANGED vars
  <2>1. ASSUME NEW d \in Device PROVE DeviceKept(d)'
    BY <1>2 DEF vars, KeptInv, DeviceKept, WholeWrites, OnlyNumber, AddsOnly, KeptRecords,
       ReloadsFirst, SeenOwn, Seen, Me
  <2>2. ASSUME NEW d \in Device PROVE SelfStays(d)'
    BY <1>2 DEF vars, KeptInv, SelfStays, SelfAt, SelfHeld, Me
  <2> QED
    BY <1>1, <2>1, <2>2 DEF KeptInv
<1>3. ASSUME NEW d \in Device, UserStep(d) \/ MainStep(d) \/ ClientStep(d)
      PROVE  KeptInv'
  <2>1. DeviceKept(d)'
    BY <1>3, KeptUserStep, KeptMainStep, KeptClientStep
  <2>2. \A e \in Device \ {d} : DeviceKept(e)'
    BY <1>3, KeptElsewhere
  <2>3. SelfStays(d)'
    BY <1>3, SelfUserStep, SelfMainStep, SelfClientStep
  <2>4. \A e \in Device \ {d} : SelfStays(e)'
    BY <1>3, SelfElsewhere
  <2> QED
    BY <1>1, <2>1, <2>2, <2>3, <2>4 DEF KeptInv
<1> QED
  BY <1>2, <1>3 DEF Next

\* With one device for each user, reloads awaited and no save refused, what a user did to
\* the block list, the invitation list and the contacts is what the device reads back, for
\* any number of users, queued writes and crashes, and whatever the others add meanwhile.
THEOREM EditsAreKept ==
    ASSUME ReloadRaces = FALSE, Refusable \subseteq {"updateData"},
           \A d, e \in Device : Owner[d] = Owner[e] => d = e
    PROVE  Spec => []OwnEditsKept
<1>1. EditsAreSafe
  BY DEF EditsAreSafe
<1>2. Init => KeptInv
  <2> SUFFICES ASSUME Init PROVE KeptInv
    OBVIOUS
  <2>1. TypeInv
    BY InitType DEF TypeInv, NothingForced, Init, Enqueued
  <2>2. WritesInv
    BY <2>1 DEF WritesInv, Init
  <2>3. ASSUME NEW d \in Device PROVE DeviceKept(d)
    <3>1. /\ queue[d] = <<>> /\ main[d] = <<>> /\ currentUser[d] = users[Me(d)]
          /\ users[Me(d)] \in Document
      BY <2>1, OwnTypes DEF Init, TypeInv
    <3>2. SeenOwn(d) = users[Me(d)]
      BY <3>1, ViewEmpty DEF SeenOwn, Seen
    <3> QED
      BY <3>1, <3>2 DEF DeviceKept, WholeWrites, KeptRecords, Kept, ReloadsFirst
  <2>4. ASSUME NEW d \in Device PROVE SelfStays(d)
    <3>1. queue[d] = <<>> /\ main[d] = <<>> /\ Me(d) \in User
      BY <2>1, OwnTypes DEF Init, TypeInv
    <3>2. PICK number \in [User -> Number] :
              users = [u \in User |-> [EmptyDocument EXCEPT !["phoneNumber"] = number[u]]]
      BY DEF Init
    <3>3. users[Me(d)]["contacts"] = {}
      BY <3>1, <3>2, Fields DEF EmptyDocument
    <3> QED
      BY <3>1, <3>3 DEF SelfStays, SelfAt
  <2> QED
    BY <2>2, <2>3, <2>4 DEF KeptInv
<1>3. KeptInv => OwnEditsKept
  BY DEF KeptInv, DeviceKept, KeptRecords, Kept, SeenOwn, OwnEditsKept, RecordKept
<1>4. KeptInv /\ [Next]_vars => KeptInv'
  BY <1>1, KeptInvStep
<1> QED
  BY <1>2, <1>3, <1>4, PTL DEF Spec

=============================================================================
