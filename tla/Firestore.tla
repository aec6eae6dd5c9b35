------------------------------- MODULE Firestore -------------------------------
(***************************************************************************)
(* The Firestore client (Pods/FirebaseFirestore) as the application sees   *)
(* it: a write names one document and is queued on the device, the backend *)
(* applies the queue in order, and a read made on the device is the        *)
(* backend's document with the queued writes applied on top of it.         *)
(*                                                                         *)
(* Every field of a document is a set: an array is the set of its members  *)
(* (the application only asks membership, appends an absent member, removes*)
(* all copies of one), and an optional value is empty or a singleton.      *)
(***************************************************************************)
EXTENDS Naturals, Sequences

CONSTANTS
    Key,     \* document identifiers: the users' Firebase UIDs
    Field,   \* the fields of a document
    Value    \* the members a field may have

Document == [Field -> SUBSET Value]

\* A write of the queue: the document it goes to, the fields whose old value it
\* replaces, the values it brings, and the keys the completion block of the
\* application goes on with (empty when the block changes nothing).
Write == [to : Key, replaces : SUBSET Field, data : Document, then : SUBSET Key]

EmptyDocument == [f \in Field |-> {}]

\* DocumentReference.setData: the whole document is replaced.
SetData(k, doc, then) ==
    [to |-> k, replaces |-> Field, data |-> doc, then |-> then]

\* DocumentReference.updateData with a plain value: one field is replaced.
UpdateField(k, f, values) ==
    [to |-> k, replaces |-> {f},
     data |-> [EmptyDocument EXCEPT ![f] = values], then |-> {}]

\* DocumentReference.updateData with FieldValue.arrayUnion: one field grows.
ArrayUnion(k, f, values) ==
    [to |-> k, replaces |-> {},
     data |-> [EmptyDocument EXCEPT ![f] = values], then |-> {}]

\* Restored, if the block that goes on with a contact came back from disk too.
RestoredWithBlock(w) == w

\* A write that was read back from disk: its completion block is gone.
Restored(w) ==
    [to |-> w.to, replaces |-> w.replaces, data |-> w.data, then |-> {}]

\* What a document becomes when a write that names it is applied, by the backend
\* or by the local view.
Applied(doc, w) ==
    [f \in Field |-> IF f \in w.replaces THEN w.data[f] ELSE doc[f] \cup w.data[f]]

-----------------------------------------------------------------------------
(***************************************************************************)
(* The local view: the document of the backend under the queued writes.    *)
(* A value is there when the newest thing said of the field still holds it;*)
(* the client computes the same by applying the writes (InOrder).          *)
(***************************************************************************)

Replaces(w, k, f) == w.to = k /\ f \in w.replaces

\* Some write of q from position i on replaces field f of document k.
ReplacedFrom(q, i, k, f) == \E j \in DOMAIN q : j >= i /\ Replaces(q[j], k, f)

LocalField(doc, q, k, f) ==
    {x \in Value :
        \/ x \in doc[f] /\ ~ReplacedFrom(q, 1, k, f)
        \/ \E i \in DOMAIN q : /\ q[i].to = k
                               /\ x \in q[i].data[f]
                               /\ ~ReplacedFrom(q, i + 1, k, f)}

LocalDocument(doc, q, k) == [f \in Field |-> LocalField(doc, q, k, f)]

\* LocalDocumentsView::GetDocument: the queued writes that name document k are applied
\* one after another to the document at hand.
InOrder(doc, q, k) ==
    LET seen[i \in 0..Len(q)] ==
            IF i = 0 THEN doc
            ELSE IF q[i].to = k THEN Applied(seen[i - 1], q[i]) ELSE seen[i - 1]
    IN  seen[Len(q)]

=============================================================================
