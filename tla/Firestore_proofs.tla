----------------------------- MODULE Firestore_proofs -----------------------------
(***************************************************************************)
(* What the Firestore client's local view does, for any documents, fields  *)
(* and values and for queues of any length: lemmas on the operators of     *)
(* Firestore that the theorems of its users need.                          *)
(***************************************************************************)
EXTENDS Firestore, WellFoundedInduction, TLAPS

-----------------------------------------------------------------------------
(***************************************************************************)
(* Types.                                                                  *)
(***************************************************************************)

LEMMA EmptyDocumentType == EmptyDocument \in Document
BY DEF EmptyDocument, Document

\* The three kinds of write are writes.
LEMMA WriteTypes ==
    ASSUME NEW k \in Key, NEW then \in SUBSET Key
    PROVE  /\ \A doc \in Document : SetData(k, doc, then) \in Write
           /\ \A f \in Field, values \in SUBSET Value :
                 /\ UpdateField(k, f, values) \in Write
                 /\ ArrayUnion(k, f, values) \in Write
BY EmptyDocumentType DEF SetData, UpdateField, ArrayUnion, Write, Document

\* Applying a write to a document, and viewing one under a queue, give documents.
LEMMA AppliedType ==
    ASSUME NEW doc \in Document, NEW w \in Write
    PROVE  Applied(doc, w) \in Document
BY DEF Applied, Document, Write

LEMMA LocalDocumentType ==
    ASSUME NEW doc, NEW q, NEW k
    PROVE  LocalDocument(doc, q, k) \in Document
BY DEF LocalDocument, LocalField, Document

LEMMA RestoredQueue ==
    ASSUME NEW q \in Seq(Write)
    PROVE  [i \in DOMAIN q |-> Restored(q[i])] \in Seq(Write)
<1>1. \A w \in Write : Restored(w) \in Write
  BY DEF Write, Restored
<1>2. DOMAIN q = 1..Len(q) /\ Len(q) \in Nat /\ \A i \in DOMAIN q : q[i] \in Write
  OBVIOUS
<1> QED
  BY <1>1, <1>2

\* The elements of a list that has lost its first or got a last one.
LEMMA Elements ==
    ASSUME NEW S, NEW q \in Seq(S)
    PROVE  /\ Len(q) \in Nat /\ DOMAIN q = 1..Len(q)
           /\ q # <<>> => /\ 1 \in DOMAIN q /\ Head(q) = q[1]
                          /\ \A i \in DOMAIN Tail(q) : i + 1 \in DOMAIN q /\ Tail(q)[i] = q[i + 1]
           /\ \A x \in S : \A i \in DOMAIN Append(q, x) :
                  \/ i \in DOMAIN q /\ Append(q, x)[i] = q[i]
                  \/ i = Len(q) + 1 /\ Append(q, x)[i] = x
<1>1. Len(q) \in Nat /\ DOMAIN q = 1..Len(q)
  OBVIOUS
<1>2. ASSUME q # <<>>
      PROVE  /\ 1 \in DOMAIN q /\ Head(q) = q[1]
             /\ \A i \in DOMAIN Tail(q) : i + 1 \in DOMAIN q /\ Tail(q)[i] = q[i + 1]
  <2>1. /\ Len(q) \in Nat \ {0} /\ Head(q) = q[1] /\ DOMAIN Tail(q) = 1..(Len(q) - 1)
        /\ \A i \in DOMAIN Tail(q) : Tail(q)[i] = q[i + 1]
    BY <1>2
  <2> QED
    BY <1>1, <2>1
<1>3. \A x \in S : \A i \in DOMAIN Append(q, x) :
          \/ i \in DOMAIN q /\ Append(q, x)[i] = q[i]
          \/ i = Len(q) + 1 /\ Append(q, x)[i] = x
  OBVIOUS
<1> QED
  BY <1>1, <1>2, <1>3

-----------------------------------------------------------------------------
(***************************************************************************)
(* The oldest write of the queue: what stands behind it moves up by one.   *)
(***************************************************************************)

LEMMA ReplacedShift ==
    ASSUME NEW q \in Seq(Write), q # <<>>, NEW k, NEW f
    PROVE  /\ \A i \in Nat \ {0} : ReplacedFrom(Tail(q), i, k, f) <=> ReplacedFrom(q, i + 1, k, f)
           /\ ReplacedFrom(q, 1, k, f) <=> Replaces(Head(q), k, f) \/ ReplacedFrom(q, 2, k, f)
<1>0. /\ Len(q) \in Nat \ {0} /\ DOMAIN q = 1..Len(q)
      /\ DOMAIN Tail(q) = 1..(Len(q) - 1) /\ Head(q) = q[1]
      /\ \A j \in DOMAIN Tail(q) : Tail(q)[j] = q[j + 1]
  OBVIOUS
<1>1. ASSUME NEW i \in Nat \ {0}
      PROVE  ReplacedFrom(Tail(q), i, k, f) <=> ReplacedFrom(q, i + 1, k, f)
  <2>1. ASSUME NEW j \in DOMAIN Tail(q), j >= i, Replaces(Tail(q)[j], k, f)
        PROVE  ReplacedFrom(q, i + 1, k, f)
    <3>1. j + 1 \in DOMAIN q /\ j + 1 >= i + 1 /\ Replaces(q[j + 1], k, f)
      BY <1>0, <2>1
    <3> QED
      BY <3>1 DEF ReplacedFrom
  <2>2. ASSUME NEW j \in DOMAIN q, j >= i + 1, Replaces(q[j], k, f)
        PROVE  ReplacedFrom(Tail(q), i, k, f)
    <3>1. j - 1 \in DOMAIN Tail(q) /\ j - 1 >= i /\ (j - 1) + 1 = j
      BY <1>0, <2>2
    <3>2. Replaces(Tail(q)[j - 1], k, f)
      BY <1>0, <2>2, <3>1
    <3> QED
      BY <3>1, <3>2 DEF ReplacedFrom
  <2> QED
    BY <2>1, <2>2 DEF ReplacedFrom
<1>2. ReplacedFrom(q, 1, k, f) <=> Replaces(Head(q), k, f) \/ ReplacedFrom(q, 2, k, f)
  <2>1. 1 \in DOMAIN q /\ \A j \in DOMAIN q : j >= 1 /\ (j = 1 \/ j >= 2)
    BY <1>0
  <2>2. \A j \in DOMAIN q : j >= 2 => j >= 1
    BY <1>0
  <2> QED
    BY <1>0, <2>1, <2>2 DEF ReplacedFrom
<1> QED
  BY <1>1, <1>2

LEMMA ViewAfterHead ==
    ASSUME NEW doc \in Document, NEW q \in Seq(Write), q # <<>>, NEW k \in Key
    PROVE  LocalDocument(IF Head(q).to = k THEN Applied(doc, Head(q)) ELSE doc, Tail(q), k)
              = LocalDocument(doc, q, k)
<1>. DEFINE w == Head(q)
            new == IF w.to = k THEN Applied(doc, w) ELSE doc
<1>0. /\ Len(q) \in Nat \ {0} /\ DOMAIN q = 1..Len(q)
      /\ DOMAIN Tail(q) = 1..(Len(q) - 1) /\ w = q[1] /\ w \in Write
      /\ \A j \in DOMAIN Tail(q) : Tail(q)[j] = q[j + 1]
  OBVIOUS
<1>1. ASSUME NEW f \in Field, NEW x \in Value
      PROVE  x \in LocalField(new, Tail(q), k, f) <=> x \in LocalField(doc, q, k, f)
  <2>. DEFINE held(i) == q[i].to = k /\ x \in q[i].data[f] /\ ~ReplacedFrom(q, i + 1, k, f)
  <2>1. \A i \in Nat \ {0} : ReplacedFrom(Tail(q), i, k, f) <=> ReplacedFrom(q, i + 1, k, f)
    BY ReplacedShift
  <2>2. ReplacedFrom(q, 1, k, f) <=> Replaces(w, k, f) \/ ReplacedFrom(q, 2, k, f)
    BY ReplacedShift
  <2>3. x \in LocalField(doc, q, k, f) <=>
           \/ x \in doc[f] /\ ~Replaces(w, k, f) /\ ~ReplacedFrom(q, 2, k, f)
           \/ held(1)
           \/ \E i \in DOMAIN q : i >= 2 /\ held(i)
    <3>1. 1 \in DOMAIN q /\ \A i \in DOMAIN q : i = 1 \/ i >= 2
      BY <1>0
    <3> QED
      BY <2>2, <3>1 DEF LocalField
  <2>4. x \in LocalField(new, Tail(q), k, f) <=>
           \/ x \in new[f] /\ ~ReplacedFrom(q, 2, k, f)
           \/ \E i \in DOMAIN q : i >= 2 /\ held(i)
    <3>1. ReplacedFrom(Tail(q), 1, k, f) <=> ReplacedFrom(q, 2, k, f)
      BY <2>1
    <3>2. (\E j \in DOMAIN Tail(q) : /\ Tail(q)[j].to = k
                                     /\ x \in Tail(q)[j].data[f]
                                     /\ ~ReplacedFrom(Tail(q), j + 1, k, f))
             <=> \E i \in DOMAIN q : i >= 2 /\ held(i)
      <4>1. ASSUME NEW j \in DOMAIN Tail(q), Tail(q)[j].to = k, x \in Tail(q)[j].data[f],
                   ~ReplacedFrom(Tail(q), j + 1, k, f)
            PROVE  \E i \in DOMAIN q : i >= 2 /\ held(i)
        <5>1. j + 1 \in DOMAIN q /\ j + 1 >= 2 /\ j + 1 \in Nat \ {0}
          BY <1>0, <4>1
        <5>2. held(j + 1)
          BY <1>0, <2>1, <4>1, <5>1
        <5> QED
          BY <5>1, <5>2
      <4>2. ASSUME NEW i \in DOMAIN q, i >= 2, held(i)
            PROVE  \E j \in DOMAIN Tail(q) : /\ Tail(q)[j].to = k
                                             /\ x \in Tail(q)[j].data[f]
                                             /\ ~ReplacedFrom(Tail(q), j + 1, k, f)
        <5>1. i - 1 \in DOMAIN Tail(q) /\ (i - 1) + 1 = i /\ i \in Nat \ {0}
          BY <1>0, <4>2
        <5>2. Tail(q)[i - 1] = q[i] /\ ~ReplacedFrom(Tail(q), (i - 1) + 1, k, f)
          BY <1>0, <2>1, <4>2, <5>1
        <5> QED
          BY <4>2, <5>1, <5>2
      <4> QED
        BY <4>1, <4>2
    <3> HIDE DEF held
    <3> QED
      BY <3>1, <3>2 DEF LocalField
  <2>5. x \in new[f] /\ ~ReplacedFrom(q, 2, k, f) <=>
           \/ x \in doc[f] /\ ~Replaces(w, k, f) /\ ~ReplacedFrom(q, 2, k, f)
           \/ held(1)
    BY <1>0 DEF Applied, Replaces, Document, Write
  <2> QED
    BY <2>3, <2>4, <2>5
<1>2. \A f \in Field : LocalField(new, Tail(q), k, f) = LocalField(doc, q, k, f)
  BY <1>1 DEF LocalField
<1> QED
  BY <1>2 DEF LocalDocument

-----------------------------------------------------------------------------
(***************************************************************************)
(* The newest write of the queue.                                          *)
(***************************************************************************)

LEMMA ReplacedAppend ==
    ASSUME NEW q \in Seq(Write), NEW w \in Write, NEW k, NEW f
    PROVE  /\ \A i \in 1..(Len(q) + 1) :
                  ReplacedFrom(Append(q, w), i, k, f) <=>
                      ReplacedFrom(q, i, k, f) \/ Replaces(w, k, f)
           /\ ~ReplacedFrom(Append(q, w), Len(q) + 2, k, f)
<1> DEFINE n == Len(q)
           r == Append(q, w)
<1>1. /\ n \in Nat /\ DOMAIN q = 1..n /\ DOMAIN r = 1..(n + 1) /\ r[n + 1] = w
      /\ \A i \in 1..n : r[i] = q[i]
  OBVIOUS
<1> HIDE DEF n, r
<1>2. ASSUME NEW i \in 1..(n + 1)
      PROVE  ReplacedFrom(r, i, k, f) <=> ReplacedFrom(q, i, k, f) \/ Replaces(w, k, f)
  <2>1. ASSUME ReplacedFrom(r, i, k, f)
        PROVE  ReplacedFrom(q, i, k, f) \/ Replaces(w, k, f)
    <3>1. PICK j \in 1..(n + 1) : j >= i /\ Replaces(r[j], k, f)
      BY <1>1, <2>1 DEF ReplacedFrom
    <3>2. CASE j = n + 1
      BY <1>1, <3>1, <3>2
    <3>3. CASE j # n + 1
      <4>1. j \in 1..n
        BY <1>1, <3>3
      <4> QED
        BY <1>1, <3>1, <4>1 DEF ReplacedFrom
    <3> QED
      BY <3>2, <3>3
  <2>2. ASSUME ReplacedFrom(q, i, k, f)
        PROVE  ReplacedFrom(r, i, k, f)
    <3>1. PICK j \in 1..n : j >= i /\ Replaces(q[j], k, f)
      BY <1>1, <2>2 DEF ReplacedFrom
    <3>2. j \in 1..(n + 1) /\ r[j] = q[j]
      BY <1>1
    <3> QED
      BY <1>1, <3>1, <3>2 DEF ReplacedFrom
  <2>3. ASSUME Replaces(w, k, f)
        PROVE  ReplacedFrom(r, i, k, f)
    <3>1. n + 1 \in 1..(n + 1) /\ n + 1 >= i
      BY <1>1
    <3> QED
      BY <1>1, <2>3, <3>1 DEF ReplacedFrom
  <2> QED
    BY <2>1, <2>2, <2>3
<1>3. ~ReplacedFrom(r, n + 2, k, f)
  <2>1. \A j \in 1..(n + 1) : ~(j >= n + 2)
    BY <1>1
  <2> QED
    BY <1>1, <2>1 DEF ReplacedFrom
<1> QED
  BY <1>2, <1>3 DEF n, r

\* Queueing a write shows its device the document as if the write had been applied.
LEMMA ViewAppend ==
    ASSUME NEW doc \in Document, NEW q \in Seq(Write), NEW w \in Write, NEW k
    PROVE  LocalDocument(doc, Append(q, w), k) =
               IF w.to = k THEN Applied(LocalDocument(doc, q, k), w)
               ELSE LocalDocument(doc, q, k)
<1> DEFINE n == Len(q)
           r == Append(q, w)
<1>1. /\ n \in Nat /\ DOMAIN q = 1..n /\ DOMAIN r = 1..(n + 1) /\ r[n + 1] = w
      /\ \A i \in 1..n : r[i] = q[i]
  OBVIOUS
<1>2. \A f : /\ \A i \in 1..(n + 1) :
                    ReplacedFrom(r, i, k, f) <=> ReplacedFrom(q, i, k, f) \/ Replaces(w, k, f)
             /\ ~ReplacedFrom(r, n + 2, k, f)
  BY ReplacedAppend
<1> HIDE DEF n, r
<1>3. ASSUME NEW f \in Field, NEW x \in Value
      PROVE  x \in LocalField(doc, r, k, f) <=>
                 \/ x \in LocalField(doc, q, k, f) /\ ~Replaces(w, k, f)
                 \/ w.to = k /\ x \in w.data[f]
  <2> DEFINE InQ(i) == q[i].to = k /\ x \in q[i].data[f] /\ ~ReplacedFrom(q, i + 1, k, f)
             InR(i) == r[i].to = k /\ x \in r[i].data[f] /\ ~ReplacedFrom(r, i + 1, k, f)
  <2>1. \A i \in 1..n : InR(i) <=> InQ(i) /\ ~Replaces(w, k, f)
    <3> SUFFICES ASSUME NEW i \in 1..n PROVE InR(i) <=> InQ(i) /\ ~Replaces(w, k, f)
      OBVIOUS
    <3>1. i + 1 \in 1..(n + 1) /\ r[i] = q[i]
      BY <1>1
    <3> QED
      BY <1>2, <3>1
  <2>2. InR(n + 1) <=> w.to = k /\ x \in w.data[f]
    <3>1. (n + 1) + 1 = n + 2
      BY <1>1
    <3> QED
      BY <1>1, <1>2, <3>1
  <2>3. ReplacedFrom(r, 1, k, f) <=> ReplacedFrom(q, 1, k, f) \/ Replaces(w, k, f)
    <3>1. 1 \in 1..(n + 1)
      BY <1>1
    <3> QED
      BY <1>2, <3>1
  <2>4. x \in LocalField(doc, q, k, f) <=>
            \/ x \in doc[f] /\ ~ReplacedFrom(q, 1, k, f)
            \/ \E i \in 1..n : InQ(i)
    BY <1>1 DEF LocalField
  <2>5. x \in LocalField(doc, r, k, f) <=>
            \/ x \in doc[f] /\ ~ReplacedFrom(r, 1, k, f)
            \/ \E i \in 1..(n + 1) : InR(i)
    BY <1>1 DEF LocalField
  <2> HIDE DEF InQ, InR
  <2>6. (\E i \in 1..(n + 1) : InR(i)) <=> (\E i \in 1..n : InR(i)) \/ InR(n + 1)
    <3>1. \A i : i \in 1..(n + 1) <=> i \in 1..n \/ i = n + 1
      BY <1>1
    <3> QED
      BY <3>1
  <2> QED
    BY <2>1, <2>2, <2>3, <2>4, <2>5, <2>6
<1>4. \A f \in Field :
          LocalField(doc, r, k, f) =
              {x \in Value : \/ x \in LocalField(doc, q, k, f) /\ ~Replaces(w, k, f)
                             \/ w.to = k /\ x \in w.data[f]}
  BY <1>3 DEF LocalField
<1>5. CASE w.to = k
  <2>1. \A f \in Field : /\ LocalField(doc, q, k, f) \subseteq Value /\ w.data[f] \subseteq Value
                         /\ Replaces(w, k, f) <=> f \in w.replaces
    BY <1>5 DEF LocalField, Write, Document, Replaces
  <2>2. \A f \in Field :
            LocalField(doc, r, k, f) = IF f \in w.replaces THEN w.data[f]
                                       ELSE LocalField(doc, q, k, f) \cup w.data[f]
    BY <1>4, <1>5, <2>1
  <2>3. \A f \in Field : LocalDocument(doc, q, k)[f] = LocalField(doc, q, k, f)
    BY DEF LocalDocument
  <2> QED
    BY <1>5, <2>2, <2>3 DEF LocalDocument, Applied, r
<1>6. CASE w.to # k
  <2>1. \A f \in Field : /\ LocalField(doc, q, k, f) \subseteq Value /\ ~Replaces(w, k, f)
    BY <1>6 DEF LocalField, Replaces
  <2>2. \A f \in Field : LocalField(doc, r, k, f) = LocalField(doc, q, k, f)
    BY <1>4, <1>6, <2>1
  <2> QED
    BY <1>6, <2>2 DEF LocalDocument, r
<1> QED
  BY <1>5, <1>6

\* Without queued writes the view is the backend's document.
LEMMA ViewEmpty ==
    ASSUME NEW doc \in Document, NEW k
    PROVE  LocalDocument(doc, <<>>, k) = doc
<1>1. \A f \in Field : LocalField(doc, <<>>, k, f) = doc[f]
  BY DEF LocalField, ReplacedFrom, Document
<1> QED
  BY <1>1 DEF LocalDocument, Document

\* Whose completion block a write runs does not show.
LEMMA ViewRestored ==
    ASSUME NEW doc, NEW q \in Seq(Write), NEW k
    PROVE  LocalDocument(doc, [i \in DOMAIN q |-> Restored(q[i])], k) = LocalDocument(doc, q, k)
<1> DEFINE r == [i \in DOMAIN q |-> Restored(q[i])]
<1>1. DOMAIN r = DOMAIN q
  OBVIOUS
<1>2. \A i \in DOMAIN q : r[i].to = q[i].to /\ r[i].replaces = q[i].replaces /\ r[i].data = q[i].data
  BY DEF Restored
<1> HIDE DEF r
<1>3. \A i, f : ReplacedFrom(r, i, k, f) <=> ReplacedFrom(q, i, k, f)
  BY <1>1, <1>2 DEF ReplacedFrom, Replaces
<1>4. \A f : LocalField(doc, r, k, f) = LocalField(doc, q, k, f)
  BY <1>1, <1>2, <1>3 DEF LocalField
<1> QED
  BY <1>4 DEF LocalDocument, r

\* A write that the backend has applied shows no more than it did when it was queued.
LEMMA ViewAnswerLost ==
    ASSUME NEW doc \in Document, NEW q \in Seq(Write), q # <<>>
    PROVE  LocalDocument(Applied(doc, Head(q)), q, Head(q).to) = LocalDocument(doc, q, Head(q).to)
<1> DEFINE w == Head(q)
           k == w.to
<1>1. Len(q) \in Nat \ {0} /\ DOMAIN q = 1..Len(q) /\ q[1] = w /\ w \in Write
  OBVIOUS
<1>2. \A f : ReplacedFrom(q, 1, k, f) <=> Replaces(w, k, f) \/ ReplacedFrom(q, 2, k, f)
  BY ReplacedShift
<1> HIDE DEF w
<1>3. ASSUME NEW f \in Field, NEW x \in Value
      PROVE  x \in LocalField(Applied(doc, w), q, k, f) <=> x \in LocalField(doc, q, k, f)
  <2> DEFINE In(i) == q[i].to = k /\ x \in q[i].data[f] /\ ~ReplacedFrom(q, i + 1, k, f)
  <2>1. In(1) <=> x \in w.data[f] /\ ~ReplacedFrom(q, 2, k, f)
    BY <1>1
  <2>2. x \in Applied(doc, w)[f] /\ ~ReplacedFrom(q, 1, k, f) <=>
            (x \in doc[f] \/ x \in w.data[f]) /\ ~ReplacedFrom(q, 1, k, f)
    BY <1>1, <1>2 DEF Applied, Replaces
  <2>3. 1 \in DOMAIN q
    BY <1>1
  <2>4. \A d : x \in LocalField(d, q, k, f) <=>
            (x \in d[f] /\ ~ReplacedFrom(q, 1, k, f)) \/ \E i \in DOMAIN q : In(i)
    BY DEF LocalField
  <2> HIDE DEF In, k
  <2> QED
    BY <1>2, <2>1, <2>2, <2>3, <2>4
<1>4. \A f \in Field : LocalField(Applied(doc, w), q, k, f) = LocalField(doc, q, k, f)
  BY <1>3 DEF LocalField
<1> QED
  BY <1>4 DEF LocalDocument, w

-----------------------------------------------------------------------------
(***************************************************************************)
(* Several writes queued at once.                                          *)
(***************************************************************************)

\* The elements of a list after another.
LEMMA Concatenated ==
    ASSUME NEW q \in Seq(Write), NEW s \in Seq(Write)
    PROVE  /\ q \o s \in Seq(Write)
           /\ Len(q) \in Nat /\ DOMAIN q = 1..Len(q) /\ Len(s) \in Nat /\ DOMAIN s = 1..Len(s)
           /\ DOMAIN (q \o s) = 1..(Len(q) + Len(s))
           /\ \A i \in 1..Len(q) : (q \o s)[i] = q[i]
           /\ \A i \in 1..Len(s) : (q \o s)[Len(q) + i] = s[i]
OBVIOUS

LEMMA ReplacedConcat ==
    ASSUME NEW q \in Seq(Write), NEW s \in Seq(Write), NEW k, NEW f
    PROVE  /\ \A i \in 1..(Len(q) + 1) :
                  ReplacedFrom(q \o s, i, k, f) <=>
                      ReplacedFrom(q, i, k, f) \/ ReplacedFrom(s, 1, k, f)
           /\ \A i \in 1..(Len(s) + 1) :
                  ReplacedFrom(q \o s, Len(q) + i, k, f) <=> ReplacedFrom(s, i, k, f)
<1> DEFINE n == Len(q)
           m == Len(s)
           r == q \o s
<1>1. /\ n \in Nat /\ m \in Nat /\ DOMAIN q = 1..n /\ DOMAIN s = 1..m /\ DOMAIN r = 1..(n + m)
      /\ \A i \in 1..n : r[i] = q[i]
      /\ \A i \in 1..m : r[n + i] = s[i]
  BY Concatenated
<1> HIDE DEF n, m, r
<1>2. \A j \in 1..(n + m) : j \in 1..n \/ (j - n \in 1..m /\ n + (j - n) = j)
  BY <1>1
<1>3. ASSUME NEW i \in 1..(m + 1)
      PROVE  ReplacedFrom(r, n + i, k, f) <=> ReplacedFrom(s, i, k, f)
  <2>1. ASSUME NEW j \in 1..(n + m), j >= n + i, Replaces(r[j], k, f)
        PROVE  ReplacedFrom(s, i, k, f)
    <3>1. j - n \in 1..m /\ j - n >= i /\ n + (j - n) = j
      BY <1>1, <2>1
    <3>2. r[j] = s[j - n]
      BY <1>1, <3>1
    <3> QED
      BY <1>1, <2>1, <3>1, <3>2 DEF ReplacedFrom
  <2>2. ASSUME NEW j \in 1..m, j >= i, Replaces(s[j], k, f)
        PROVE  ReplacedFrom(r, n + i, k, f)
    <3>1. n + j \in 1..(n + m) /\ n + j >= n + i
      BY <1>1, <2>2
    <3> QED
      BY <1>1, <2>2, <3>1 DEF ReplacedFrom
  <2> QED
    BY <1>1, <2>1, <2>2 DEF ReplacedFrom
<1>4. ASSUME NEW i \in 1..(n + 1)
      PROVE  ReplacedFrom(r, i, k, f) <=> ReplacedFrom(q, i, k, f) \/ ReplacedFrom(s, 1, k, f)
  <2>1. ASSUME NEW j \in 1..(n + m), j >= i, Replaces(r[j], k, f)
        PROVE  ReplacedFrom(q, i, k, f) \/ ReplacedFrom(s, 1, k, f)
    <3>1. CASE j \in 1..n
      BY <1>1, <2>1, <3>1 DEF ReplacedFrom
    <3>2. CASE j - n \in 1..m /\ n + (j - n) = j
      <4>1. r[j] = s[j - n] /\ j - n >= 1
        BY <1>1, <3>2
      <4> QED
        BY <1>1, <2>1, <3>2, <4>1 DEF ReplacedFrom
    <3> QED
      BY <1>2, <3>1, <3>2
  <2>2. ASSUME NEW j \in 1..n, j >= i, Replaces(q[j], k, f)
        PROVE  ReplacedFrom(r, i, k, f)
    <3>1. j \in 1..(n + m)
      BY <1>1
    <3> QED
      BY <1>1, <2>2, <3>1 DEF ReplacedFrom
  <2>3. ASSUME NEW j \in 1..m, Replaces(s[j], k, f)
        PROVE  ReplacedFrom(r, i, k, f)
    <3>1. n + j \in 1..(n + m) /\ n + j >= i
      BY <1>1, <2>3
    <3> QED
      BY <1>1, <2>3, <3>1 DEF ReplacedFrom
  <2> QED
    BY <1>1, <2>1, <2>2, <2>3 DEF ReplacedFrom
<1> QED
  BY <1>3, <1>4 DEF n, m, r

\* The view under a queue to which others are added is the view under the others of
\* what was seen before.
LEMMA ViewConcat ==
    ASSUME NEW doc \in Document, NEW q \in Seq(Write), NEW s \in Seq(Write), NEW k
    PROVE  LocalDocument(doc, q \o s, k) = LocalDocument(LocalDocument(doc, q, k), s, k)
<1> DEFINE n == Len(q)
           m == Len(s)
           r == q \o s
           mid == LocalDocument(doc, q, k)
<1>1. /\ n \in Nat /\ m \in Nat /\ DOMAIN q = 1..n /\ DOMAIN s = 1..m /\ DOMAIN r = 1..(n + m)
      /\ \A i \in 1..n : r[i] = q[i]
      /\ \A i \in 1..m : r[n + i] = s[i]
  BY Concatenated
<1>2. \A f : /\ \A i \in 1..(n + 1) : ReplacedFrom(r, i, k, f) <=>
                                          ReplacedFrom(q, i, k, f) \/ ReplacedFrom(s, 1, k, f)
             /\ \A i \in 1..(m + 1) : ReplacedFrom(r, n + i, k, f) <=> ReplacedFrom(s, i, k, f)
  BY ReplacedConcat
<1>3. \A f \in Field : mid[f] = LocalField(doc, q, k, f)
  BY DEF LocalDocument
<1> HIDE DEF n, m, r, mid
<1>4. ASSUME NEW f \in Field, NEW x \in Value
      PROVE  x \in LocalField(doc, r, k, f) <=> x \in LocalField(mid, s, k, f)
  <2> DEFINE InQ(i) == q[i].to = k /\ x \in q[i].data[f] /\ ~ReplacedFrom(q, i + 1, k, f)
             InS(i) == s[i].to = k /\ x \in s[i].data[f] /\ ~ReplacedFrom(s, i + 1, k, f)
             InR(i) == r[i].to = k /\ x \in r[i].data[f] /\ ~ReplacedFrom(r, i + 1, k, f)
             kept == ~ReplacedFrom(s, 1, k, f)
  <2>1. \A i \in 1..n : InR(i) <=> InQ(i) /\ kept
    <3> SUFFICES ASSUME NEW i \in 1..n PROVE InR(i) <=> InQ(i) /\ kept
      OBVIOUS
    <3>1. i + 1 \in 1..(n + 1) /\ r[i] = q[i]
      BY <1>1
    <3> QED
      BY <1>2, <3>1
  <2>2. \A i \in 1..m : InR(n + i) <=> InS(i)
    <3> SUFFICES ASSUME NEW i \in 1..m PROVE InR(n + i) <=> InS(i)
      OBVIOUS
    <3>1. i + 1 \in 1..(m + 1) /\ r[n + i] = s[i] /\ (n + i) + 1 = n + (i + 1)
      BY <1>1
    <3> QED
      BY <1>2, <3>1
  <2>3. ReplacedFrom(r, 1, k, f) <=> ReplacedFrom(q, 1, k, f) \/ ~kept
    <3>1. 1 \in 1..(n + 1)
      BY <1>1
    <3> QED
      BY <1>2, <3>1
  <2>4. x \in LocalField(doc, q, k, f) <=>
            \/ x \in doc[f] /\ ~ReplacedFrom(q, 1, k, f)
            \/ \E i \in 1..n : InQ(i)
    BY <1>1 DEF LocalField
  <2>5. x \in LocalField(doc, r, k, f) <=>
            \/ x \in doc[f] /\ ~ReplacedFrom(r, 1, k, f)
            \/ \E i \in 1..(n + m) : InR(i)
    BY <1>1 DEF LocalField
  <2>6. x \in LocalField(mid, s, k, f) <=> (x \in mid[f] /\ kept) \/ \E i \in 1..m : InS(i)
    BY <1>1 DEF LocalField
  <2> HIDE DEF InQ, InS, InR, kept
  <2>7. (\E i \in 1..(n + m) : InR(i)) <=>
            (\E i \in 1..n : InR(i)) \/ (\E i \in 1..m : InR(n + i))
    <3>1. \A i \in 1..(n + m) : i \in 1..n \/ (i - n \in 1..m /\ n + (i - n) = i)
      BY <1>1
    <3>2. /\ \A i \in 1..n : i \in 1..(n + m)
          /\ \A i \in 1..m : n + i \in 1..(n + m)
      BY <1>1
    <3> QED
      BY <3>1, <3>2
  <2> QED
    BY <1>3, <2>1, <2>2, <2>3, <2>4, <2>5, <2>6, <2>7
<1>5. \A f \in Field : LocalField(doc, r, k, f) = LocalField(mid, s, k, f)
  BY <1>4 DEF LocalField
<1> QED
  BY <1>5 DEF LocalDocument, r, mid

\* If some write replaces a field, one of them is the last.
LEMMA LastReplaces ==
    ASSUME NEW q \in Seq(Write), NEW k, NEW f, ReplacedFrom(q, 1, k, f)
    PROVE  \E i \in DOMAIN q : Replaces(q[i], k, f) /\ ~ReplacedFrom(q, i + 1, k, f)
<1> DEFINE n == Len(q)
           Left == {i \in 0..n : \E j \in 1..n : n - j = i /\ Replaces(q[j], k, f)}
<1>1. n \in Nat /\ DOMAIN q = 1..n
  OBVIOUS
<1> HIDE DEF n
<1>2. Left # {} /\ Left \subseteq Nat
  <2>1. PICK j \in 1..n : Replaces(q[j], k, f)
    BY <1>1 DEF ReplacedFrom
  <2>2. n - j \in Left
    BY <1>1, <2>1
  <2>3. \A i \in Left : i \in Nat
    BY <1>1
  <2> HIDE DEF Left
  <2> QED
    BY <2>2, <2>3
<1>3. PICK m \in Left : \A i \in Left : ~(<<i, m>> \in OpToRel(<, Nat))
  <2> HIDE DEF Left
  <2> QED
    BY <1>2, NatLessThanWellFounded, WFMin
<1>4. PICK i \in 1..n : n - i = m /\ Replaces(q[i], k, f)
  OBVIOUS
<1>5. ASSUME NEW j \in 1..n, j >= i + 1, Replaces(q[j], k, f) PROVE FALSE
  <2>1. n - j \in Left
    BY <1>1, <1>5
  <2>2. n - j < m /\ n - j \in Nat /\ m \in Nat
    BY <1>1, <1>4, <1>5
  <2> HIDE DEF Left
  <2> QED
    BY <1>3, <2>1, <2>2 DEF OpToRel
<1> QED
  BY <1>1, <1>4, <1>5 DEF ReplacedFrom

-----------------------------------------------------------------------------
(***************************************************************************)
(* The view is what the client computes.                                   *)
(***************************************************************************)

LEMMA FirstWrites ==
    ASSUME NEW q \in Seq(Write), NEW n \in 1..Len(q)
    PROVE  /\ SubSeq(q, 1, n - 1) \in Seq(Write) /\ q[n] \in Write
           /\ SubSeq(q, 1, n) = Append(SubSeq(q, 1, n - 1), q[n])
<1>1. /\ Len(q) \in Nat /\ DOMAIN q = 1..Len(q) /\ n \in Nat /\ n - 1 \in Nat
      /\ \A i \in 1..Len(q) : q[i] \in Write
  OBVIOUS
<1>2. /\ SubSeq(q, 1, n - 1) \in Seq(Write) /\ Len(SubSeq(q, 1, n - 1)) = n - 1
      /\ \A i \in 1..(n - 1) : SubSeq(q, 1, n - 1)[i] = q[i]
  BY <1>1
<1>3. /\ SubSeq(q, 1, n) \in Seq(Write) /\ Len(SubSeq(q, 1, n)) = n
      /\ \A i \in 1..n : SubSeq(q, 1, n)[i] = q[i]
  BY <1>1
<1> QED
  BY <1>1, <1>2, <1>3

\* The view is the last of the documents that applying the queued writes one after
\* another goes through: seen[i] is the one after i of them.
LEMMA ViewOfTrace ==
    ASSUME NEW doc \in Document, NEW q \in Seq(Write), NEW k, NEW seen, seen[0] = doc,
           \A i \in 1..Len(q) :
               seen[i] = IF q[i].to = k THEN Applied(seen[i - 1], q[i]) ELSE seen[i - 1]
    PROVE  LocalDocument(doc, q, k) = seen[Len(q)]
<1> DEFINE n == Len(q)
           Bad == {i \in 0..n : LocalDocument(doc, SubSeq(q, 1, i), k) # seen[i]}
<1>1. n \in Nat /\ SubSeq(q, 1, n) = q /\ SubSeq(q, 1, 0) = <<>>
  OBVIOUS
<1>2. ASSUME Bad # {} PROVE FALSE
  <2>1. PICK m \in Bad : \A i \in Bad : ~(<<i, m>> \in OpToRel(<, Nat))
    <3> HIDE DEF Bad
    <3>1. Bad \subseteq Nat
      BY <1>1 DEF Bad
    <3> QED
      BY <1>2, <3>1, NatLessThanWellFounded, WFMin
  <2>2. m \in 0..n /\ LocalDocument(doc, SubSeq(q, 1, m), k) # seen[m]
    OBVIOUS
  <2>3. m # 0
    BY <1>1, <2>2, ViewEmpty
  <2>4. m \in 1..n /\ m - 1 \in 0..n /\ m - 1 < m
    BY <1>1, <2>2, <2>3
  <2>5. m - 1 \notin Bad
    <3> HIDE DEF Bad, n
    <3>1. m - 1 \in Nat /\ m \in Nat
      BY <2>4
    <3> QED
      BY <2>1, <2>4, <3>1 DEF OpToRel
  <2>6. LocalDocument(doc, SubSeq(q, 1, m - 1), k) = seen[m - 1]
    BY <2>4, <2>5
  <2>7. PICK p \in Seq(Write) : p = SubSeq(q, 1, m - 1) /\ SubSeq(q, 1, m) = Append(p, q[m])
    BY <2>4, FirstWrites
  <2>8. q[m] \in Write
    BY <2>4
  <2>9. LocalDocument(doc, Append(p, q[m]), k) =
            IF q[m].to = k THEN Applied(LocalDocument(doc, p, k), q[m]) ELSE LocalDocument(doc, p, k)
    BY <2>8, ViewAppend
  <2> QED
    BY <2>2, <2>4, <2>6, <2>7, <2>9
<1>3. n \in 0..n
  BY <1>1
<1> QED
  BY <1>1, <1>2, <1>3

\* What the first n queued writes make of the document, as a function.
Trace(doc, q, k, n, seen) ==
    seen = [i \in 0..n |-> IF i = 0 THEN doc
                          ELSE IF q[i].to = k THEN Applied(seen[i - 1], q[i]) ELSE seen[i - 1]]

\* There is such a function, so the recursion of InOrder defines one.
LEMMA TraceExists ==
    ASSUME NEW doc, NEW q \in Seq(Write), NEW k
    PROVE  \E seen : Trace(doc, q, k, Len(q), seen)
<1> DEFINE n == Len(q)
           Bad == {i \in 0..n : ~\E seen : Trace(doc, q, k, i, seen)}
<1>1. n \in Nat
  OBVIOUS
<1>2. ASSUME Bad # {} PROVE FALSE
  <2>1. PICK m \in Bad : \A i \in Bad : ~(<<i, m>> \in OpToRel(<, Nat))
    <3> HIDE DEF Bad
    <3>1. Bad \subseteq Nat
      BY <1>1 DEF Bad
    <3> QED
      BY <1>2, <3>1, NatLessThanWellFounded, WFMin
  <2>2. m \in 0..n /\ m \in Nat /\ ~\E seen : Trace(doc, q, k, m, seen)
    BY <1>1
  <2>3. CASE m = 0
    <3>1. Trace(doc, q, k, 0, [i \in 0..0 |-> doc])
      BY DEF Trace
    <3> QED
      BY <2>2, <2>3, <3>1
  <2>4. CASE m # 0
    <3>1. m - 1 \in 0..n /\ m - 1 \in Nat /\ m - 1 < m
      BY <1>1, <2>2, <2>4
    <3>2. m - 1 \notin Bad
      <4> HIDE DEF Bad, n
      <4> QED
        BY <2>1, <2>2, <3>1 DEF OpToRel
    <3>3. PICK s : Trace(doc, q, k, m - 1, s)
      BY <3>1, <3>2
    <3>4. PICK last : last = IF q[m].to = k THEN Applied(s[m - 1], q[m]) ELSE s[m - 1]
      OBVIOUS
    <3>5. PICK t : t = [i \in 0..m |-> IF i = m THEN last ELSE s[i]]
      OBVIOUS
    <3>6. \A i \in 0..m : t[i] = IF i = 0 THEN doc
                                 ELSE IF q[i].to = k THEN Applied(t[i - 1], q[i]) ELSE t[i - 1]
      <4> SUFFICES ASSUME NEW i \in 0..m
                   PROVE  t[i] = IF i = 0 THEN doc
                                 ELSE IF q[i].to = k THEN Applied(t[i - 1], q[i]) ELSE t[i - 1]
        OBVIOUS
      <4>1. \A j \in 0..(m - 1) : j \in 0..m /\ j # m /\ t[j] = s[j]
        BY <2>2, <3>5
      <4>2. CASE i = m
        <5>1. m - 1 \in 0..(m - 1) /\ m \in 0..m
          BY <2>2, <3>1
        <5>2. t[m] = last /\ t[m - 1] = s[m - 1]
          BY <3>5, <4>1, <5>1
        <5> QED
          BY <2>4, <3>4, <4>2, <5>2
      <4>3. CASE i # m
        <5>1. i \in 0..(m - 1) /\ (i # 0 => i - 1 \in 0..(m - 1))
          BY <2>2, <4>3
        <5>2. s[i] = IF i = 0 THEN doc
                     ELSE IF q[i].to = k THEN Applied(s[i - 1], q[i]) ELSE s[i - 1]
          BY <3>3, <5>1 DEF Trace
        <5> QED
          BY <4>1, <5>1, <5>2
      <4> QED
        BY <4>2, <4>3
    <3>7. Trace(doc, q, k, m, t)
      <4>1. t = [i \in 0..m |-> t[i]]
        BY <3>5
      <4> QED
        BY <3>6, <4>1 DEF Trace
    <3> QED
      BY <2>2, <3>7
  <2> QED
    BY <2>3, <2>4
<1>3. n \in 0..n
  BY <1>1
<1> QED
  BY <1>2, <1>3

\* The set-wise local view is the document that LocalDocumentsView computes by applying
\* the queued writes one after another to the backend's document.
THEOREM LocalViewIsInOrder ==
    ASSUME NEW doc \in Document, NEW q \in Seq(Write), NEW k
    PROVE  LocalDocument(doc, q, k) = InOrder(doc, q, k)
<1> DEFINE seen == CHOOSE seen : Trace(doc, q, k, Len(q), seen)
<1>1. InOrder(doc, q, k) = seen[Len(q)]
  BY DEF InOrder, Trace
<1>2. Trace(doc, q, k, Len(q), seen)
  BY TraceExists
<1> HIDE DEF seen
<1>3. /\ Len(q) \in Nat /\ 0 \in 0..Len(q)
      /\ \A i \in 1..Len(q) : i \in 0..Len(q) /\ i # 0
  OBVIOUS
<1>4. \A i \in 0..Len(q) :
          seen[i] = IF i = 0 THEN doc
                    ELSE IF q[i].to = k THEN Applied(seen[i - 1], q[i]) ELSE seen[i - 1]
  BY <1>2 DEF Trace
<1>5. /\ seen[0] = doc
      /\ \A i \in 1..Len(q) :
             seen[i] = IF q[i].to = k THEN Applied(seen[i - 1], q[i]) ELSE seen[i - 1]
  BY <1>3, <1>4
<1> QED
  BY <1>1, <1>5, ViewOfTrace

=============================================================================
