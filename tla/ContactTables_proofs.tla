-------------------------- MODULE ContactTables_proofs --------------------------
(***************************************************************************)
(* The tables of ContactTables are well typed, a table that counted the    *)
(* present array shows its rows and labels them as the lists say, and a    *)
(* tap changes only the person it shows.                                   *)
(***************************************************************************)
EXTENDS ContactTables, FiniteSetTheorems, SequenceTheorems, WellFoundedInduction, TLAPS

-----------------------------------------------------------------------------
(***************************************************************************)
(* Sets of numbers in order.                                               *)
(***************************************************************************)

Ascending(list, S) ==
    /\ list \in [1..Cardinality(S) -> S]
    /\ \A i, j \in 1..Cardinality(S) : i < j => list[i] < list[j]

\* Every finite set of numbers can be put in order: its least number goes first.
LEMMA AscendingExists ==
    ASSUME NEW S \in SUBSET Nat, IsFiniteSet(S)
    PROVE  \E list : Ascending(list, S)
<1> DEFINE Unsorted(T) == IsFiniteSet(T) /\ \A list : ~Ascending(list, T)
           Bad == {n \in Nat : \E T \in SUBSET Nat : Unsorted(T) /\ Cardinality(T) = n}
<1> SUFFICES ASSUME Bad # {} PROVE FALSE
  BY FS_CardinalityType
<1>1. PICK n \in Bad : \A k \in Bad : ~(<<k, n>> \in OpToRel(<, Nat))
  <2> HIDE DEF Bad
  <2>1. Bad \subseteq Nat
    BY DEF Bad
  <2> QED
    BY <2>1, NatLessThanWellFounded, WFMin
<1>2. \A k \in Bad : ~(k < n)
  BY <1>1 DEF OpToRel
<1>3. PICK T \in SUBSET Nat : Unsorted(T) /\ Cardinality(T) = n
  OBVIOUS
<1>4. T # {}
  <2> SUFFICES ASSUME T = {} PROVE FALSE
    OBVIOUS
  <2>1. Cardinality(T) = 0
    BY FS_EmptySet
  <2>2. Ascending([i \in 1..0 |-> 0], T)
    BY <2>1 DEF Ascending
  <2> QED
    BY <1>3, <2>2
<1>5. PICK m \in T : \A x \in T : ~(<<x, m>> \in OpToRel(<, Nat))
  BY <1>4, NatLessThanWellFounded, WFMin
<1>6. \A x \in T \ {m} : m < x
  <2> HIDE DEF Bad
  <2>1. \A x \in T : ~(x < m)
    BY <1>5 DEF OpToRel
  <2> QED
    BY <2>1
<1>7. IsFiniteSet(T \ {m}) /\ Cardinality(T \ {m}) = n - 1 /\ n \in Nat \ {0}
  <2>1. IsFiniteSet(T \ {m}) /\ Cardinality(T \ {m}) = n - 1
    BY <1>3, FS_RemoveElement
  <2>2. n \in Nat /\ n # 0
    BY <1>3, <1>4, FS_EmptySet
  <2> QED
    BY <2>1, <2>2
<1>8. PICK l : Ascending(l, T \ {m})
  <2>1. n - 1 \notin Bad /\ n - 1 \in Nat
    BY <1>2, <1>7
  <2> QED
    BY <2>1, <1>7
<1> DEFINE list == [i \in 1..n |-> IF i = 1 THEN m ELSE l[i - 1]]
<1>9. Ascending(list, T)
  <2>1. l \in [1..(n - 1) -> T \ {m}]
    BY <1>7, <1>8 DEF Ascending
  <2>2. \A i, j \in 1..(n - 1) : i < j => l[i] < l[j]
    BY <1>7, <1>8 DEF Ascending
  <2>3. \A i \in 1..n : i # 1 => i - 1 \in 1..(n - 1)
    BY <1>7
  <2>4. list \in [1..n -> T]
    BY <2>1, <2>3
  <2>5. ASSUME NEW i \in 1..n, NEW j \in 1..n, i < j
        PROVE  list[i] < list[j]
    <3>1. j # 1 /\ list[j] = l[j - 1] /\ l[j - 1] \in T \ {m}
      BY <2>1, <2>3, <2>5
    <3>2. CASE i = 1
      BY <3>1, <3>2, <1>6
    <3>3. CASE i # 1
      <4>1. i - 1 \in 1..(n - 1) /\ j - 1 \in 1..(n - 1) /\ i - 1 < j - 1
        BY <2>3, <2>5, <3>1, <3>3
      <4> QED
        BY <2>2, <3>1, <3>3, <4>1
    <3> QED
      BY <3>2, <3>3
  <2> QED
    BY <1>3, <2>4, <2>5 DEF Ascending
<1> QED
  BY <1>3, <1>9

\* InOrder lists the numbers of a set, each once, least first.
LEMMA InOrderLists ==
    ASSUME NEW S \in SUBSET Nat, IsFiniteSet(S)
    PROVE  /\ InOrder(S) \in Seq(S)
           /\ Len(InOrder(S)) = Cardinality(S)
           /\ \A i, j \in 1..Cardinality(S) : i < j => InOrder(S)[i] < InOrder(S)[j]
           /\ \A x \in S : \E i \in 1..Cardinality(S) : InOrder(S)[i] = x
<1> DEFINE n == Cardinality(S)
           list == InOrder(S)
<1>1. n \in Nat
  BY FS_CardinalityType
<1>2. \E f \in [1..n -> S] : \A i, j \in DOMAIN f : i < j => f[i] < f[j]
  BY AscendingExists DEF Ascending
<1>3. list \in [1..n -> S] /\ \A i, j \in 1..n : i < j => list[i] < list[j]
  BY <1>2 DEF InOrder
<1> HIDE DEF list
<1>4. list \in Seq(S) /\ Len(list) = n
  <2> HIDE DEF n
  <2> QED
    BY <1>1, <1>3
<1>5. list \in Injection(1..n, S)
  <2> HIDE DEF n
  <2>1. \A i, j \in 1..n : list[i] = list[j] => i = j
    <3> SUFFICES ASSUME NEW i \in 1..n, NEW j \in 1..n, list[i] = list[j], i # j PROVE FALSE
      OBVIOUS
    <3>1. i < j \/ j < i
      BY <1>1
    <3>2. list[i] \in Nat /\ list[j] \in Nat
      BY <1>3
    <3> QED
      BY <1>3, <3>1, <3>2
  <2> QED
    BY <1>3, <2>1 DEF Injection, IsInjective
<1>6. list \in Surjection(1..n, S)
  <2>1. Cardinality(1..n) = n
    BY <1>1, FS_Interval
  <2> QED
    BY <1>5, <2>1, FS_Injection
<1> QED
  BY <1>3, <1>4, <1>6 DEF list, Surjection

-----------------------------------------------------------------------------
(***************************************************************************)
(* The inductive invariant.                                                *)
(***************************************************************************)

\* The array is sorted by name and lists nobody twice.
InNameOrder ==
    /\ Len(contacts) <= Cardinality(Person)
    /\ \A i, j \in 1..Len(contacts) : i < j => contacts[i] < contacts[j]

\* A screen that is gone has no rows; a row in view is shown by a cell with a
\* person; in a table that counted the present array, by the row's person.
TableOf(s) ==
    /\ s \notin loaded => rows[s] = 0
    /\ ~trapped => \A r \in InView(s) : cells[s][SlotOf(r)].person \in Person
    /\ s \in loaded \ replaced =>
           /\ rows[s] = Len(contacts)
           /\ \A r \in InView(s) : cells[s][SlotOf(r)].person = contacts[r]

TableInv ==
    /\ TypeOK
    /\ Unanswered <= MaxCalls
    /\ InNameOrder
    /\ \A s \in Screen : TableOf(s)
    /\ trapped => replaced # {}

-----------------------------------------------------------------------------
(***************************************************************************)
(* Rows and cells.                                                         *)
(***************************************************************************)

LEMMA Screens == Nobody \notin Screen /\ Screen \subseteq Asker /\ Nobody \in Asker
BY DEF Screen, Asker, Nobody

LEMMA SlotType ==
    ASSUME NEW r \in Nat
    PROVE  SlotOf(r) \in Slot
BY ContactTablesAssumption DEF SlotOf, Slot

\* Two rows of one cell are a screen apart.
LEMMA OneRowPerCell ==
    ASSUME NEW r \in Nat, NEW q \in Nat, SlotOf(r) = SlotOf(q), r < q
    PROVE  r + Visible <= q
<1> DEFINE a == r \div Visible
           b == q \div Visible
<1>1. Visible \in Nat \ {0}
  BY ContactTablesAssumption
<1>2. a \in Nat /\ b \in Nat /\ r = Visible * a + (r % Visible) /\ q = Visible * b + (q % Visible)
  BY <1>1
<1>3. r % Visible = q % Visible /\ r % Visible \in Nat
  BY <1>1 DEF SlotOf
<1> HIDE DEF a, b
<1>4. a < b
  <2> SUFFICES ASSUME b <= a PROVE FALSE
    BY <1>2
  <2>1. Visible * b <= Visible * a
    BY <1>1, <1>2
  <2> QED
    BY <1>1, <1>2, <1>3, <2>1
<1>5. Visible * a + Visible <= Visible * b
  <2>1. PICK c \in Nat : b = a + 1 + c
    <3>1. b - a - 1 \in Nat /\ b = a + 1 + (b - a - 1)
      BY <1>2, <1>4
    <3> QED
      BY <3>1
  <2>2. Visible * b = Visible * a + Visible + Visible * c
    BY <1>1, <1>2, <2>1
  <2>3. Visible * c \in Nat /\ Visible * a \in Nat
    BY <1>1, <1>2, <2>1
  <2> QED
    BY <1>1, <2>2, <2>3
<1> QED
  BY <1>1, <1>2, <1>3, <1>5

\* The rows of a table with n rows that are in view from the offset t.
Window(n, t) == {r \in 1..n : t < r /\ r <= t + Visible}

LEMMA WindowApart ==
    ASSUME NEW n \in Nat, NEW t \in Nat, NEW r \in Window(n, t), NEW q \in Window(n, t),
           SlotOf(r) = SlotOf(q)
    PROVE  r = q
<1>1. r \in Nat /\ q \in Nat /\ t < r /\ t < q /\ r <= t + Visible /\ q <= t + Visible
      /\ Visible \in Nat
  BY ContactTablesAssumption DEF Window
<1>2. CASE r < q
  BY <1>1, <1>2, OneRowPerCell
<1>3. CASE q < r
  BY <1>1, <1>3, OneRowPerCell
<1> QED
  BY <1>1, <1>2, <1>3

LEMMA FirstRowFits ==
    ASSUME NEW s \in Screen, NEW n \in Nat, top[s] \in Nat
    PROVE  /\ FirstRow(s, n) \in Nat
           /\ FirstRow(s, n) = 0 \/ FirstRow(s, n) + Visible <= n
BY DEF FirstRow

\* A table that is loaded again shows, in every row in view, the row's person.
LEMMA ShownRows ==
    ASSUME NEW s \in Screen, top[s] \in Nat, NEW list \in Seq(Person), NEW r \in Window(Len(list), FirstRow(s, Len(list)))
    PROVE  Shown(s, list)[SlotOf(r)] = Cell(s, list[r])
<1> DEFINE n == Len(list)
           t == FirstRow(s, n)
           At(k) == {q \in 1..n : t < q /\ q <= t + Visible /\ SlotOf(q) = k}
           k == SlotOf(r)
<1>1. n \in Nat
  OBVIOUS
<1>2. t \in Nat
  BY <1>1, FirstRowFits
<1>3. k \in Slot
  BY SlotType DEF Window
<1>4. r \in At(k) /\ \A q \in At(k) : q = r
  <2>1. r \in At(k)
    BY DEF Window
  <2>2. ASSUME NEW q \in At(k) PROVE q = r
    <3>1. q \in Window(n, t) /\ SlotOf(q) = SlotOf(r)
      BY DEF Window
    <3> HIDE DEF n, t
    <3> QED
      BY <1>1, <1>2, <3>1, WindowApart DEF n, t
  <2> QED
    BY <2>1, <2>2
<1>5. (CHOOSE q \in At(k) : TRUE) = r
  <2> HIDE DEF At
  <2> QED
    BY <1>4
<1>6. Shown(s, list)[k] = IF At(k) = {} THEN NoCell ELSE Cell(s, list[CHOOSE q \in At(k) : TRUE])
  BY <1>3 DEF Shown
<1> QED
  BY <1>4, <1>5, <1>6

CellType == [person : Person \cup {0}, label : BOOLEAN]

LEMMA ShownType ==
    ASSUME NEW s \in Screen, NEW list \in Seq(Person)
    PROVE  Shown(s, list) \in [Slot -> CellType]
<1> DEFINE n == Len(list)
           t == FirstRow(s, n)
           At(k) == {r \in 1..n : t < r /\ r <= t + Visible /\ SlotOf(r) = k}
           c(k) == IF At(k) = {} THEN NoCell ELSE Cell(s, list[CHOOSE r \in At(k) : TRUE])
<1>1. ASSUME NEW k \in Slot PROVE c(k) \in CellType
  <2>1. CASE At(k) = {}
    BY <2>1 DEF NoCell, CellType
  <2>2. CASE At(k) # {}
    <3> DEFINE r == CHOOSE r \in At(k) : TRUE
    <3>1. r \in At(k)
      BY <2>2
    <3>2. r \in 1..n
      BY <3>1
    <3> HIDE DEF r
    <3>3. list[r] \in Person
      BY <3>2
    <3> QED
      BY <2>2, <3>3 DEF Cell, CellType, r
  <2> QED
    BY <2>1, <2>2
<1>2. Shown(s, list) = [k \in Slot |-> c(k)]
  BY DEF Shown
<1> HIDE DEF c
<1> QED
  BY <1>1, <1>2

-----------------------------------------------------------------------------
(***************************************************************************)
(* What the operations do to a table.                                      *)
(***************************************************************************)

LEMMA InViewWindow ==
    ASSUME NEW s, NEW n, NEW t, rows[s] = n, top[s] = t
    PROVE  InView(s) = Window(n, t)
BY DEF InView, Window

LEMMA InViewWindowNext ==
    ASSUME NEW s, NEW n, NEW t, rows'[s] = n, top'[s] = t
    PROVE  InView(s)' = Window(n, t)
BY DEF InView, Window

\* A table is as it was when its rows are, and it has the array it had, or
\* is known to have another.
LEMMA TableKept ==
    ASSUME NEW s \in Screen, TableOf(s), ~trapped,
           rows'[s] = rows[s], top'[s] = top[s],
           s \in loaded' <=> s \in loaded,
           \A k \in Slot : cells'[s][k].person = cells[s][k].person,
           s \in loaded' \ replaced' => s \notin replaced /\ contacts' = contacts
    PROVE  TableOf(s)'
<1>1. InView(s)' = InView(s)
  BY InViewWindow, InViewWindowNext
<1>2. \A r \in InView(s) : cells'[s][SlotOf(r)].person = cells[s][SlotOf(r)].person
  <2>1. \A r \in InView(s) : SlotOf(r) \in Slot
    BY SlotType DEF InView
  <2> QED
    BY <2>1
<1> QED
  BY <1>1, <1>2 DEF TableOf

\* What reloadData does to the table that is loaded again, and to the other.
LEMMA Reloaded ==
    ASSUME TypeOK, NEW s \in Screen, NEW list \in Seq(Person),
           Len(list) <= Cardinality(Person), reloadData(s, list)
    PROVE  /\ rows' \in [Screen -> 0..Cardinality(Person)]
           /\ top' \in [Screen -> Nat]
           /\ \A x \in Screen : top'[x] = 0 \/ top'[x] + Visible <= rows'[x]
           /\ cells' \in [Screen -> [Slot -> CellType]]
           /\ rows'[s] = Len(list)
           /\ \A r \in InView(s)' : r \in 1..Len(list) /\ cells'[s][SlotOf(r)] = Cell(s, list[r])
           /\ \A x \in Screen \ {s} :
                  rows'[x] = rows[x] /\ top'[x] = top[x] /\ cells'[x] = cells[x]
<1> DEFINE n == Len(list)
           t == FirstRow(s, n)
<1>1. IsFiniteSet(Person) /\ Cardinality(Person) \in Nat
  BY ContactTablesAssumption, FS_CardinalityType
<1>2. top[s] \in Nat /\ n \in Nat /\ t \in Nat /\ (t = 0 \/ t + Visible <= n)
  BY FirstRowFits DEF TypeOK
<1>3. Shown(s, list) \in [Slot -> CellType]
  BY ShownType
<1>4. rows'[s] = n /\ top'[s] = t /\ cells'[s] = Shown(s, list)
  BY DEF reloadData, TypeOK
<1>5. \A x \in Screen \ {s} : rows'[x] = rows[x] /\ top'[x] = top[x] /\ cells'[x] = cells[x]
  BY DEF reloadData, TypeOK
<1>6. rows' \in [Screen -> 0..Cardinality(Person)]
  <2>1. n \in 0..Cardinality(Person)
    BY <1>1, <1>2
  <2> HIDE DEF n
  <2> QED
    BY <2>1 DEF reloadData, TypeOK, n
<1>7. top' \in [Screen -> Nat]
  BY <1>2 DEF reloadData, TypeOK
<1>8. cells' \in [Screen -> [Slot -> CellType]]
  BY <1>3 DEF reloadData, TypeOK, CellType
<1>9. \A r \in InView(s)' : r \in 1..n /\ cells'[s][SlotOf(r)] = Cell(s, list[r])
  <2>1. InView(s)' = Window(n, t)
    BY <1>4, InViewWindowNext
  <2> SUFFICES ASSUME NEW r \in Window(n, t)
               PROVE  r \in 1..n /\ Shown(s, list)[SlotOf(r)] = Cell(s, list[r])
    BY <1>4, <2>1
  <2> QED
    BY <1>2, ShownRows DEF Window
<1>10. \A x \in Screen : top'[x] = 0 \/ top'[x] + Visible <= rows'[x]
  <2> SUFFICES ASSUME NEW x \in Screen PROVE top'[x] = 0 \/ top'[x] + Visible <= rows'[x]
    OBVIOUS
  <2> HIDE DEF n, t
  <2>1. CASE x = s
    BY <2>1, <1>2, <1>4
  <2>2. CASE x # s
    BY <2>2, <1>5 DEF TypeOK
  <2> QED
    BY <2>1, <2>2
<1> QED
  BY <1>4, <1>5, <1>6, <1>7, <1>8, <1>9, <1>10

\* A table that is loaded again shows the new array.
LEMMA ReloadedTable ==
    ASSUME TypeOK, NEW s \in Screen, NEW list \in Seq(Person),
           Len(list) <= Cardinality(Person), reloadData(s, list),
           contacts' = list, s \in loaded'
    PROVE  TableOf(s)'
<1>1. rows'[s] = Len(list) /\ \A r \in InView(s)' : r \in 1..Len(list) /\ cells'[s][SlotOf(r)] = Cell(s, list[r])
  BY Reloaded
<1>2. \A r \in InView(s)' : cells'[s][SlotOf(r)].person = list[r] /\ list[r] \in Person
  <2>1. \A p : Cell(s, p).person = p
    BY DEF Cell
  <2>2. \A r \in 1..Len(list) : list[r] \in Person
    BY ElementOfSeq
  <2> QED
    BY <1>1, <2>1, <2>2
<1> QED
  BY <1>1, <1>2 DEF TableOf

\* The other table keeps what it has.
LEMMA OtherTable ==
    ASSUME TypeOK, NEW s \in Screen, NEW list \in Seq(Person),
           Len(list) <= Cardinality(Person), reloadData(s, list), ~trapped,
           NEW x \in Screen \ {s}, TableOf(x), x \in loaded' <=> x \in loaded,
           x \in loaded' \ replaced' => x \notin replaced /\ contacts' = contacts
    PROVE  TableOf(x)'
<1>1. rows'[x] = rows[x] /\ top'[x] = top[x] /\ cells'[x] = cells[x]
  BY Reloaded
<1> QED
  BY <1>1, TableKept

-----------------------------------------------------------------------------
(***************************************************************************)
(* Fetches and saves on their way.                                         *)
(***************************************************************************)

LEMMA FetchCounts ==
    ASSUME fetches \in [Asker -> 0..MaxCalls]
    PROVE  /\ \A s \in Asker : fetches[s] \in Nat /\ fetches[s] <= Unanswered
           /\ Unanswered \in Nat
<1>1. \A s \in Asker : s \in {"contacts", "createTrip", Nobody}
  BY DEF Asker, Screen
<1>2. \A s \in {"contacts", "createTrip", Nobody} : fetches[s] \in Nat
  BY ContactTablesAssumption DEF Asker, Screen
<1> QED
  BY <1>1, <1>2 DEF Unanswered

\* The numbers of calls on their way.
LEMMA CallsAreCounted ==
    ASSUME TypeOK
    PROVE  Unanswered \in Nat /\ Len(saves) \in Nat
<1>1. Unanswered \in Nat
  BY FetchCounts DEF TypeOK
<1>2. Len(saves) \in Nat
  BY DEF TypeOK
<1> QED
  BY <1>1, <1>2

LEMMA FetchesAsked ==
    ASSUME fetches \in [Asker -> 0..MaxCalls], NEW s \in Screen, NEW n \in Nat,
           Unanswered + n <= MaxCalls, fetches' = [fetches EXCEPT ![s] = @ + n]
    PROVE  fetches' \in [Asker -> 0..MaxCalls] /\ Unanswered' <= MaxCalls
<1>1. MaxCalls \in Nat
  BY ContactTablesAssumption
<1>2. \A x \in Asker : fetches[x] \in Nat /\ fetches[x] <= Unanswered
  BY FetchCounts
<1>3. Unanswered \in Nat
  BY FetchCounts
<1>4. fetches[s] + n \in 0..MaxCalls /\ s \in Asker
  BY <1>1, <1>2, <1>3, Screens
<1>5. Unanswered' = Unanswered + n
  <2>1. CASE s = "contacts"
    BY <2>1, <1>2 DEF Unanswered, Asker, Screen, Nobody
  <2>2. CASE s = "createTrip"
    BY <2>2, <1>2 DEF Unanswered, Asker, Screen, Nobody
  <2> QED
    BY <2>1, <2>2 DEF Screen
<1> QED
  BY <1>4, <1>5

LEMMA FetchAnswered ==
    ASSUME fetches \in [Asker -> 0..MaxCalls], NEW s \in Asker, fetches[s] > 0,
           Unanswered <= MaxCalls, fetches' = [fetches EXCEPT ![s] = @ - 1]
    PROVE  fetches' \in [Asker -> 0..MaxCalls] /\ Unanswered' <= MaxCalls
<1>1. MaxCalls \in Nat
  BY ContactTablesAssumption
<1>2. \A x \in Asker : fetches[x] \in Nat
  BY FetchCounts
<1>3. Unanswered \in Nat
  BY FetchCounts
<1>4. fetches[s] - 1 \in 0..MaxCalls
  BY <1>1, <1>2
<1>5. Unanswered' = Unanswered - 1
  <2>1. CASE s = "contacts"
    BY <2>1, <1>2 DEF Unanswered, Asker, Screen, Nobody
  <2>2. CASE s = "createTrip"
    BY <2>2, <1>2 DEF Unanswered, Asker, Screen, Nobody
  <2>3. CASE s = Nobody
    BY <2>3, <1>2 DEF Unanswered, Asker, Screen, Nobody
  <2> QED
    BY <2>1, <2>2, <2>3 DEF Asker, Screen
<1> QED
  BY <1>1, <1>3, <1>4, <1>5

\* What a screen asked for is asked for by nobody once it is gone.
LEMMA FetchesLeft ==
    ASSUME fetches \in [Asker -> 0..MaxCalls], NEW s \in Screen, Unanswered <= MaxCalls,
           fetches' = [fetches EXCEPT ![s] = 0, ![Nobody] = @ + fetches[s]]
    PROVE  fetches' \in [Asker -> 0..MaxCalls] /\ Unanswered' <= MaxCalls
<1>1. MaxCalls \in Nat
  BY ContactTablesAssumption
<1>2. \A x \in Asker : fetches[x] \in Nat
  BY FetchCounts
<1>3. Unanswered \in Nat
  BY FetchCounts
<1>4. Unanswered' = Unanswered /\ fetches[Nobody] + fetches[s] <= Unanswered
  <2>1. CASE s = "contacts"
    BY <2>1, <1>2 DEF Unanswered, Asker, Screen, Nobody
  <2>2. CASE s = "createTrip"
    BY <2>2, <1>2 DEF Unanswered, Asker, Screen, Nobody
  <2> QED
    BY <2>1, <2>2 DEF Screen
<1>5. fetches[Nobody] + fetches[s] \in 0..MaxCalls /\ 0 \in 0..MaxCalls
  BY <1>1, <1>2, <1>3, <1>4, Screens
<1> QED
  BY <1>4, <1>5

SaveType == [screen : Screen, cell : Slot]

LEMMA Interval ==
    ASSUME NEW n \in Nat
    PROVE  IsFiniteSet(1..n) /\ Cardinality(1..n) = n
BY FS_Interval

LEMMA ListOf ==
    ASSUME NEW T, NEW n \in Nat, NEW f \in [1..n -> T]
    PROVE  f \in Seq(T) /\ Len(f) = n
OBVIOUS

\* The saves that do not belong to a screen, in their order: its own are gone, the
\* others are all there.
LEMMA SavesLeft ==
    ASSUME NEW q \in Seq(SaveType), NEW s, NEW rest, rest = SavesOfOthers(s, q)
    PROVE  /\ rest \in Seq(SaveType) /\ Len(rest) <= Len(q)
           /\ \A i \in DOMAIN rest : rest[i].screen # s
           /\ \A i \in DOMAIN q : q[i].screen # s => \E j \in DOMAIN rest : rest[j] = q[i]
<1> DEFINE S == {i \in DOMAIN q : q[i].screen # s}
           kept == InOrder(S)
<1>0. rest = [i \in DOMAIN kept |-> q[kept[i]]]
  BY DEF SavesOfOthers
<1>1. Len(q) \in Nat /\ DOMAIN q = 1..Len(q)
  OBVIOUS
<1>2. S \in SUBSET Nat /\ IsFiniteSet(S) /\ Cardinality(S) <= Len(q) /\ Cardinality(S) \in Nat
  <2>1. IsFiniteSet(1..Len(q)) /\ Cardinality(1..Len(q)) = Len(q)
    BY <1>1, Interval
  <2>2. S \in SUBSET (1..Len(q))
    BY <1>1
  <2> HIDE DEF S
  <2>3. IsFiniteSet(S) /\ Cardinality(S) <= Cardinality(1..Len(q))
    BY <2>1, <2>2, FS_Subset
  <2>4. Cardinality(S) \in Nat
    BY <2>3, FS_CardinalityType
  <2>5. S \in SUBSET Nat
    BY <2>2
  <2> QED
    BY <2>1, <2>3, <2>4, <2>5
<1> DEFINE n == Cardinality(S)
<1>3. /\ kept \in Seq(S) /\ Len(kept) = n
      /\ \A x \in S : \E i \in 1..n : kept[i] = x
  <2> HIDE DEF S
  <2> QED
    BY <1>2, InOrderLists
<1>4. DOMAIN kept = 1..n /\ \A i \in 1..n : kept[i] \in S
  <2> HIDE DEF S, n, kept
  <2>1. DOMAIN kept = 1..Len(kept)
    BY <1>3
  <2>2. \A i \in 1..Len(kept) : kept[i] \in S
    BY <1>3, ElementOfSeq
  <2> QED
    BY <1>3, <2>1, <2>2
<1>5. \A x \in S : x \in DOMAIN q /\ q[x] \in SaveType /\ q[x].screen # s
  BY <1>1, ElementOfSeq
<1>6. \A x \in DOMAIN q : q[x].screen # s => x \in S
  OBVIOUS
<1> HIDE DEF S, n, kept
<1>7. rest \in [1..n -> SaveType]
  BY <1>0, <1>4, <1>5
<1>8. rest \in Seq(SaveType) /\ Len(rest) = n
  BY <1>2, <1>7, ListOf DEF n
<1>9. \A i \in 1..n : rest[i].screen # s
  BY <1>0, <1>4, <1>5
<1>10. ASSUME NEW i \in DOMAIN q, q[i].screen # s
       PROVE  \E j \in DOMAIN rest : rest[j] = q[i]
  <2>1. PICK j \in 1..n : kept[j] = i
    BY <1>3, <1>6, <1>10 DEF n
  <2> QED
    BY <1>0, <1>4, <2>1
<1> QED
  BY <1>0, <1>2, <1>4, <1>8, <1>9, <1>10 DEF n

-----------------------------------------------------------------------------
(***************************************************************************)
(* Every operation keeps the invariant.                                    *)
(***************************************************************************)

LEMMA InitTable == Init => TableInv
<1> SUFFICES ASSUME Init PROVE TableInv
  OBVIOUS
<1>1. Visible \in Nat \ {0} /\ MaxCalls \in Nat
      /\ Cardinality(Person) \in Nat
  BY ContactTablesAssumption, FS_CardinalityType
<1>2. TypeOK
  <2>1. rows \in [Screen -> 0..Cardinality(Person)]
    BY <1>1 DEF Init
  <2>2. fetches \in [Asker -> 0..MaxCalls]
    BY <1>1 DEF Init
  <2>3. cells \in [Screen -> [Slot -> [person : Person \cup {0}, label : BOOLEAN]]]
    BY DEF Init, NoCell
  <2>4. contacts \in Seq(Person) /\ saves \in Seq([screen : Screen, cell : Slot]) /\ Len(saves) <= MaxCalls
    BY <1>1 DEF Init
  <2> QED
    BY <2>1, <2>2, <2>3, <2>4 DEF Init, TypeOK
<1>3. Unanswered <= MaxCalls
  BY <1>1 DEF Init, Unanswered, Asker, Screen, Nobody
<1>4. InNameOrder
  BY <1>1 DEF Init, InNameOrder
<1>5. \A s \in Screen : TableOf(s)
  BY DEF Init, TableOf, InView
<1> QED
  BY <1>2, <1>3, <1>4, <1>5 DEF TableInv, Init

\* The array that a fetch makes.
LEMMA FetchedArray ==
    ASSUME NEW S \in SUBSET Person
    PROVE  /\ ByName(S) \in Seq(Person) /\ Len(ByName(S)) <= Cardinality(Person)
           /\ contacts' = ByName(S) => InNameOrder'
<1>1. IsFiniteSet(S) /\ Cardinality(S) <= Cardinality(Person) /\ S \in SUBSET Nat
  BY ContactTablesAssumption, FS_Subset
<1>2. /\ InOrder(S) \in Seq(S) /\ Len(InOrder(S)) = Cardinality(S)
      /\ \A i, j \in 1..Cardinality(S) : i < j => InOrder(S)[i] < InOrder(S)[j]
  BY <1>1, InOrderLists
<1>3. Seq(S) \subseteq Seq(Person)
  OBVIOUS
<1> QED
  BY <1>1, <1>2, <1>3 DEF ByName, InNameOrder

\* Operations that touch neither the array nor the tables.
LEMMA TablesUntouched ==
    ASSUME TableInv, UNCHANGED <<contacts, loaded, rows, top, cells, replaced, trapped>>
    PROVE  InNameOrder' /\ \A s \in Screen : TableOf(s)'
BY DEF TableInv, InNameOrder, TableOf, InView

LEMMA ViewDidLoadTable ==
    ASSUME TableInv, NEW s \in Screen, viewDidLoad(s)
    PROVE  TableInv'
<1> USE DEF viewDidLoad
<1>1. TypeOK /\ Unanswered <= MaxCalls /\ InNameOrder /\ \A x \in Screen : TableOf(x)
  BY DEF TableInv
<1>2. contacts \in Seq(Person) /\ Len(contacts) <= Cardinality(Person)
  BY <1>1 DEF TypeOK, InNameOrder
<1>3. fetches' \in [Asker -> 0..MaxCalls] /\ Unanswered' <= MaxCalls
  <2>1. Unanswered + 2 <= MaxCalls
    BY <1>1, CallsAreCounted, ContactTablesAssumption
  <2> QED
    BY <1>1, <2>1, FetchesAsked DEF TypeOK
<1>4. TypeOK'
  <2>1. loaded' \subseteq Screen /\ shown' \in loaded' \cup {Nobody}
        /\ replaced' \subseteq loaded' /\ reread' \subseteq loaded'
    BY <1>1 DEF TypeOK
  <2>2. rows' \in [Screen -> 0..Cardinality(Person)] /\ top' \in [Screen -> Nat]
        /\ (\A x \in Screen : top'[x] = 0 \/ top'[x] + Visible <= rows'[x])
        /\ cells' \in [Screen -> [Slot -> CellType]]
    BY <1>1, <1>2, Reloaded
  <2> QED
    BY <1>1, <1>3, <2>1, <2>2 DEF TypeOK, CellType
<1>5. InNameOrder'
  BY <1>1 DEF InNameOrder
<1>6. ASSUME NEW x \in Screen PROVE TableOf(x)'
  <2>1. CASE x = s
    BY <2>1, <1>1, <1>2, ReloadedTable
  <2>2. CASE x # s
    BY <2>2, <1>1, <1>2, OtherTable
  <2> QED
    BY <2>1, <2>2
<1> QED
  BY <1>3, <1>4, <1>5, <1>6 DEF TableInv

LEMMA ViewWillAppearTable ==
    ASSUME TableInv, NEW s \in Screen, viewWillAppear(s)
    PROVE  TableInv'
<1> USE DEF viewWillAppear
<1>1. TypeOK /\ Unanswered <= MaxCalls
  BY DEF TableInv
<1>2. Unanswered + 1 <= MaxCalls
  BY <1>1, CallsAreCounted, ContactTablesAssumption
<1>3. fetches' \in [Asker -> 0..MaxCalls] /\ Unanswered' <= MaxCalls
  BY <1>1, <1>2, FetchesAsked DEF TypeOK
<1>4. TypeOK'
  BY <1>1, <1>3 DEF TypeOK
<1> QED
  BY <1>3, <1>4, TablesUntouched DEF TableInv

LEMMA FetchFailedTable ==
    ASSUME TableInv, NEW s \in Asker, fetchFailed(s)
    PROVE  TableInv'
<1> USE DEF fetchFailed
<1>1. TypeOK /\ Unanswered <= MaxCalls
  BY DEF TableInv
<1>2. fetches' \in [Asker -> 0..MaxCalls] /\ Unanswered' <= MaxCalls
  BY <1>1, FetchAnswered DEF TypeOK
<1>3. TypeOK'
  BY <1>1, <1>2 DEF TypeOK
<1> QED
  BY <1>2, <1>3, TablesUntouched DEF TableInv

LEMMA TripTappedTable ==
    ASSUME TableInv, createTripButtonTapped
    PROVE  TableInv'
<1>1. TypeOK' /\ Unanswered' <= MaxCalls
  BY DEF TableInv, TypeOK, createTripButtonTapped, Unanswered
<1> QED
  BY <1>1, TablesUntouched DEF TableInv, createTripButtonTapped

\* Operations that change a list and no table.
LEMMA ListsTable ==
    ASSUME TableInv, marked' \in [Screen -> SUBSET Person],
           trip' \in {"none", "present", "popping", "earlier"}, reread' \subseteq loaded,
           UNCHANGED <<contacts, loaded, shown, rows, top, cells, fetches, saves, replaced, trapped>>
    PROVE  TableInv'
<1>1. TypeOK' /\ Unanswered' <= MaxCalls
  BY DEF TableInv, TypeOK, Unanswered
<1> QED
  BY <1>1, TablesUntouched DEF TableInv

LEMMA InvitedRemovedTable ==
    ASSUME TableInv, earlierTripStored \/ tripStored
    PROVE  TableInv'
<1>1. marked' \in [Screen -> SUBSET Person] /\ reread' \subseteq loaded
  BY DEF TableInv, TypeOK, earlierTripStored, tripStored, InvitedRemoved
<1>2. trip' \in {"none", "present", "popping", "earlier"}
      /\ UNCHANGED <<contacts, loaded, shown, rows, top, cells, fetches, saves, replaced, trapped>>
  BY DEF earlierTripStored, tripStored, InvitedRemoved
<1> QED
  BY <1>1, <1>2, ListsTable

LEMMA UserInitializedTable ==
    ASSUME TableInv, NEW lists \in [Screen -> SUBSET Person], userInitialized(lists)
    PROVE  TableInv'
<1>1. marked' \in [Screen -> SUBSET Person] /\ reread' \subseteq loaded
  BY DEF TableInv, TypeOK, userInitialized
<1>2. trip' \in {"none", "present", "popping", "earlier"}
      /\ UNCHANGED <<contacts, loaded, shown, rows, top, cells, fetches, saves, replaced, trapped>>
  BY DEF TableInv, TypeOK, userInitialized
<1> QED
  BY <1>1, <1>2, ListsTable

LEMMA ContactsFetchedTable ==
    ASSUME TableInv, NEW s \in Asker, NEW S \in SUBSET Person, contactsFetched(s, S)
    PROVE  TableInv'
<1> USE DEF contactsFetched
<1>1. TypeOK /\ Unanswered <= MaxCalls /\ \A x \in Screen : TableOf(x)
  BY DEF TableInv
<1>2. fetches' \in [Asker -> 0..MaxCalls] /\ Unanswered' <= MaxCalls
  BY <1>1, FetchAnswered DEF TypeOK
<1>3. /\ ByName(S) \in Seq(Person) /\ Len(ByName(S)) <= Cardinality(Person)
      /\ InNameOrder' /\ contacts' \in Seq(Person)
  BY FetchedArray
<1>4. CASE s \in loaded /\ S # {}
  <2>1. s \in Screen /\ reloadData(s, ByName(S)) /\ replaced' = loaded \ {s}
        /\ reread' = reread \ {s}
    BY <1>1, <1>4 DEF TypeOK
  <2>2. rows' \in [Screen -> 0..Cardinality(Person)] /\ top' \in [Screen -> Nat]
        /\ (\A x \in Screen : top'[x] = 0 \/ top'[x] + Visible <= rows'[x])
        /\ cells' \in [Screen -> [Slot -> CellType]]
    BY <1>1, <1>3, <2>1, Reloaded
  <2>3. TypeOK'
    BY <1>1, <1>2, <1>3, <2>1, <2>2 DEF TypeOK, CellType
  <2>4. ASSUME NEW x \in Screen PROVE TableOf(x)'
    <3>1. CASE x = s
      BY <3>1, <1>1, <1>3, <1>4, <2>1, ReloadedTable
    <3>2. CASE x # s
      BY <3>2, <1>1, <1>3, <2>1, OtherTable
    <3> QED
      BY <3>1, <3>2
  <2> QED
    BY <1>2, <1>3, <2>3, <2>4 DEF TableInv
<1>5. CASE ~(s \in loaded /\ S # {})
  <2>1. replaced' = loaded /\ UNCHANGED <<rows, top, cells, reread>>
    BY <1>5
  <2>2. TypeOK'
    BY <1>1, <1>2, <1>3, <2>1 DEF TypeOK
  <2>3. \A x \in Screen : TableOf(x)'
    BY <1>1, <2>1, TableKept
  <2> QED
    BY <1>2, <1>3, <2>2, <2>3 DEF TableInv
<1> QED
  BY <1>4, <1>5

LEMMA FetchCutShortTable ==
    ASSUME TableInv, NEW s \in Asker, NEW S \in SUBSET Person, fetchCutShort(s, S)
    PROVE  TableInv'
<1> USE DEF fetchCutShort
<1>1. TypeOK /\ Unanswered <= MaxCalls /\ \A x \in Screen : TableOf(x)
  BY DEF TableInv
<1>2. fetches' \in [Asker -> 0..MaxCalls] /\ Unanswered' <= MaxCalls
  BY <1>1, FetchAnswered DEF TypeOK
<1>3. InNameOrder' /\ contacts' \in Seq(Person)
  BY FetchedArray
<1>4. TypeOK'
  BY <1>1, <1>2, <1>3 DEF TypeOK
<1>5. \A x \in Screen : TableOf(x)'
  BY <1>1, TableKept
<1> QED
  BY <1>2, <1>3, <1>4, <1>5 DEF TableInv

\* The part of the invariant about the tables, the fetches and the saves.
TablesOK ==
    /\ fetches \in [Asker -> 0..MaxCalls] /\ Unanswered <= MaxCalls
    /\ saves \in Seq(SaveType) /\ Len(saves) <= MaxCalls
    /\ rows \in [Screen -> 0..Cardinality(Person)] /\ top \in [Screen -> Nat]
    /\ \A s \in Screen : top[s] = 0 \/ top[s] + Visible <= rows[s]
    /\ cells \in [Screen -> [Slot -> CellType]]
    /\ loaded \subseteq Screen /\ shown \in loaded \cup {Nobody}
    /\ replaced \subseteq loaded /\ reread \subseteq loaded
    /\ InNameOrder
    /\ \A s \in Screen : TableOf(s)

\* Leaving a screen keeps it.
LEMMA Left ==
    ASSUME TableInv, ~trapped, NEW s \in Screen, Leave(s), UNCHANGED <<contacts, trapped>>
    PROVE  TablesOK'
<1> USE DEF Leave
<1>1. TypeOK /\ Unanswered <= MaxCalls /\ \A x \in Screen : TableOf(x)
  BY DEF TableInv
<1>2. fetches' \in [Asker -> 0..MaxCalls] /\ Unanswered' <= MaxCalls
  BY <1>1, FetchesLeft DEF TypeOK
<1>3. saves' \in Seq(SaveType) /\ Len(saves') <= MaxCalls
  <2>1. saves \in Seq(SaveType) /\ Len(saves) <= MaxCalls /\ MaxCalls \in Nat
    BY <1>1, ContactTablesAssumption DEF TypeOK, SaveType
  <2>2. saves' \in Seq(SaveType) /\ Len(saves') <= Len(saves)
    <3>1. saves' = SavesOfOthers(s, saves)
      OBVIOUS
    <3> QED
      BY <2>1, <3>1, SavesLeft
  <2>3. Len(saves) \in Nat /\ Len(saves') \in Nat
    BY <2>1, <2>2
  <2> QED
    BY <2>1, <2>2, <2>3
<1>4. Cardinality(Person) \in Nat
  BY ContactTablesAssumption, FS_CardinalityType
<1>5. rows' \in [Screen -> 0..Cardinality(Person)] /\ top' \in [Screen -> Nat]
  BY <1>1, <1>4 DEF TypeOK
<1>6. rows'[s] = 0 /\ top'[s] = 0
      /\ \A x \in Screen \ {s} : rows'[x] = rows[x] /\ top'[x] = top[x] /\ cells'[x] = cells[x]
  BY <1>1 DEF TypeOK
<1>7. \A x \in Screen : top'[x] = 0 \/ top'[x] + Visible <= rows'[x]
  BY <1>1, <1>6 DEF TypeOK
<1>8. cells' \in [Screen -> [Slot -> CellType]]
  <2>1. [k \in Slot |-> NoCell] \in [Slot -> CellType]
    BY DEF NoCell, CellType
  <2> QED
    BY <1>1, <2>1 DEF TypeOK, CellType
<1>9. loaded' \subseteq Screen /\ shown' \in loaded' \cup {Nobody}
      /\ replaced' \subseteq loaded' /\ reread' \subseteq loaded'
  BY <1>1 DEF TypeOK
<1>10. InNameOrder'
  BY DEF TableInv, InNameOrder
<1>11. ASSUME NEW x \in Screen PROVE TableOf(x)'
  <2>1. CASE x = s
    <3>1. InView(x)' = {}
      BY <1>6, <2>1 DEF InView
    <3> QED
      BY <1>6, <2>1, <3>1 DEF TableOf
  <2>2. CASE x # s
    BY <1>1, <1>6, <2>2, TableKept
  <2> QED
    BY <2>1, <2>2
<1> QED
  BY <1>2, <1>3, <1>5, <1>7, <1>8, <1>9, <1>10, <1>11 DEF TablesOK

LEMMA BackTable ==
    ASSUME TableInv, back
    PROVE  TableInv'
<1>1. TypeOK /\ ~trapped /\ shown \in Screen /\ Leave(shown) /\ UNCHANGED <<contacts, marked, trapped>>
  BY DEF back, TableInv, TypeOK
<1>2. trip' \in {"none", "present", "popping", "earlier"}
  BY <1>1 DEF back, TypeOK
<1>3. TablesOK'
  BY <1>1, Left
<1>4. TypeOK'
  BY <1>1, <1>2, <1>3 DEF TypeOK, CellType, SaveType, TablesOK
<1> QED
  BY <1>1, <1>3, <1>4 DEF TableInv, TablesOK

LEMMA PopToRootTable ==
    ASSUME TableInv, popToRoot
    PROVE  TableInv'
<1>1. TypeOK /\ ~trapped /\ "createTrip" \in Screen /\ Leave("createTrip")
      /\ trip' = "none" /\ UNCHANGED <<contacts, marked, trapped>>
  BY DEF popToRoot, TableInv, Screen
<1>2. TablesOK'
  BY <1>1, Left
<1>3. TypeOK'
  BY <1>1, <1>2 DEF TypeOK, CellType, SaveType, TablesOK
<1> QED
  BY <1>1, <1>2, <1>3 DEF TableInv, TablesOK

LEMMA CellSet ==
    ASSUME cells \in [Screen -> [Slot -> CellType]], NEW s \in Screen, NEW k \in Slot,
           NEW c \in CellType, cells' = [cells EXCEPT ![s][k] = c]
    PROVE  /\ cells' \in [Screen -> [Slot -> CellType]] /\ cells'[s][k] = c
           /\ \A x \in Screen, i \in Slot : <<x, i>> # <<s, k>> => cells'[x][i] = cells[x][i]
<1>1. cells' \in [Screen -> [Slot -> CellType]]
  OBVIOUS
<1>2. cells'[s][k] = c
  OBVIOUS
<1>3. \A x \in Screen, i \in Slot : <<x, i>> # <<s, k>> => cells'[x][i] = cells[x][i]
  OBVIOUS
<1> QED
  BY <1>1, <1>2, <1>3

\* updateViews changes one label.
LEMMA RelabelledCells ==
    ASSUME TypeOK, NEW s \in Screen, NEW k \in Slot, NEW m, cells' = Relabelled(s, k, m)
    PROVE  /\ cells' \in [Screen -> [Slot -> CellType]]
           /\ \A x \in Screen, i \in Slot : cells'[x][i].person = cells[x][i].person
           /\ \A x \in Screen, i \in Slot : <<x, i>> # <<s, k>> => cells'[x][i] = cells[x][i]
           /\ cells'[s][k].label = (cells[s][k].person \in m)
<1>1. cells \in [Screen -> [Slot -> CellType]]
  BY DEF TypeOK, CellType
<1> DEFINE b == cells[s][k].person \in m
           c == [cells[s][k] EXCEPT !.label = b]
<1>2. cells[s][k] \in CellType
  BY <1>1
<1>3. c \in CellType /\ c.person = cells[s][k].person /\ c.label = b
  <2>1. b \in BOOLEAN
    OBVIOUS
  <2> HIDE DEF b
  <2> QED
    BY <1>2, <2>1 DEF CellType
<1>4. cells' = [cells EXCEPT ![s][k] = c]
  BY <1>1, <1>2 DEF Relabelled
<1> HIDE DEF b, c
<1>5. /\ cells' \in [Screen -> [Slot -> CellType]] /\ cells'[s][k] = c
      /\ \A x \in Screen, i \in Slot : <<x, i>> # <<s, k>> => cells'[x][i] = cells[x][i]
  BY <1>1, <1>3, <1>4, CellSet
<1>6. ASSUME NEW x \in Screen, NEW i \in Slot
      PROVE  cells'[x][i].person = cells[x][i].person
  BY <1>3, <1>5
<1> QED
  BY <1>3, <1>5, <1>6 DEF b

LEMMA SaveAnsweredTable ==
    ASSUME TableInv, saveAnswered
    PROVE  TableInv'
<1> USE DEF saveAnswered
<1>1. TypeOK /\ \A x \in Screen : TableOf(x)
  BY DEF TableInv
<1> DEFINE a == Head(saves)
<1>2. a \in SaveType /\ saves' \in Seq(SaveType) /\ Len(saves') <= MaxCalls
  <2>1. saves \in Seq(SaveType) /\ saves # <<>> /\ Len(saves) <= MaxCalls /\ MaxCalls \in Nat
    BY <1>1, ContactTablesAssumption DEF TypeOK, SaveType
  <2>2. Head(saves) \in SaveType /\ Tail(saves) \in Seq(SaveType) /\ Len(Tail(saves)) = Len(saves) - 1
    BY <2>1, HeadTailProperties
  <2>3. Len(saves) \in Nat
    BY <2>1
  <2> QED
    BY <2>1, <2>2, <2>3
<1>3. a.screen \in Screen /\ a.cell \in Slot
  BY <1>2 DEF SaveType
<1>4. cells' = Relabelled(a.screen, a.cell, marked[a.screen])
  OBVIOUS
<1> HIDE DEF a
<1>5. cells' \in [Screen -> [Slot -> CellType]]
      /\ \A x \in Screen, i \in Slot : cells'[x][i].person = cells[x][i].person
  BY <1>1, <1>3, <1>4, RelabelledCells
<1>6. TypeOK'
  BY <1>1, <1>2, <1>5 DEF TypeOK, CellType, SaveType
<1>7. \A x \in Screen : TableOf(x)'
  BY <1>1, <1>5, TableKept
<1>8. Unanswered' <= MaxCalls /\ InNameOrder'
  BY DEF TableInv, Unanswered, InNameOrder
<1> QED
  BY <1>6, <1>7, <1>8 DEF TableInv

\* A cell in view holds a person.
LEMMA CellHasPerson ==
    ASSUME TableInv, ~trapped, NEW s \in Screen, NEW k \in Slot, CellInView(s, k)
    PROVE  cells[s][k].person \in Person
BY DEF TableInv, TableOf, CellInView

LEMMA ButtonTappedTable ==
    ASSUME TableInv, NEW s \in Screen, NEW k \in Slot, buttonTapped(s, k)
    PROVE  TableInv'
<1> USE DEF buttonTapped
<1> DEFINE p == TappedPerson(s, k)
<1>1. TypeOK /\ ~trapped /\ \A x \in Screen : TableOf(x)
  BY DEF TableInv
<1>2. p \in Person
  BY CellHasPerson DEF TappedPerson
<1>3. saves' \in Seq(SaveType) /\ Len(saves') <= MaxCalls
  <2>1. saves \in Seq(SaveType) /\ Len(saves) < MaxCalls /\ MaxCalls \in Nat
    <3>1. Unanswered + Len(saves) < MaxCalls /\ Unanswered \in Nat /\ Len(saves) \in Nat
      BY <1>1, CallsAreCounted
    <3> QED
      BY <1>1, <3>1, ContactTablesAssumption DEF TypeOK, SaveType
  <2>2. [screen |-> s, cell |-> k] \in SaveType
    BY DEF SaveType
  <2>3. saves' = Append(saves, [screen |-> s, cell |-> k])
    OBVIOUS
  <2>4. saves' \in Seq(SaveType) /\ Len(saves') = Len(saves) + 1 /\ Len(saves) \in Nat
    BY <2>1, <2>2, <2>3, AppendProperties
  <2> QED
    BY <2>1, <2>4
<1>4. marked' \in [Screen -> SUBSET Person]
  <2> HIDE DEF p
  <2>1. CASE p \in marked[s]
    <3>1. marked' = [marked EXCEPT ![s] = @ \ {p}]
      BY <2>1 DEF p
    <3> QED
      BY <1>1, <3>1 DEF TypeOK
  <2>2. CASE p \notin marked[s]
    <3>1. marked' = [marked EXCEPT ![s] = @ \cup {p}]
      BY <2>2 DEF p
    <3> QED
      BY <1>1, <1>2, <3>1 DEF TypeOK
  <2> QED
    BY <2>1, <2>2
<1>5. cells' \in [Screen -> [Slot -> CellType]]
      /\ \A x \in Screen, i \in Slot : cells'[x][i].person = cells[x][i].person
  <2>1. CASE p \in marked[s]
    BY <1>1, <2>1, RelabelledCells
  <2>2. CASE p \notin marked[s]
    BY <1>1, <2>2 DEF TypeOK, CellType
  <2> QED
    BY <2>1, <2>2
<1>6. TypeOK'
  BY <1>1, <1>3, <1>4, <1>5 DEF TypeOK, CellType, SaveType
<1>7. \A x \in Screen : TableOf(x)'
  BY <1>1, <1>5, TableKept
<1>8. Unanswered' <= MaxCalls /\ InNameOrder'
  BY DEF TableInv, Unanswered, InNameOrder
<1> QED
  BY <1>6, <1>7, <1>8 DEF TableInv

\* A table in front scrolls by a row: the row that comes into view is filled from
\* the array, if the array has it; every other row in view was in view before.
LEMMA Scrolled ==
    ASSUME TableInv, ~trapped, NEW s \in Screen, shown = s, NEW t \in Nat,
           t + Visible <= rows[s], top' = [top EXCEPT ![s] = t],
           NEW r \in Window(rows[s], t),
           \A q \in Window(rows[s], t) : q = r \/ q \in InView(s),
           cellForRow(s, r)
    PROVE  TableInv'
<1> USE DEF cellForRow
<1>1. TypeOK /\ s \in loaded /\ (\A x \in Screen : TableOf(x))
  BY DEF TableInv, TypeOK, Nobody, Screen
<1>2. rows[s] \in Nat /\ r \in 1..rows[s] /\ SlotOf(r) \in Slot
  <2>1. rows[s] \in Nat
    BY <1>1, ContactTablesAssumption, FS_CardinalityType DEF TypeOK
  <2>2. r \in 1..rows[s]
    BY DEF Window
  <2> QED
    BY <2>1, <2>2, SlotType
<1>3. s \notin replaced => r \in DOMAIN contacts
  <2>1. s \notin replaced => rows[s] = Len(contacts)
    BY <1>1 DEF TableOf
  <2>2. DOMAIN contacts = 1..Len(contacts)
    BY <1>1 DEF TypeOK
  <2> QED
    BY <1>2, <2>1, <2>2
<1>4. top' \in [Screen -> Nat] /\ top'[s] = t /\ (\A x \in Screen \ {s} : top'[x] = top[x])
  BY <1>1 DEF TypeOK
<1>5. \A x \in Screen : top'[x] = 0 \/ top'[x] + Visible <= rows'[x]
  BY <1>1, <1>4 DEF TypeOK
<1>6. r \in DOMAIN contacts => contacts[r] \in Person
  BY <1>1 DEF TypeOK
<1>7. cells \in [Screen -> [Slot -> CellType]]
  BY <1>1 DEF TypeOK, CellType
<1>8. /\ cells' \in [Screen -> [Slot -> CellType]]
      /\ \A x \in Screen, k \in Slot : <<x, k>> # <<s, SlotOf(r)>> => cells'[x][k] = cells[x][k]
      /\ r \in DOMAIN contacts => cells'[s][SlotOf(r)].person = contacts[r]
  <2>1. CASE r \in DOMAIN contacts
    <3> DEFINE c == Cell(s, contacts[r])
               k == SlotOf(r)
    <3>1. c \in CellType /\ c.person = contacts[r]
      BY <2>1, <1>6 DEF Cell, CellType
    <3>2. cells' = [cells EXCEPT ![s][k] = c] /\ k \in Slot
      BY <2>1, <1>2
    <3> HIDE DEF c, k, cellForRow
    <3>3. /\ cells' \in [Screen -> [Slot -> CellType]] /\ cells'[s][k] = c
          /\ \A x \in Screen, i \in Slot : <<x, i>> # <<s, k>> => cells'[x][i] = cells[x][i]
      BY <1>7, <3>1, <3>2, CellSet
    <3> QED
      BY <3>1, <3>3 DEF k
  <2>2. CASE r \notin DOMAIN contacts
    BY <1>7, <2>2
  <2> QED
    BY <2>1, <2>2
<1>9. trapped' \in BOOLEAN /\ (trapped' => r \notin DOMAIN contacts)
  OBVIOUS
<1>10. TypeOK'
  BY <1>1, <1>4, <1>5, <1>8, <1>9 DEF TypeOK, CellType
<1>11. TableOf(s)'
  <2>1. InView(s)' = Window(rows[s], t)
    BY <1>4, InViewWindowNext
  <2>2. \A q \in Window(rows[s], t) : q # r => SlotOf(q) \in Slot /\ SlotOf(q) # SlotOf(r) /\ q \in InView(s)
    BY <1>2, WindowApart, SlotType DEF Window
  <2>3. \A q \in Window(rows[s], t) : q # r => cells'[s][SlotOf(q)] = cells[s][SlotOf(q)]
    BY <1>8, <2>2
  <2>4. ~trapped' => \A q \in InView(s)' : cells'[s][SlotOf(q)].person \in Person
    <3> SUFFICES ASSUME ~trapped', NEW q \in Window(rows[s], t)
                 PROVE  cells'[s][SlotOf(q)].person \in Person
      BY <2>1
    <3>1. CASE q = r
      BY <3>1, <1>6, <1>8
    <3>2. CASE q # r
      BY <3>2, <1>1, <2>2, <2>3 DEF TableOf
    <3> QED
      BY <3>1, <3>2
  <2>5. ASSUME s \notin replaced
        PROVE  rows[s] = Len(contacts) /\ \A q \in InView(s)' : cells'[s][SlotOf(q)].person = contacts[q]
    <3>1. rows[s] = Len(contacts)
      BY <2>5, <1>1 DEF TableOf
    <3>2. ASSUME NEW q \in Window(rows[s], t) PROVE cells'[s][SlotOf(q)].person = contacts[q]
      <4>1. CASE q = r
        BY <4>1, <2>5, <1>3, <1>8
      <4>2. CASE q # r
        BY <4>2, <2>5, <1>1, <2>2, <2>3 DEF TableOf
      <4> QED
        BY <4>1, <4>2
    <3> QED
      BY <2>1, <3>1, <3>2
  <2> QED
    BY <1>1, <2>4, <2>5 DEF TableOf
<1>12. ASSUME NEW x \in Screen, x # s PROVE TableOf(x)'
  <2>1. \A k \in Slot : cells'[x][k].person = cells[x][k].person
    BY <1>8, <1>12
  <2> QED
    BY <1>1, <1>4, <1>12, <2>1, TableKept
<1>13. trapped' => replaced' # {}
  BY <1>3, <1>9
<1>14. Unanswered' <= MaxCalls /\ InNameOrder'
  BY DEF TableInv, Unanswered, InNameOrder
<1> QED
  BY <1>10, <1>11, <1>12, <1>13, <1>14 DEF TableInv

\* Both ways of scrolling move the table by a row.
ScrolledBy(s, t, r) ==
    /\ t + Visible <= rows[s]
    /\ top' = [top EXCEPT ![s] = t]
    /\ \A q \in Window(rows[s], t) : q = r \/ q \in InView(s)
    /\ cellForRow(s, r)

LEMMA ScrollStep ==
    ASSUME TableInv, NEW s \in Screen, scrollDown(s) \/ scrollUp(s)
    PROVE  /\ shown = s /\ ~trapped
           /\ \E t \in Nat : \E r \in Window(rows[s], t) : ScrolledBy(s, t, r)
<1>1. TypeOK /\ ~trapped /\ shown = s /\ Visible \in Nat \ {0}
  BY ContactTablesAssumption DEF TableInv, scrollDown, scrollUp
<1>2. top[s] \in Nat /\ rows[s] \in Nat
  BY <1>1, ContactTablesAssumption, FS_CardinalityType DEF TypeOK
<1>3. CASE scrollDown(s)
  <2> DEFINE t == top[s] + 1
             r == top[s] + Visible + 1
  <2>1. top[s] + Visible < rows[s] /\ top' = [top EXCEPT ![s] = t] /\ cellForRow(s, r)
    BY <1>3 DEF scrollDown
  <2>2. t \in Nat /\ t + Visible <= rows[s] /\ r \in Window(rows[s], t)
        /\ \A q \in Window(rows[s], t) : q = r \/ q \in InView(s)
    BY <1>1, <1>2, <2>1 DEF Window, InView
  <2> HIDE DEF t, r
  <2> QED
    BY <1>1, <2>1, <2>2 DEF ScrolledBy
<1>4. CASE scrollUp(s)
  <2> DEFINE t == top[s] - 1
             r == top[s]
  <2>1. top[s] > 0 /\ top' = [top EXCEPT ![s] = t] /\ cellForRow(s, r)
        /\ top[s] + Visible <= rows[s]
    BY <1>1, <1>2, <1>4 DEF scrollUp, TypeOK
  <2>2. t \in Nat /\ t + Visible <= rows[s] /\ r \in Window(rows[s], t)
        /\ \A q \in Window(rows[s], t) : q = r \/ q \in InView(s)
    BY <1>1, <1>2, <2>1 DEF Window, InView
  <2> HIDE DEF t, r
  <2> QED
    BY <1>1, <2>1, <2>2 DEF ScrolledBy
<1> QED
  BY <1>3, <1>4

LEMMA ScrollTable ==
    ASSUME TableInv, NEW s \in Screen, scrollDown(s) \/ scrollUp(s)
    PROVE  TableInv'
<1>1. PICK t \in Nat : \E r \in Window(rows[s], t) : ScrolledBy(s, t, r)
  BY ScrollStep
<1>2. PICK r \in Window(rows[s], t) : ScrolledBy(s, t, r)
  BY <1>1
<1>3. shown = s /\ ~trapped
  BY ScrollStep
<1> QED
  BY <1>2, <1>3, Scrolled DEF ScrolledBy

LEMMA NextTable == TableInv /\ [Next]_vars => TableInv'
<1> SUFFICES ASSUME TableInv, [Next]_vars PROVE TableInv'
  OBVIOUS
<1>1. ASSUME NEW s \in Screen, viewDidLoad(s) PROVE TableInv'
  BY <1>1, ViewDidLoadTable
<1>2. ASSUME NEW s \in Screen, viewWillAppear(s) PROVE TableInv'
  BY <1>2, ViewWillAppearTable
<1>3. ASSUME NEW s \in Screen, scrollDown(s) PROVE TableInv'
  BY <1>3, ScrollTable
<1>4. ASSUME NEW s \in Screen, scrollUp(s) PROVE TableInv'
  BY <1>4, ScrollTable
<1>5. ASSUME NEW s \in Screen, NEW k \in Slot, buttonTapped(s, k) PROVE TableInv'
  BY <1>5, ButtonTappedTable
<1>6. ASSUME NEW s \in Asker, NEW S \in SUBSET Person, contactsFetched(s, S) PROVE TableInv'
  BY <1>6, ContactsFetchedTable
<1>7. ASSUME NEW s \in Asker, NEW S \in SUBSET Person, fetchCutShort(s, S) PROVE TableInv'
  BY <1>7, FetchCutShortTable
<1>8. ASSUME NEW s \in Asker, fetchFailed(s) PROVE TableInv'
  BY <1>8, FetchFailedTable
<1>9. back => TableInv'
  BY BackTable
<1>10. saveAnswered => TableInv'
  BY SaveAnsweredTable
<1>11. createTripButtonTapped => TableInv'
  BY TripTappedTable
<1>12. tripStored \/ earlierTripStored => TableInv'
  BY InvitedRemovedTable
<1>13. popToRoot => TableInv'
  BY PopToRootTable
<1>14. ASSUME NEW lists \in [Screen -> SUBSET Person], userInitialized(lists) PROVE TableInv'
  BY <1>14, UserInitializedTable
<1>15. UNCHANGED vars => TableInv'
  BY DEF vars, TableInv, TypeOK, Unanswered, InNameOrder, TableOf, InView
<1> QED
  BY <1>1, <1>2, <1>3, <1>4, <1>5, <1>6, <1>7, <1>8, <1>9, <1>10, <1>11, <1>12, <1>13,
     <1>14, <1>15 DEF Next

LEMMA TableInvHolds == Spec => []TableInv
<1>1. Init => TableInv
  BY InitTable
<1>2. TableInv /\ [Next]_vars => TableInv'
  BY NextTable
<1> QED
  BY <1>1, <1>2, PTL DEF Spec

-----------------------------------------------------------------------------
\* Every reachable state of ContactTables is well typed: each table stands where it
\* has rows to show, and no more fetches and saves are on their way than were made.
THEOREM TablesTypeCorrect == Spec => []TypeOK
<1>1. TableInv => TypeOK
  BY DEF TableInv
<1> QED
  BY <1>1, TableInvHolds, PTL

\* A table that counted the present array (numberOfRowsInSection) has its number of
\* rows, and the array is read outside its bounds (cellForRowAt) only after another
\* fetch replaced it behind a table.
THEOREM CountedRowsAreThere == Spec => []CountedRowsExist
<1>1. TableInv => CountedRowsExist
  BY DEF TableInv, TableOf, CountedRowsExist, TypeOK
<1> QED
  BY <1>1, TableInvHolds, PTL

-----------------------------------------------------------------------------
(***************************************************************************)
(* The labels.                                                             *)
(***************************************************************************)

\* The two properties in one: a label of the table of contacts says whether the
\* person is on the list, one of the create-trip screen does not deny it.
LabelRight(s, k) ==
    LET c == cells[s][k]
    IN  IF s = "contacts" THEN c.label = (c.person \in marked[s])
                          ELSE c.person \in marked[s] => c.label

LabelsRight == \A s \in Screen, k \in Slot : Settled(s, k) => LabelRight(s, k)

\* A cell that is filled or updated is labelled by the list.
LEMMA LabelSet ==
    ASSUME NEW s, NEW k, marked'[s] = marked[s],
           cells'[s][k].label = (cells'[s][k].person \in marked[s])
    PROVE  LabelRight(s, k)'
BY DEF LabelRight

\* A cell that keeps its person and label is as right as it was, and was settled
\* if it is.
LEMMA LabelKept ==
    ASSUME LabelsRight, NEW s \in Screen, NEW k \in Slot,
           cells'[s][k] = cells[s][k], marked'[s] = marked[s],
           Settled(s, k)' => Settled(s, k)
    PROVE  Settled(s, k)' => LabelRight(s, k)'
BY DEF LabelsRight, LabelRight

\* A table that keeps its rows has the same cells in view.
LEMMA SameInView ==
    ASSUME NEW s, NEW k, rows'[s] = rows[s], top'[s] = top[s]
    PROVE  CellInView(s, k)' <=> CellInView(s, k)
BY DEF CellInView, InView

\* Only a table of a screen that exists has a cell in view.
LEMMA InViewIsLoaded ==
    ASSUME NEW s \in Screen, NEW k, TableOf(s), CellInView(s, k)
    PROVE  s \in loaded
BY DEF CellInView, InView, TableOf

\* A table that is loaded again is labelled by the list, and the other is as it was.
LEMMA ReloadedLabels ==
    ASSUME TypeOK, NEW s \in Screen, NEW list \in Seq(Person),
           Len(list) <= Cardinality(Person), reloadData(s, list), marked' = marked
    PROVE  /\ \A k \in Slot : CellInView(s, k)' => LabelRight(s, k)'
           /\ \A x \in Screen \ {s}, k \in Slot :
                  cells'[x][k] = cells[x][k] /\ (CellInView(x, k)' <=> CellInView(x, k))
<1>1. /\ \A r \in InView(s)' : cells'[s][SlotOf(r)] = Cell(s, list[r])
      /\ \A x \in Screen \ {s} : rows'[x] = rows[x] /\ top'[x] = top[x] /\ cells'[x] = cells[x]
  BY Reloaded
<1>2. ASSUME NEW k \in Slot, CellInView(s, k)' PROVE LabelRight(s, k)'
  <2>1. PICK r \in InView(s)' : SlotOf(r) = k
    BY <1>2 DEF CellInView
  <2>2. cells'[s][k] = Cell(s, list[r])
    BY <1>1, <2>1
  <2>3. cells'[s][k].label = (cells'[s][k].person \in marked[s])
    BY <2>2 DEF Cell
  <2> QED
    BY <2>3, LabelSet
<1>3. \A x \in Screen \ {s}, k \in Slot :
          cells'[x][k] = cells[x][k] /\ (CellInView(x, k)' <=> CellInView(x, k))
  BY <1>1, SameInView
<1> QED
  BY <1>2, <1>3

LEMMA ViewDidLoadLabels ==
    ASSUME TableInv, LabelsRight, NEW s \in Screen, viewDidLoad(s)
    PROVE  LabelsRight'
<1> SUFFICES ASSUME NEW x \in Screen, NEW k \in Slot, Settled(x, k)'
             PROVE  LabelRight(x, k)'
  BY DEF LabelsRight
<1>1. /\ TypeOK /\ contacts \in Seq(Person) /\ Len(contacts) <= Cardinality(Person)
      /\ reloadData(s, contacts) /\ marked' = marked /\ saves' = saves
      /\ replaced' = replaced \ {s} /\ reread' = reread \ {s}
  BY DEF TableInv, TypeOK, InNameOrder, viewDidLoad
<1>2. CASE x = s
  BY <1>1, <1>2, ReloadedLabels DEF Settled
<1>3. CASE x # s
  <2>1. cells'[x][k] = cells[x][k] /\ (CellInView(x, k)' <=> CellInView(x, k))
    BY <1>1, <1>3, ReloadedLabels
  <2>2. Settled(x, k)' => Settled(x, k)
    BY <1>1, <1>3, <2>1 DEF Settled, SaveOutstanding
  <2> QED
    BY <1>1, <2>1, <2>2, LabelKept
<1> QED
  BY <1>2, <1>3

\* After a fetch the only table that counted the new array is the one it reloaded.
LEMMA ContactsFetchedLabels ==
    ASSUME TableInv, LabelsRight, NEW s \in Asker, NEW S \in SUBSET Person,
           contactsFetched(s, S)
    PROVE  LabelsRight'
<1> SUFFICES ASSUME NEW x \in Screen, NEW k \in Slot, Settled(x, k)'
             PROVE  LabelRight(x, k)'
  BY DEF LabelsRight
<1>1. TypeOK /\ TableInv' /\ TableOf(x)'
  BY ContactsFetchedTable DEF TableInv
<1>2. x \in loaded' \ replaced' /\ loaded' = loaded /\ marked' = marked
  BY <1>1, InViewIsLoaded DEF Settled, contactsFetched, TableOf, CellInView, InView
<1>3. x = s /\ reloadData(s, ByName(S))
  BY <1>2 DEF contactsFetched
<1>4. ByName(S) \in Seq(Person) /\ Len(ByName(S)) <= Cardinality(Person)
  BY FetchedArray
<1> QED
  BY <1>1, <1>2, <1>3, <1>4, ReloadedLabels DEF Settled

LEMMA FetchCutShortLabels ==
    ASSUME TableInv, NEW s \in Asker, NEW S \in SUBSET Person, fetchCutShort(s, S)
    PROVE  LabelsRight'
<1> SUFFICES ASSUME NEW x \in Screen, NEW k \in Slot, Settled(x, k)'
             PROVE  FALSE
  BY DEF LabelsRight
<1>1. TableOf(x)'
  BY FetchCutShortTable DEF TableInv
<1>2. x \in loaded' \ replaced'
  BY <1>1 DEF Settled, TableOf, CellInView, InView
<1> QED
  BY <1>2 DEF fetchCutShort

\* Operations that change no cell, list or save.
LEMMA LabelsUntouched ==
    ASSUME LabelsRight, UNCHANGED <<marked, rows, top, cells, saves, replaced, reread>>
    PROVE  LabelsRight'
BY DEF LabelsRight, LabelRight, Settled, SaveOutstanding, CellInView, InView

\* A stored trip empties the list: no label of the screen denies anybody on it.
LEMMA InvitedRemovedLabels ==
    ASSUME TableInv, LabelsRight, InvitedRemoved
    PROVE  LabelsRight'
<1> SUFFICES ASSUME NEW x \in Screen, NEW k \in Slot, Settled(x, k)'
             PROVE  LabelRight(x, k)'
  BY DEF LabelsRight
<1>1. TypeOK /\ marked' = [marked EXCEPT !["createTrip"] = {}]
      /\ UNCHANGED <<rows, top, cells, saves, replaced, reread>>
  BY DEF TableInv, InvitedRemoved
<1>2. CASE x = "contacts"
  <2>1. marked'[x] = marked[x]
    BY <1>1, <1>2 DEF TypeOK
  <2>2. Settled(x, k)
    BY <1>1 DEF Settled, SaveOutstanding, CellInView, InView
  <2> QED
    BY <1>1, <2>1, <2>2, LabelKept
<1>3. CASE x = "createTrip"
  <2>1. marked'[x] = {}
    BY <1>1, <1>3 DEF TypeOK
  <2> QED
    BY <1>3, <2>1 DEF LabelRight
<1> QED
  BY <1>2, <1>3 DEF Screen

\* After a re-read a table is settled only if the re-read left its list as it was.
LEMMA UserInitializedLabels ==
    ASSUME TableInv, LabelsRight, NEW lists \in [Screen -> SUBSET Person],
           userInitialized(lists)
    PROVE  LabelsRight'
<1> SUFFICES ASSUME NEW x \in Screen, NEW k \in Slot, Settled(x, k)'
             PROVE  LabelRight(x, k)'
  BY DEF LabelsRight
<1>1. UNCHANGED <<loaded, rows, top, cells, saves, replaced>> /\ TableOf(x)
      /\ marked' = lists /\ reread' = reread \cup {s \in loaded : lists[s] # marked[s]}
  BY DEF TableInv, userInitialized
<1>2. CellInView(x, k) /\ Settled(x, k)
  BY <1>1 DEF Settled, SaveOutstanding, CellInView, InView
<1>3. x \in loaded
  BY <1>1, <1>2, InViewIsLoaded
<1>4. marked'[x] = marked[x]
  BY <1>1, <1>3 DEF Settled
<1> QED
  BY <1>1, <1>2, <1>4, LabelKept

\* A screen that is left has no cells in view; the other keeps its cells and saves.
LEMMA LeaveLabels ==
    ASSUME TableInv, LabelsRight, NEW s \in Screen, Leave(s),
           \A x \in Screen \ {s} : marked'[x] = marked[x]
    PROVE  LabelsRight'
<1> SUFFICES ASSUME NEW x \in Screen, NEW k \in Slot, Settled(x, k)'
             PROVE  LabelRight(x, k)'
  BY DEF LabelsRight
<1>1. TypeOK
  BY DEF TableInv
<1>2. CASE x = s
  <2>1. rows'[s] = 0
    BY <1>1 DEF TypeOK, Leave
  <2> QED
    BY <1>2, <2>1 DEF Settled, CellInView, InView
<1>3. CASE x # s
  <2>1. rows'[x] = rows[x] /\ top'[x] = top[x] /\ cells'[x] = cells[x]
        /\ (x \in replaced' <=> x \in replaced) /\ (x \in reread' <=> x \in reread)
    BY <1>1, <1>3 DEF TypeOK, Leave
  <2>2. SaveOutstanding(x, k) => SaveOutstanding(x, k)'
    <3>1. saves \in Seq(SaveType) /\ saves' = SavesOfOthers(s, saves)
      BY <1>1 DEF TypeOK, SaveType, Leave
    <3>2. \A i \in DOMAIN saves :
              saves[i].screen # s => \E j \in DOMAIN saves' : saves'[j] = saves[i]
      BY <3>1, SavesLeft
    <3> QED
      BY <1>3, <3>2 DEF SaveOutstanding
  <2>3. Settled(x, k)' => Settled(x, k)
    BY <2>1, <2>2, SameInView DEF Settled
  <2> QED
    BY <1>3, <2>1, <2>3, LabelKept
<1> QED
  BY <1>2, <1>3

LEMMA BackLabels ==
    ASSUME TableInv, LabelsRight, back
    PROVE  LabelsRight'
<1>1. shown \in Screen /\ Leave(shown) /\ marked' = marked
  BY DEF back, TableInv, TypeOK
<1> QED
  BY <1>1, LeaveLabels

LEMMA PopToRootLabels ==
    ASSUME TableInv, LabelsRight, popToRoot
    PROVE  LabelsRight'
<1>1. "createTrip" \in Screen /\ Leave("createTrip") /\ marked' = marked
  BY DEF popToRoot, Screen
<1> QED
  BY <1>1, LeaveLabels

\* The answer to a save labels its cell by the list; the saves behind it stay.
LEMMA SaveAnsweredLabels ==
    ASSUME TableInv, LabelsRight, saveAnswered
    PROVE  LabelsRight'
<1> SUFFICES ASSUME NEW x \in Screen, NEW k \in Slot, Settled(x, k)'
             PROVE  LabelRight(x, k)'
  BY DEF LabelsRight
<1> DEFINE a == Head(saves)
<1>1. TypeOK /\ saves \in Seq(SaveType) /\ saves # <<>> /\ saves' = Tail(saves)
      /\ cells' = Relabelled(a.screen, a.cell, marked[a.screen])
      /\ UNCHANGED <<marked, rows, top, replaced, reread>>
  BY DEF TableInv, TypeOK, SaveType, saveAnswered
<1>2. a = saves[1] /\ a.screen \in Screen /\ a.cell \in Slot
      /\ \A i \in DOMAIN saves : i = 1 \/ \E j \in DOMAIN saves' : saves'[j] = saves[i]
  <2>1. a \in SaveType /\ a = saves[1]
    BY <1>1, HeadTailProperties
  <2>2. ASSUME NEW i \in DOMAIN saves, i # 1
        PROVE  \E j \in DOMAIN saves' : saves'[j] = saves[i]
    <3>1. Len(saves) \in Nat /\ i \in 1..Len(saves) /\ Len(Tail(saves)) = Len(saves) - 1
          /\ DOMAIN Tail(saves) = 1..Len(Tail(saves))
      BY <1>1, <2>2, HeadTailProperties
    <3>2. i - 1 \in DOMAIN Tail(saves) /\ Tail(saves)[i - 1] = saves[i]
      BY <1>1, <2>2, <3>1
    <3> QED
      BY <1>1, <3>2
  <2> QED
    BY <2>1, <2>2 DEF SaveType
<1> HIDE DEF a
<1>3. /\ \A y \in Screen, i \in Slot : cells'[y][i].person = cells[y][i].person
      /\ \A y \in Screen, i \in Slot : <<y, i>> # <<a.screen, a.cell>> => cells'[y][i] = cells[y][i]
      /\ cells'[a.screen][a.cell].label = (cells[a.screen][a.cell].person \in marked[a.screen])
  <2>1. TypeOK /\ cells' = Relabelled(a.screen, a.cell, marked[a.screen])
    BY <1>1
  <2>2. a.screen \in Screen /\ a.cell \in Slot
    BY <1>2
  <2> QED
    BY <2>1, <2>2, RelabelledCells
<1>4. CASE x = a.screen /\ k = a.cell
  <2>1. cells'[x][k].label = (cells'[x][k].person \in marked[x])
    BY <1>2, <1>3, <1>4
  <2> QED
    BY <1>1, <2>1, LabelSet
<1>5. CASE ~(x = a.screen /\ k = a.cell)
  <2>1. cells'[x][k] = cells[x][k]
    BY <1>3, <1>5
  <2>2. SaveOutstanding(x, k) => SaveOutstanding(x, k)'
    BY <1>2, <1>5 DEF SaveOutstanding
  <2>3. Settled(x, k)' => Settled(x, k)
    BY <1>1, <2>2, SameInView DEF Settled
  <2> QED
    BY <1>1, <2>1, <2>3, LabelKept
<1> QED
  BY <1>4, <1>5

\* A table that counted the array shows a person in one cell only.
LEMMA OneCellPerPerson ==
    ASSUME TableInv, NEW s \in Screen, s \notin replaced,
           NEW k \in Slot, NEW i \in Slot, CellInView(s, k), CellInView(s, i), k # i
    PROVE  cells[s][k].person # cells[s][i].person
<1>1. PICK r \in InView(s) : SlotOf(r) = k
  BY DEF CellInView
<1>2. PICK q \in InView(s) : SlotOf(q) = i
  BY DEF CellInView
<1>3. TableOf(s) /\ s \in loaded
  BY InViewIsLoaded DEF TableInv
<1>4. rows[s] = Len(contacts) /\ cells[s][k].person = contacts[r] /\ cells[s][i].person = contacts[q]
  BY <1>1, <1>2, <1>3 DEF TableOf
<1>5. r \in 1..Len(contacts) /\ q \in 1..Len(contacts) /\ r # q
  BY <1>1, <1>2, <1>4 DEF InView
<1>6. contacts[r] \in Nat /\ contacts[q] \in Nat
  <2>1. contacts \in Seq(Person) /\ Person \subseteq Nat
    BY ContactTablesAssumption DEF TableInv, TypeOK
  <2> QED
    BY <1>5, <2>1, ElementOfSeq
<1>7. r < q \/ q < r
  <2>1. Len(contacts) \in Nat
    BY DEF TableInv, TypeOK
  <2> QED
    BY <1>5, <2>1
<1>8. contacts[r] # contacts[q]
  BY <1>5, <1>6, <1>7 DEF TableInv, InNameOrder
<1> QED
  BY <1>4, <1>8

\* A tap leaves its own cell waiting for its save, and concerns no other cell.
LEMMA ButtonTappedLabels ==
    ASSUME TableInv, LabelsRight, NEW s \in Screen, NEW k \in Slot, buttonTapped(s, k)
    PROVE  LabelsRight'
<1> SUFFICES ASSUME NEW x \in Screen, NEW i \in Slot, Settled(x, i)'
             PROVE  LabelRight(x, i)'
  BY DEF LabelsRight
<1> DEFINE p == cells[s][k].person
<1>1. TypeOK /\ CellInView(s, k) /\ UNCHANGED <<rows, top, replaced, reread>>
      /\ saves' = Append(saves, [screen |-> s, cell |-> k])
      /\ (p \in marked[s] => /\ marked' = [marked EXCEPT ![s] = @ \ {p}]
                             /\ cells' = Relabelled(s, k, marked'[s]))
      /\ (p \notin marked[s] => /\ marked' = [marked EXCEPT ![s] = @ \cup {p}]
                                /\ cells' = cells)
  BY DEF TableInv, buttonTapped, TappedPerson
<1>2. /\ \E j \in DOMAIN saves' : saves'[j] = [screen |-> s, cell |-> k]
      /\ \A j \in DOMAIN saves : j \in DOMAIN saves' /\ saves'[j] = saves[j]
  <2>1. saves \in Seq(SaveType) /\ [screen |-> s, cell |-> k] \in SaveType
    BY <1>1 DEF TypeOK, SaveType
  <2>2. saves' \in Seq(SaveType) /\ Len(saves') = Len(saves) + 1 /\ Len(saves) \in Nat
        /\ saves'[Len(saves) + 1] = [screen |-> s, cell |-> k]
        /\ \A j \in 1..Len(saves) : saves'[j] = saves[j]
    BY <1>1, <2>1, AppendProperties
  <2>3. DOMAIN saves' = 1..Len(saves') /\ DOMAIN saves = 1..Len(saves)
    BY <2>1, <2>2
  <2> QED
    BY <2>2, <2>3
<1>3. <<x, i>> # <<s, k>>
  BY <1>2 DEF Settled, SaveOutstanding
<1>4. Settled(x, i)
  <2>1. SaveOutstanding(x, i) => SaveOutstanding(x, i)'
    BY <1>2 DEF SaveOutstanding
  <2> QED
    BY <1>1, <2>1, SameInView DEF Settled
<1>5. cells'[x][i] = cells[x][i]
  <2>1. CASE p \in marked[s]
    BY <1>1, <1>3, <2>1, RelabelledCells
  <2>2. CASE p \notin marked[s]
    BY <1>1, <2>2
  <2> QED
    BY <2>1, <2>2
<1>6. x = s => cells[x][i].person # p
  BY <1>1, <1>3, <1>4, OneCellPerPerson DEF Settled
<1> HIDE DEF p
<1>7. cells[x][i].person \in marked'[x] <=> cells[x][i].person \in marked[x]
  <2>1. CASE x = s /\ p \in marked[s]
    <3>1. marked'[x] = marked[x] \ {p}
      BY <1>1, <2>1 DEF TypeOK
    <3> QED
      BY <1>6, <2>1, <3>1
  <2>2. CASE x = s /\ p \notin marked[s]
    <3>1. marked'[x] = marked[x] \cup {p}
      BY <1>1, <2>2 DEF TypeOK
    <3> QED
      BY <1>6, <2>2, <3>1
  <2>3. CASE x # s
    <3>1. marked'[x] = marked[x]
      BY <1>1, <2>3 DEF TypeOK
    <3> QED
      BY <3>1
  <2> QED
    BY <2>1, <2>2, <2>3
<1>8. LabelRight(x, i)
  BY <1>4 DEF LabelsRight
<1> QED
  BY <1>5, <1>7, <1>8 DEF LabelRight

\* A row that comes into view is labelled by the list, in a table that counted it.
LEMMA ScrolledLabels ==
    ASSUME TableInv, LabelsRight, NEW s \in Screen, shown = s, NEW t \in Nat,
           top' = [top EXCEPT ![s] = t],
           NEW r \in Window(rows[s], t),
           \A q \in Window(rows[s], t) : q = r \/ q \in InView(s),
           cellForRow(s, r)
    PROVE  LabelsRight'
<1> SUFFICES ASSUME NEW x \in Screen, NEW k \in Slot, Settled(x, k)'
             PROVE  LabelRight(x, k)'
  BY DEF LabelsRight
<1>1. TypeOK /\ s \in loaded /\ TableOf(s)
      /\ UNCHANGED <<marked, rows, saves, replaced, reread>>
  BY DEF TableInv, TypeOK, Nobody, Screen, cellForRow
<1>2. CASE x = s
  <2>1. rows[s] = Len(contacts)
    BY <1>1, <1>2 DEF Settled, TableOf
  <2>2. r \in DOMAIN contacts /\ SlotOf(r) \in Slot
    BY <1>1, <2>1, SlotType DEF TypeOK, Window
  <2>3. cells' = [cells EXCEPT ![s][SlotOf(r)] = Cell(s, contacts[r])]
    BY <2>2 DEF cellForRow
  <2>4. cells \in [Screen -> [Slot -> CellType]]
    BY <1>1 DEF TypeOK, CellType
  <2>5. CASE k = SlotOf(r)
    <3>1. cells'[s][k] = Cell(s, contacts[r])
      BY <2>3, <2>4, <2>5
    <3>2. cells'[s][k].label = (cells'[s][k].person \in marked[s])
      BY <3>1 DEF Cell
    <3> QED
      BY <1>1, <1>2, <3>2, LabelSet
  <2>6. CASE k # SlotOf(r)
    <3>1. cells'[s][k] = cells[s][k]
      BY <2>2, <2>3, <2>4, <2>6
    <3>2. top'[s] = t /\ rows'[s] = rows[s]
      BY <1>1 DEF TypeOK
    <3>3. InView(s)' = Window(rows[s], t)
      BY <3>2, InViewWindowNext
    <3>4. CellInView(s, k)' => CellInView(s, k)
      BY <2>6, <3>3 DEF CellInView
    <3>5. Settled(s, k)' => Settled(s, k)
      BY <1>1, <3>4 DEF Settled, SaveOutstanding
    <3> QED
      BY <1>1, <1>2, <3>1, <3>5, LabelKept
  <2> QED
    BY <2>5, <2>6
<1>3. CASE x # s
  <2>1. top'[x] = top[x] /\ rows'[x] = rows[x] /\ cells'[x] = cells[x]
    BY <1>1, <1>3 DEF TypeOK, cellForRow
  <2>2. Settled(x, k)' => Settled(x, k)
    BY <1>1, <2>1, SameInView DEF Settled, SaveOutstanding
  <2> QED
    BY <1>1, <2>1, <2>2, LabelKept
<1> QED
  BY <1>2, <1>3

LEMMA ScrollLabels ==
    ASSUME TableInv, LabelsRight, NEW s \in Screen, scrollDown(s) \/ scrollUp(s)
    PROVE  LabelsRight'
<1>1. PICK t \in Nat : \E r \in Window(rows[s], t) : ScrolledBy(s, t, r)
  BY ScrollStep
<1>2. PICK r \in Window(rows[s], t) : ScrolledBy(s, t, r)
  BY <1>1
<1>3. shown = s
  BY ScrollStep
<1> QED
  BY <1>2, <1>3, ScrolledLabels DEF ScrolledBy

LEMMA NextLabels == TableInv /\ LabelsRight /\ [Next]_vars => LabelsRight'
<1> SUFFICES ASSUME TableInv, LabelsRight, [Next]_vars PROVE LabelsRight'
  OBVIOUS
<1>1. ASSUME NEW s \in Screen, viewDidLoad(s) PROVE LabelsRight'
  BY <1>1, ViewDidLoadLabels
<1>2. ASSUME NEW s \in Screen, viewWillAppear(s) PROVE LabelsRight'
  BY <1>2, LabelsUntouched DEF viewWillAppear
<1>3. ASSUME NEW s \in Screen, scrollDown(s) \/ scrollUp(s) PROVE LabelsRight'
  BY <1>3, ScrollLabels
<1>4. ASSUME NEW s \in Screen, NEW k \in Slot, buttonTapped(s, k) PROVE LabelsRight'
  BY <1>4, ButtonTappedLabels
<1>5. ASSUME NEW s \in Asker, NEW S \in SUBSET Person, contactsFetched(s, S) PROVE LabelsRight'
  BY <1>5, ContactsFetchedLabels
<1>6. ASSUME NEW s \in Asker, NEW S \in SUBSET Person, fetchCutShort(s, S) PROVE LabelsRight'
  BY <1>6, FetchCutShortLabels
<1>7. ASSUME NEW s \in Asker, fetchFailed(s) PROVE LabelsRight'
  BY <1>7, LabelsUntouched DEF fetchFailed
<1>8. back => LabelsRight'
  BY BackLabels
<1>9. saveAnswered => LabelsRight'
  BY SaveAnsweredLabels
<1>10. createTripButtonTapped => LabelsRight'
  BY LabelsUntouched DEF createTripButtonTapped
<1>11. popToRoot => LabelsRight'
  BY PopToRootLabels
<1>12. tripStored \/ earlierTripStored => LabelsRight'
  BY InvitedRemovedLabels DEF tripStored, earlierTripStored
<1>13. ASSUME NEW lists \in [Screen -> SUBSET Person], userInitialized(lists)
       PROVE  LabelsRight'
  BY <1>13, UserInitializedLabels
<1>14. UNCHANGED vars => LabelsRight'
  BY LabelsUntouched DEF vars
<1> QED
  BY <1>1, <1>2, <1>3, <1>4, <1>5, <1>6, <1>7, <1>8, <1>9, <1>10, <1>11, <1>12, <1>13,
     <1>14 DEF Next

LEMMA LabelsHold == Spec => []LabelsRight
<1>1. Init => LabelsRight
  BY DEF Init, LabelsRight, Settled, CellInView, InView
<1>2. TableInv /\ LabelsRight /\ [Next]_vars => LabelsRight'
  BY NextLabels
<1> QED
  BY <1>1, <1>2, TableInvHolds, PTL DEF Spec

\* The buttons of ContactsViewController say whether their person is blocked, but
\* between the tap that blocks and the answer to its save (ContactTableViewCell's
\* updateViews), in every table whose list no re-read (initializeUser) has changed
\* since its cells were drawn, for any number of contacts, rows on the screen,
\* fetches, saves and re-reads.
THEOREM BlockLabelsAreRight == Spec => []BlockLabelsAgree
<1>1. LabelsRight => BlockLabelsAgree
  BY DEF LabelsRight, LabelRight, BlockLabelsAgree, Screen
<1> QED
  BY <1>1, LabelsHold, PTL

\* No button of CreateTripViewController that says INVITE stands for a person on the
\* list of invited users, but between the tap and the answer to its save and in a
\* table whose list a re-read (initializeUser) has changed since its cells were drawn:
\* stored trips, the present screen's or an earlier one's, put nobody behind INVITE.
THEOREM InvitedAreShown == Spec => []InvitedAreLabelled
<1>1. LabelsRight => InvitedAreLabelled
  BY DEF LabelsRight, LabelRight, InvitedAreLabelled, Screen
<1> QED
  BY <1>1, LabelsHold, PTL

-----------------------------------------------------------------------------
\* A step that begins a save is a tap, and changes the list for the person of the
\* tapped cell (buttonTapped), which is in view.
LEMMA SaveIsATap ==
    ASSUME TypeOK, [Next]_vars, NEW s \in Screen, Len(saves') > Len(saves),
           marked'[s] # marked[s]
    PROVE  /\ shown = s
           /\ \E k \in Slot :
                  /\ CellInView(s, k)
                  /\ (marked'[s] \ marked[s]) \cup (marked[s] \ marked'[s])
                         \subseteq {cells[s][k].person}
<1>1. \E x \in Screen, k \in Slot : buttonTapped(x, k)
  <2>1. saves \in Seq(SaveType) /\ Len(saves) \in Nat
    BY DEF TypeOK, SaveType
  <2>2. saves' # saves
    BY <2>1
  <2>3. ~saveAnswered
    <3> SUFFICES ASSUME saveAnswered PROVE FALSE
      OBVIOUS
    <3>1. saves # <<>> /\ saves' = Tail(saves)
      BY DEF saveAnswered
    <3>2. Len(saves') = Len(saves) - 1
      BY <2>1, <3>1, HeadTailProperties
    <3> QED
      BY <2>1, <3>2
  <2>4. ~back /\ ~popToRoot
    <3> SUFFICES ASSUME NEW x, Leave(x) PROVE FALSE
      BY DEF back, popToRoot
    <3>1. saves' = SavesOfOthers(x, saves)
      BY DEF Leave
    <3>2. Len(saves') <= Len(saves) /\ Len(saves') \in Nat
      BY <2>1, <3>1, SavesLeft
    <3> QED
      BY <2>1, <3>2
  <2> QED
    BY <2>2, <2>3, <2>4 DEF Next, vars, viewDidLoad, viewWillAppear, scrollDown, scrollUp,
         cellForRow, contactsFetched, fetchCutShort, fetchFailed, userInitialized,
         createTripButtonTapped, tripStored, earlierTripStored, InvitedRemoved
<1>2. PICK x \in Screen, k \in Slot : buttonTapped(x, k)
  BY <1>1
<1>3. \/ marked' = [marked EXCEPT ![x] = @ \ {cells[x][k].person}]
      \/ marked' = [marked EXCEPT ![x] = @ \cup {cells[x][k].person}]
  BY <1>2 DEF buttonTapped, TappedPerson
<1>4. x = s
  BY <1>3 DEF TypeOK
<1>5. shown = s /\ CellInView(s, k)
  BY <1>2, <1>4 DEF buttonTapped
<1>6. (marked'[s] \ marked[s]) \cup (marked[s] \ marked'[s]) \subseteq {cells[s][k].person}
  BY <1>3, <1>4 DEF TypeOK
<1> QED
  BY <1>5, <1>6

\* A tap blocks, unblocks, invites or uninvites a person whom the screen in front
\* shows, whatever has happened to the array or to the lists behind the table (the
\* cell keeps the person it was filled with).
THEOREM TapsHitWhoIsShown == Spec => TapsHitTheShown
<1> DEFINE Hit(s) ==
        Len(saves') > Len(saves) /\ marked'[s] # marked[s]
        => /\ shown = s
           /\ \E k \in Slot :
                  /\ CellInView(s, k)
                  /\ (marked'[s] \ marked[s]) \cup (marked[s] \ marked'[s])
                         \subseteq {cells[s][k].person}
<1>1. TableInv /\ [Next]_vars => [\A s \in Screen : Hit(s)]_vars
  BY SaveIsATap DEF TableInv
<1> QED
  BY <1>1, TableInvHolds, PTL DEF Spec, TapsHitTheShown

=============================================================================
