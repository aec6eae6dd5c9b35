------------------------------ MODULE ContactTables ------------------------------
(***************************************************************************)
(* The two tables of contacts, ContactsViewController and                  *)
(* CreateTripViewController, over the one array PersonController.contacts. *)
(* A table keeps the number of rows it was told and the cells it shows;    *)
(* the array is replaced by whichever fetch is answered. The button of a   *)
(* cell blocks or invites the person that the cell holds.                  *)
(*                                                                         *)
(* Persons are numbers in the order of their names. The user's own UID,    *)
(* which every invitation adds to the list, is left out: the user is taken *)
(* not to be one of the contacts, and no cell asks for it. UITableView is  *)
(* modelled from its use: it asks for the number of rows when it is loaded *)
(* or reloaded, for a cell when a row comes into view, and reuses the cell *)
(* that leaves.                                                            *)
(***************************************************************************)
EXTENDS Naturals, Sequences, FiniteSets

CONSTANTS
    Person,    \* the contacts, numbered in the order of their names
    Visible,   \* the number of rows on the screen
    MaxCalls,  \* bound: fetches and saves without an answer
    MaxReread  \* bound: tables whose list a re-read changed, not redrawn since

Screen == {"contacts", "createTrip"}

ASSUME ContactTablesAssumption ==
    /\ IsFiniteSet(Person) /\ Person \subseteq Nat \ {0}
    /\ Visible \in Nat \ {0}
    /\ {MaxCalls, MaxReread} \subseteq Nat

VARIABLES
    contacts,  \* PersonController.contacts
    marked,    \* marked[s]: blockedUsersFirebase, invitedUsersFirebase
    loaded,    \* the screens that exist
    shown,     \* the screen in front, if any of the two is
    rows,      \* rows[s]: the number of rows the table was told
    top,       \* top[s]: how many rows are above the first one in view
    cells,     \* cells[s][k]: what the reusable cell k holds
    fetches,   \* fetches[s]: unanswered fetches of a screen, or of screens that are gone
    saves,     \* saves without an answer, each with the cell to update: [screen, cell]
    trip,      \* whose trip is not stored yet: the "present" create-trip screen's, an
               \* "earlier" one's; or stored, and the screen is "popping"
    replaced,  \* the tables whose array was replaced since they counted it (history)
    reread,    \* the tables whose list another reading of the record has changed
               \* since they drew their cells (history)
    trapped    \* the array was read outside its bounds

vars == <<contacts, marked, loaded, shown, rows, top, cells, fetches, saves, trip,
          replaced, reread, trapped>>

Slot == 0..Visible - 1
NoCell == [person |-> 0, label |-> FALSE]
Nobody == "none"
Asker == Screen \cup {Nobody}

Unanswered == fetches["contacts"] + fetches["createTrip"] + fetches[Nobody]

\* Row r of a table is shown by cell SlotOf(r); scrolling by a row reuses the
\* cell of the row that leaves.
SlotOf(r) == r % Visible

InView(s) == {r \in 1..rows[s] : top[s] < r /\ r <= top[s] + Visible}

CellInView(s, k) == \E r \in InView(s) : SlotOf(r) = k

\* The numbers of a set, least first.
InOrder(S) ==
    CHOOSE list \in [1..Cardinality(S) -> S] :
        \A i, j \in DOMAIN list : i < j => list[i] < list[j]

TypeOK ==
    /\ contacts \in Seq(Person)
    /\ marked \in [Screen -> SUBSET Person]
    /\ loaded \subseteq Screen
    /\ shown \in loaded \cup {Nobody}
    /\ rows \in [Screen -> 0..Cardinality(Person)]
    /\ top \in [Screen -> Nat]
    /\ \A s \in Screen : top[s] = 0 \/ top[s] + Visible <= rows[s]
    /\ cells \in [Screen -> [Slot -> [person : Person \cup {0}, label : BOOLEAN]]]
    /\ fetches \in [Asker -> 0..MaxCalls]
    /\ saves \in Seq([screen : Screen, cell : Slot])
    /\ Len(saves) <= MaxCalls
    /\ trip \in {"none", "present", "popping", "earlier"}
    /\ replaced \subseteq loaded
    /\ reread \subseteq loaded
    /\ trapped \in BOOLEAN

Init ==
    /\ contacts = <<>>
    /\ marked = [s \in Screen |-> {}]
    /\ loaded = {}
    /\ shown = Nobody
    /\ rows = [s \in Screen |-> 0]
    /\ top = [s \in Screen |-> 0]
    /\ cells = [s \in Screen |-> [k \in Slot |-> NoCell]]
    /\ fetches = [s \in Asker |-> 0]
    /\ saves = <<>>
    /\ trip = "none"
    /\ replaced = {}
    /\ reread = {}
    /\ trapped = FALSE

-----------------------------------------------------------------------------
\* A cell given its person without updateViews.
CellUnlabelled(s, p) == [person |-> p, label |-> FALSE]

\* updateViews: the label says whether the list holds the cell's person.
Cell(s, p) == [person |-> p, label |-> p \in marked[s]]

\* A table that keeps its offset whatever the number of rows.
FirstRowKept(s, n) == top[s]

\* Where a table with n rows stands: an offset that leaves the view empty is lost.
FirstRow(s, n) == IF top[s] + Visible <= n THEN top[s] ELSE 0

Shown(s, list) ==
    LET n == Len(list)
        t == FirstRow(s, n)
        At(k) == {r \in 1..n : t < r /\ r <= t + Visible /\ SlotOf(r) = k}
    IN  [k \in Slot |-> IF At(k) = {} THEN NoCell
                        ELSE Cell(s, list[CHOOSE r \in At(k) : TRUE])]

\* reloadData of the rows in view only.
reloadRows(s, list) ==
    /\ top' = [top EXCEPT ![s] = FirstRow(s, Len(list))]
    /\ cells' = [cells EXCEPT ![s] = Shown(s, list)]
    /\ UNCHANGED rows

\* The table asks for its rows again: their number and those in view.
reloadData(s, list) ==
    /\ rows' = [rows EXCEPT ![s] = Len(list)]
    /\ top' = [top EXCEPT ![s] = FirstRow(s, Len(list))]
    /\ cells' = [cells EXCEPT ![s] = Shown(s, list)]

\* viewDidLoad and viewWillAppear of a new screen: its table counts the array
\* as it is, and both ask for the contacts.
viewDidLoad(s) ==
    /\ ~trapped
    /\ s \notin loaded
    /\ Unanswered + Len(saves) + 2 <= MaxCalls
    /\ loaded' = loaded \cup {s}
    /\ shown' = s
    /\ reloadData(s, contacts)
    /\ fetches' = [fetches EXCEPT ![s] = @ + 2]
    /\ replaced' = replaced \ {s}
    /\ reread' = reread \ {s}
    /\ UNCHANGED <<contacts, marked, saves, trip, trapped>>

\* A screen comes back, from another tab or from the screen above it: viewWillAppear
\* asks, the table keeps what it has.
viewWillAppear(s) ==
    /\ ~trapped
    /\ s \in loaded
    /\ Unanswered + Len(saves) < MaxCalls
    /\ shown' = s
    /\ fetches' = [fetches EXCEPT ![s] = @ + 1]
    /\ UNCHANGED <<contacts, marked, loaded, rows, top, cells, saves, trip, replaced,
                   reread, trapped>>

\* The saves that are not a screen's, in their order.
SavesOfOthers(s, queue) ==
    LET kept == InOrder({i \in DOMAIN queue : queue[i].screen # s})
    IN  [i \in DOMAIN kept |-> queue[kept[i]]]

\* A screen that is left for good loses its table; what it asked for and saved
\* is answered to nobody.
Leave(s) ==
    /\ loaded' = loaded \ {s}
    /\ shown' = IF shown = s THEN Nobody ELSE shown
    /\ rows' = [rows EXCEPT ![s] = 0]
    /\ top' = [top EXCEPT ![s] = 0]
    /\ cells' = [cells EXCEPT ![s] = [k \in Slot |-> NoCell]]
    /\ fetches' = [fetches EXCEPT ![s] = 0, ![Nobody] = @ + fetches[s]]
    /\ saves' = SavesOfOthers(s, saves)
    /\ replaced' = replaced \ {s}
    /\ reread' = reread \ {s}

\* The back button. A trip on its way is now an earlier screen's; a pop on its way
\* finds a screen without a navigation controller.
back ==
    /\ ~trapped
    /\ shown # Nobody
    /\ Leave(shown)
    /\ trip' = IF shown # "createTrip" THEN trip
               ELSE CASE trip = "present" -> "earlier"
                      [] trip = "popping" -> "none"
                      [] OTHER -> trip
    /\ UNCHANGED <<contacts, marked, trapped>>

-----------------------------------------------------------------------------
\* The array that the documents of a fetch make, sorted by name.
ByName(S) == InOrder(S)

\* fetchContacts answered, for a screen that is still there or for nobody: the
\* array is replaced, and a table is reloaded unless the array is empty.
contactsFetched(s, S) ==
    /\ ~trapped
    /\ fetches[s] > 0
    /\ fetches' = [fetches EXCEPT ![s] = @ - 1]
    /\ contacts' = ByName(S)
    /\ IF s \in loaded /\ S # {}
       THEN reloadData(s, ByName(S)) /\ replaced' = loaded \ {s} /\ reread' = reread \ {s}
       ELSE replaced' = loaded /\ UNCHANGED <<rows, top, cells, reread>>
    /\ UNCHANGED <<marked, loaded, shown, saves, trip, trapped>>

\* A document that is no person ends the block: the array has the ones before
\* it, and nobody is called back.
fetchCutShort(s, S) ==
    /\ ~trapped
    /\ fetches[s] > 0
    /\ fetches' = [fetches EXCEPT ![s] = @ - 1]
    /\ contacts' = ByName(S)
    /\ replaced' = loaded
    /\ UNCHANGED <<marked, loaded, shown, rows, top, cells, saves, trip, reread, trapped>>

fetchFailed(s) ==
    /\ ~trapped
    /\ fetches[s] > 0
    /\ fetches' = [fetches EXCEPT ![s] = @ - 1]
    /\ UNCHANGED <<contacts, marked, loaded, shown, rows, top, cells, saves, trip, replaced,
                   reread, trapped>>

\* initializeUser answered, for the settings screen: the record that was read takes
\* the place of the one in memory and of both its lists. No table is reloaded.
userInitialized(lists) ==
    /\ ~trapped
    /\ marked' = lists
    /\ reread' = reread \cup {s \in loaded : lists[s] # marked[s]}
    /\ Cardinality(reread') <= MaxReread
    /\ UNCHANGED <<contacts, loaded, shown, rows, top, cells, fetches, saves, trip,
                   replaced, trapped>>

\* cellForRowAt, for a row that scrolling brings into view.
cellForRow(s, r) ==
    /\ trapped' = (r \notin DOMAIN contacts)
    /\ cells' = IF r \in DOMAIN contacts
                THEN [cells EXCEPT ![s][SlotOf(r)] = Cell(s, contacts[r])]
                ELSE cells
    /\ UNCHANGED <<contacts, marked, loaded, shown, rows, fetches, saves, trip, replaced, reread>>

scrollDown(s) ==
    /\ ~trapped
    /\ shown = s
    /\ top[s] + Visible < rows[s]
    /\ top' = [top EXCEPT ![s] = @ + 1]
    /\ cellForRow(s, top[s] + Visible + 1)

scrollUp(s) ==
    /\ ~trapped
    /\ shown = s
    /\ top[s] > 0
    /\ top' = [top EXCEPT ![s] = @ - 1]
    /\ cellForRow(s, top[s])

\* A label that a save turns over.
LabelTurned(s, k, m) == [cells EXCEPT ![s][k].label = ~@]

\* updateViews of a cell, after the list has become m.
Relabelled(s, k, m) == [cells EXCEPT ![s][k].label = cells[s][k].person \in m]

\* The person that the array has at the row of the cell.
PersonAtRow(s, k) ==
    LET r == CHOOSE i \in InView(s) : SlotOf(i) = k
    IN  IF r \in DOMAIN contacts THEN contacts[r] ELSE 0

\* The person that the cell took when it was filled.
TappedPerson(s, k) == cells[s][k].person

\* blockContact, unblockContact, inviteContact or uninviteContact; the last of
\* each pair calls back at once, and again when it is saved.
buttonTapped(s, k) ==
    LET p == TappedPerson(s, k)
    IN  /\ ~trapped
        /\ shown = s
        /\ CellInView(s, k)
        /\ Unanswered + Len(saves) < MaxCalls
        /\ saves' = Append(saves, [screen |-> s, cell |-> k])
        /\ IF p \in marked[s]
           THEN /\ marked' = [marked EXCEPT ![s] = @ \ {p}]
                /\ cells' = Relabelled(s, k, marked'[s])
           ELSE /\ marked' = [marked EXCEPT ![s] = @ \cup {p}]
                /\ UNCHANGED cells
        /\ UNCHANGED <<contacts, loaded, shown, rows, top, fetches, trip, replaced, reread,
                       trapped>>

\* The completion of a save has the cell that was tapped show its person's state,
\* whoever its person is by now.
saveAnswered ==
    /\ ~trapped
    /\ saves # <<>>
    /\ LET a == Head(saves)
       IN  cells' = Relabelled(a.screen, a.cell, marked[a.screen])
    /\ saves' = Tail(saves)
    /\ UNCHANGED <<contacts, marked, loaded, shown, rows, top, fetches, trip, replaced,
                   reread, trapped>>

\* One trip at a time is on its way (bound).
createTripButtonTapped ==
    /\ ~trapped
    /\ shown = "createTrip"
    /\ trip = "none"
    /\ trip' = "present"
    /\ UNCHANGED <<contacts, marked, loaded, shown, rows, top, cells, fetches, saves, replaced,
                   reread, trapped>>

\* removeInvitedContacts: the list of invited users is emptied, under whatever the
\* cells say.
InvitedRemoved ==
    /\ marked' = [marked EXCEPT !["createTrip"] = {}]
    /\ UNCHANGED <<contacts, loaded, shown, rows, top, cells, fetches, saves, replaced,
                   reread, trapped>>

\* The trip of the present screen is stored.
tripStored ==
    /\ ~trapped
    /\ trip = "present"
    /\ trip' = "popping"
    /\ InvitedRemoved

\* The screen is left a turn of the main queue later.
popToRoot ==
    /\ ~trapped
    /\ trip = "popping"
    /\ trip' = "none"
    /\ Leave("createTrip")
    /\ UNCHANGED <<contacts, marked, trapped>>

\* The trip of an earlier screen is stored: the list is emptied all the same.
earlierTripStored ==
    /\ ~trapped
    /\ trip = "earlier"
    /\ trip' = "none"
    /\ InvitedRemoved

Next ==
    \/ \E s \in Screen : viewDidLoad(s) \/ viewWillAppear(s) \/ scrollDown(s) \/ scrollUp(s)
    \/ \E s \in Screen, k \in Slot : buttonTapped(s, k)
    \/ \E s \in Asker, S \in SUBSET Person : contactsFetched(s, S) \/ fetchCutShort(s, S)
    \/ \E s \in Asker : fetchFailed(s)
    \/ \E lists \in [Screen -> SUBSET Person] : userInitialized(lists)
    \/ back \/ saveAnswered
    \/ createTripButtonTapped \/ tripStored \/ popToRoot \/ earlierTripStored

Spec == Init /\ [][Next]_vars

-----------------------------------------------------------------------------
SaveOutstanding(s, k) == \E i \in DOMAIN saves : saves[i].screen = s /\ saves[i].cell = k

\* A cell in view of a table that counted the present array and has drawn its cells
\* since a re-read last changed its list, and no save of the cell is under way. (The
\* program redraws nothing when a re-read changes a list: only a second device, a
\* refused save or a reload that overtakes a save lets one do so.)
Settled(s, k) ==
    s \notin replaced /\ s \notin reread /\ CellInView(s, k) /\ ~SaveOutstanding(s, k)

\* A settled button says whether its person is blocked: through scrolling, reloads,
\* reused cells, screens that are left and taps ahead of the answers to their saves.
BlockLabelsAgree ==
    \A k \in Slot :
        Settled("contacts", k) =>
            LET c == cells["contacts"][k] IN c.label = (c.person \in marked["contacts"])

\* Nobody is on the list of invited users behind a settled button that says INVITE.
\* (The converse fails: a stored trip, even that of an earlier screen, empties the
\* list under buttons that say INVITED.)
InvitedAreLabelled ==
    \A k \in Slot :
        Settled("createTrip", k) =>
            LET c == cells["createTrip"][k] IN c.person \in marked["createTrip"] => c.label

\* A table that counted the present array finds every row it asks for in it; only
\* an array that was replaced behind a table can trap.
CountedRowsExist ==
    /\ \A s \in loaded \ replaced : rows[s] = Len(contacts)
    /\ trapped => replaced # {}

\* A tap, the step that begins a save, blocks, unblocks, invites or uninvites a person
\* the screen in front shows, whatever has happened to the array behind the table.
TapsHitTheShown ==
    [][\A s \in Screen :
           Len(saves') > Len(saves) /\ marked'[s] # marked[s]
           => /\ shown = s
              /\ \E k \in Slot :
                     /\ CellInView(s, k)
                     /\ (marked'[s] \ marked[s]) \cup (marked[s] \ marked'[s])
                            \subseteq {cells[s][k].person}]_vars

\* The array has every row that a table asks a cell for.
RowsInRange == ~trapped

=============================================================================
