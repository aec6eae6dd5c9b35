-------------------------------- MODULE Session --------------------------------
(***************************************************************************)
(* Who uses the device: accounts of Firebase Auth, the user documents that *)
(* go with them, the user Auth has signed in, the user PersonController    *)
(* holds in memory, and the screens (splash, login, create account, the    *)
(* main tabs, delete account) that start account operations and go on when *)
(* these are answered.                                                     *)
(*                                                                         *)
(* Screens are presented one over another.  A completion block presents    *)
(* from the screen that asked, which UIKit ignores unless that screen is   *)
(* on top.  The Firestore client keeps one queue of writes per Auth user,  *)
(* and sends the one of the user signed in.                                *)
(*                                                                         *)
(* An answer and the block it runs are one step, except where Auth has     *)
(* changed something for good before the block goes on with it.            *)
(***************************************************************************)
EXTENDS Naturals, Sequences

CONSTANTS
    User,          \* UIDs; Auth gives each to one account at most
    NoUser,        \* nobody
    MaxDepth,      \* bound: the user opens a screen while fewer than MaxDepth are open
    MaxQueue,      \* bound: with MaxQueue writes queued the user edits nothing
    Patient,       \* does the user wait for the answer to what was asked?
    KilledMidway,  \* is the app killed while an answer is awaited?
    Failures       \* do reads fail and does the backend refuse writes?

ASSUME NoUserAssumption == NoUser \notin User

ASSUME SessionBoundAssumption ==
    /\ MaxDepth \in Nat \ {0, 1} /\ MaxQueue \in Nat \ {0}
    /\ {Patient, KilledMidway, Failures} \subseteq BOOLEAN

Someone == User \cup {NoUser}

VARIABLES
    accounts,     \* the accounts of Firebase Auth
    issued,       \* the UIDs Auth has given out
    records,      \* the documents of the collection "users"
    authUser,     \* Auth.auth().currentUser, kept in the keychain
    currentUser,  \* PersonController.currentUser
    chain,        \* the screens presented one over another, from the splash screen on
    calls,        \* what was asked and has not been answered
    queue         \* the Firestore client's mutation queues, one for each Auth user

vars == <<accounts, issued, records, authUser, currentUser, chain, calls, queue>>

Screen == {"splash", "login", "signup", "main", "delete"}

CallKind ==
    {"launch", "signIn", "read", "reload", "create", "created", "deleteUser", "deleted"}

\* Something asked by the screen at depth from (0: it is gone), about an account and,
\* for a deletion, about a record.
Call == [kind : CallKind, user : Someone, person : Someone, from : Nat]

Ask(kind, user, person, from) ==
    [kind |-> kind, user |-> user, person |-> person, from |-> from]

\* A queued write of a user document; from is the screen its block presents from, or 0.
Write == [op : {"set", "delete"}, of : Someone, from : Nat]

SetRecord(u, from) == [op |-> "set", of |-> u, from |-> from]

DeleteRecord(u, from) == [op |-> "delete", of |-> u, from |-> from]

Top == chain[Len(chain)]

Asking(kind) == {c \in calls : c.kind = kind}

\* An impatient user taps again before the answer: what a button or a screen asks, and
\* the read that follows a login, may be under way several times, and one member of
\* calls stands for all that are equal.
Repeatable(c) ==
    /\ ~Patient
    /\ c.kind \in {"signIn", "read", "reload", "create", "deleteUser"}
    /\ c.from # 1

\* What may still be under way when one call like c is answered.
LeftOver(c) == {calls \ {c}} \cup (IF Repeatable(c) THEN {calls} ELSE {})

\* A document exists for the client if the newest queued write of it sets it, or, when
\* none is queued, if the backend has it.
ExistsOnServer(u) == u \in records

Exists(u) ==
    LET q     == queue[authUser]
        about == {i \in DOMAIN q : q[i].of = u}
    IN IF about = {} THEN u \in records
       ELSE \E i \in about : q[i].op = "set" /\ \A j \in about : j <= i

TypeOK ==
    /\ accounts \subseteq issued /\ issued \subseteq User /\ records \subseteq User
    /\ authUser \in Someone
    /\ currentUser \in Someone
    /\ chain \in Seq(Screen) /\ chain # <<>>
    /\ calls \subseteq Call
    /\ queue \in [Someone -> Seq(Write)]
    /\ \A c \in calls : c.from <= Len(chain)
    /\ \A u \in Someone : \A i \in DOMAIN queue[u] : queue[u][i].from <= Len(chain)

\* The app is started; accounts that were made on other devices have their records.
Init ==
    /\ accounts \in SUBSET User
    /\ issued = accounts /\ records = accounts
    /\ authUser \in accounts \cup {NoUser}
    /\ currentUser = NoUser
    /\ chain = <<"splash">>
    /\ calls = {Ask("launch", NoUser, NoUser, 1)}
    /\ queue = [u \in Someone |-> <<>>]

\* present(_:animated:) from the screen at depth from.
Present(from, screen) ==
    chain' = IF from = Len(chain) THEN Append(chain, screen) ELSE chain

Settled == calls = {} /\ \A u \in Someone : \A i \in DOMAIN queue[u] : queue[u][i].from = 0

CanTap(screen) == Top = screen /\ (Patient => Settled)

-----------------------------------------------------------------------------
(***************************************************************************)
(* Launch, login, and reading the record.                                  *)
(***************************************************************************)

findUser(c) ==
    /\ c \in Asking("launch")
    /\ IF authUser = NoUser
       THEN /\ calls' = calls \ {c}
            /\ Present(c.from, "login")
       ELSE /\ calls' = (calls \ {c}) \cup {Ask("read", authUser, NoUser, c.from)}
            /\ UNCHANGED chain
    /\ UNCHANGED <<accounts, issued, records, authUser, currentUser, queue>>

loginButtonTapped(u) ==
    /\ CanTap("login")
    /\ Len(chain) < MaxDepth
    /\ calls' = calls \cup {Ask("signIn", u, NoUser, Len(chain))}
    /\ UNCHANGED <<accounts, issued, records, authUser, currentUser, chain, queue>>

\* userSignedIn, if the main tabs came up before the record has been read.
enterAtOnce(c) ==
    /\ c \in Asking("signIn")
    /\ c.user \in accounts
    /\ authUser' = c.user
    /\ \E rest \in LeftOver(c) :
          calls' = rest \cup {Ask("read", c.user, NoUser, c.from)}
    /\ Present(c.from, "main")
    /\ UNCHANGED <<accounts, issued, records, currentUser, queue>>

userSignedIn(c) ==
    /\ c \in Asking("signIn")
    /\ c.user \in accounts
    /\ authUser' = c.user
    /\ \E rest \in LeftOver(c) :
          calls' = rest \cup {Ask("read", c.user, NoUser, c.from)}
    /\ UNCHANGED <<accounts, issued, records, currentUser, chain, queue>>

\* initializeUser's block: nothing at all happens when the document does not exist.
userRead(c) ==
    /\ c \in Asking("read") \cup Asking("reload")
    /\ calls' \in LeftOver(c)
    /\ IF Exists(c.user)
       THEN /\ currentUser' = c.user
            /\ IF c.kind = "read" THEN Present(c.from, "main") ELSE UNCHANGED chain
       ELSE UNCHANGED <<currentUser, chain>>
    /\ UNCHANGED <<accounts, issued, records, authUser, queue>>

readFailed(c) ==
    /\ Failures
    /\ c \in Asking("read") \cup Asking("reload")
    /\ calls' \in LeftOver(c)
    /\ UNCHANGED <<accounts, issued, records, authUser, currentUser, chain, queue>>

\* Auth answers with an error: no such account, wrong password, address taken, old login.
authFailed(c) ==
    /\ c \in Asking("signIn") \cup Asking("create") \cup Asking("deleteUser")
    /\ calls' \in LeftOver(c)
    /\ UNCHANGED <<accounts, issued, records, authUser, currentUser, chain, queue>>

-----------------------------------------------------------------------------
(***************************************************************************)
(* Creating an account.                                                    *)
(***************************************************************************)

\* The segues to the create-account and to the delete-account screen, and their
\* cancel buttons.
openSheet(under, screen) ==
    /\ CanTap(under)
    /\ Len(chain) < MaxDepth - 1
    /\ chain' = Append(chain, screen)
    /\ UNCHANGED <<accounts, issued, records, authUser, currentUser, calls, queue>>

\* cancelButtonTapped, if the blocks of a closed screen presented from what is there.
cancelKeepsCalls ==
    /\ \E screen \in {"signup", "delete"} : CanTap(screen)
    /\ chain' = SubSeq(chain, 1, Len(chain) - 1)
    /\ UNCHANGED <<accounts, issued, records, authUser, currentUser, calls, queue>>

cancelButtonTapped ==
    LET Gone(x) == IF x.from = Len(chain) THEN [x EXCEPT !.from = 0] ELSE x IN
    /\ \E screen \in {"signup", "delete"} : CanTap(screen)
    /\ chain' = SubSeq(chain, 1, Len(chain) - 1)
    /\ calls' = {Gone(c) : c \in calls}
    /\ queue' = [u \in Someone |-> [i \in DOMAIN queue[u] |-> Gone(queue[u][i])]]
    /\ UNCHANGED <<accounts, issued, records, authUser, currentUser>>

createAccountButtonTapped ==
    /\ CanTap("signup")
    /\ calls' = calls \cup {Ask("create", NoUser, NoUser, Len(chain))}
    /\ UNCHANGED <<accounts, issued, records, authUser, currentUser, chain, queue>>

\* Auth makes the account and signs it in; createAccount's block has still to run.
accountCreated(c) ==
    /\ c \in Asking("create")
    /\ \E u \in User \ issued :
          /\ accounts' = accounts \cup {u}
          /\ issued' = issued \cup {u}
          /\ authUser' = u
          /\ \E rest \in LeftOver(c) :
                calls' = rest \cup {Ask("created", u, NoUser, c.from)}
    /\ UNCHANGED <<records, currentUser, chain, queue>>

\* recordCreated, if the user in memory stayed the one of before.
recordOnly(c) ==
    /\ c \in Asking("created")
    /\ queue' = [queue EXCEPT ![authUser] = Append(@, SetRecord(c.user, c.from))]
    /\ calls' = calls \ {c}
    /\ UNCHANGED <<accounts, issued, records, authUser, currentUser, chain>>

recordCreated(c) ==
    /\ c \in Asking("created")
    /\ currentUser' = c.user
    /\ queue' = [queue EXCEPT ![authUser] = Append(@, SetRecord(c.user, c.from))]
    /\ calls' = calls \ {c}
    /\ UNCHANGED <<accounts, issued, records, authUser, chain>>

-----------------------------------------------------------------------------
(***************************************************************************)
(* The main tabs: edits, Settings, logging out, deleting the account.      *)
(***************************************************************************)

\* Anything that ends in saveUserToFirestore.
saveUserToFirestore ==
    /\ CanTap("main")
    /\ currentUser # NoUser
    /\ Len(queue[authUser]) < MaxQueue
    /\ queue' = [queue EXCEPT ![authUser] = Append(@, SetRecord(currentUser, 0))]
    /\ UNCHANGED <<accounts, issued, records, authUser, currentUser, chain, calls>>

settingsAppears ==
    /\ CanTap("main")
    /\ authUser # NoUser
    /\ calls' = calls \cup {Ask("reload", authUser, NoUser, Len(chain))}
    /\ UNCHANGED <<accounts, issued, records, authUser, currentUser, chain, queue>>

logOutButtonTapped ==
    /\ CanTap("main")
    /\ Len(chain) < MaxDepth
    /\ authUser' = NoUser
    /\ chain' = Append(chain, "login")
    /\ UNCHANGED <<accounts, issued, records, currentUser, calls, queue>>

deleteAccountButtonTapped ==
    /\ CanTap("delete")
    /\ authUser # NoUser /\ currentUser # NoUser
    /\ calls' = calls \cup {Ask("deleteUser", authUser, currentUser, Len(chain))}
    /\ UNCHANGED <<accounts, issued, records, authUser, currentUser, chain, queue>>

\* Auth deletes the account and signs it out; deleteUser's block has still to run.
accountDeleted(c) ==
    /\ c \in Asking("deleteUser")
    /\ c.user \in accounts
    /\ accounts' = accounts \ {c.user}
    /\ authUser' = IF authUser = c.user THEN NoUser ELSE authUser
    /\ \E rest \in LeftOver(c) :
          calls' = rest \cup {Ask("deleted", c.user, c.person, c.from)}
    /\ UNCHANGED <<issued, records, currentUser, chain, queue>>

\* recordDeleted, if only the account were deleted.
accountOnly(c) ==
    /\ c \in Asking("deleted")
    /\ calls' = calls \ {c}
    /\ Present(c.from, "login")
    /\ UNCHANGED <<accounts, issued, records, authUser, currentUser, queue>>

recordDeleted(c) ==
    /\ c \in Asking("deleted")
    /\ queue' = [queue EXCEPT ![authUser] = Append(@, DeleteRecord(c.person, c.from))]
    /\ calls' = calls \ {c}
    /\ UNCHANGED <<accounts, issued, records, authUser, currentUser, chain>>

-----------------------------------------------------------------------------
(***************************************************************************)
(* The Firestore client and the process.                                   *)
(***************************************************************************)

\* The oldest write of the signed-in user is applied, and its block goes on: to the
\* main tabs from create account, to the login screen from delete account.
writeCommitted ==
    /\ queue[authUser] # <<>>
    /\ LET w == Head(queue[authUser]) IN
          /\ records' = IF w.op = "set" THEN records \cup {w.of} ELSE records \ {w.of}
          /\ Present(w.from, IF w.op = "set" THEN "main" ELSE "login")
    /\ queue' = [queue EXCEPT ![authUser] = Tail(@)]
    /\ UNCHANGED <<accounts, issued, authUser, currentUser, calls>>

writeRejected ==
    /\ Failures
    /\ queue[authUser] # <<>>
    /\ queue' = [queue EXCEPT ![authUser] = Tail(@)]
    /\ UNCHANGED <<accounts, issued, records, authUser, currentUser, chain, calls>>

\* The process dies and starts again: Auth's user and the queues are on disk.
relaunch ==
    /\ KilledMidway \/ calls = {}
    /\ currentUser' = NoUser
    /\ chain' = <<"splash">>
    /\ calls' = {Ask("launch", NoUser, NoUser, 1)}
    /\ queue' = [u \in Someone |->
          [i \in DOMAIN queue[u] |-> [queue[u][i] EXCEPT !.from = 0]]]
    /\ UNCHANGED <<accounts, issued, records, authUser>>

Tap ==
    \/ \E u \in User : loginButtonTapped(u)
    \/ openSheet("login", "signup")
    \/ openSheet("main", "delete")
    \/ cancelButtonTapped
    \/ createAccountButtonTapped
    \/ saveUserToFirestore
    \/ settingsAppears
    \/ logOutButtonTapped
    \/ deleteAccountButtonTapped

Answer(c) ==
    \/ findUser(c) \/ userSignedIn(c) \/ userRead(c) \/ readFailed(c) \/ authFailed(c)
    \/ accountCreated(c) \/ recordCreated(c)
    \/ accountDeleted(c) \/ recordDeleted(c)

Next == Tap \/ (\E c \in calls : Answer(c)) \/ writeCommitted \/ writeRejected \/ relaunch

Spec == Init /\ [][Next]_vars

\* What was asked is answered and blocks run; the client keeps sending its queue.
Fairness == WF_vars(\E c \in calls : Answer(c)) /\ WF_vars(writeCommitted)

FairSpec == Spec /\ Fairness

-----------------------------------------------------------------------------
(***************************************************************************)
(* Properties                                                              *)
(***************************************************************************)

\* The device writes and deletes the record of the user Auth has signed in and of
\* nobody else, although who is in memory and who is signed in are set by different
\* answers and logging out leaves the user in memory.
WritesAreOwn ==
    /\ \A u \in User : \A i \in DOMAIN queue[u] : queue[u][i].of = u
    /\ \A i \in DOMAIN queue[NoUser] : queue[NoUser][i].op = "delete"
    /\ \A c \in Asking("deleteUser") : c.user = c.person

\* When nothing is asked or queued any more, every account has its record and every
\* record its account: creation and deletion have been finished in both places.
AccountsHaveRecords ==
    (calls = {} /\ \A u \in accounts \cup {NoUser} : queue[u] = <<>>) => records = accounts

\* The main tabs never show without a user in memory: every screen behind them returns
\* silently, doing nothing, when there is none.
MainHasUser == Top = "main" => currentUser # NoUser

\* The splash screen is always left again.
LaunchGoesOn == Top = "splash" ~> Top # "splash"

=============================================================================
