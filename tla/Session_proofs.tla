----------------------------- MODULE Session_proofs -----------------------------
(***************************************************************************)
(* Theorems about Session for every set of users and every bound.  The     *)
(* first two hold for every setting of the switches: impatient users,      *)
(* failures, a process that is killed at any time.  The other two say      *)
(* under which of them a device writes its user's record only, and records *)
(* follow accounts.                                                        *)
(***************************************************************************)
EXTENDS Session, TLAPS

-----------------------------------------------------------------------------
(***************************************************************************)
(* The inductive invariant.  The main tabs come up in two ways, from the   *)
(* block of a read, which sets the user in memory itself, and from the     *)
(* block of a sign-up's write, which relies on one set earlier: so a queued*)
(* write whose block would present the main tabs implies a user in memory. *)
(* Logging out and later screens only cover the main tabs, and a cancel    *)
(* button uncovers them, so "the main tabs are on top" is strengthened to  *)
(* "the main tabs are open".  Every account call but the first two kinds   *)
(* names a user, every queued save too, and the splash screen is never     *)
(* dismissed.                                                              *)
(***************************************************************************)

NamesUser(c) == c.kind \notin {"launch", "create"} => c.user \in User

SaveNamesUser(w, held) ==
    w.op = "set" => w.of \in User /\ (w.from # 0 => held # NoUser)

QueueNamesUsers(q, held) == \A i \in DOMAIN q : SaveNamesUser(q[i], held)

MainIsOpen(screens) == \E i \in DOMAIN screens : screens[i] = "main"

SessionInv ==
    /\ TypeOK
    /\ chain[1] = "splash"
    /\ MainIsOpen(chain) => currentUser # NoUser
    /\ \A c \in calls : NamesUser(c)
    /\ \A u \in Someone : QueueNamesUsers(queue[u], currentUser)

-----------------------------------------------------------------------------
(***************************************************************************)
(* Screens, calls and queues.                                              *)
(***************************************************************************)

LEMMA ChainType ==
    ASSUME SessionInv
    PROVE  /\ chain \in Seq(Screen) /\ chain # <<>>
           /\ Len(chain) \in Nat \ {0} /\ DOMAIN chain = 1..Len(chain)
BY DEF SessionInv, TypeOK

\* Presenting a screen other than the main tabs, or with a user in memory.
LEMMA PresentKeeps ==
    ASSUME SessionInv, NEW from \in Nat, NEW screen \in Screen, NEW held \in Someone,
           Present(from, screen),
           currentUser # NoUser => held # NoUser,
           screen = "main" /\ from # 0 => held # NoUser
    PROVE  /\ chain' \in Seq(Screen) /\ chain' # <<>> /\ chain'[1] = "splash"
           /\ Len(chain') \in Nat /\ Len(chain) <= Len(chain')
           /\ MainIsOpen(chain') => held # NoUser
<1>1. chain \in Seq(Screen) /\ Len(chain) \in Nat \ {0} /\ chain[1] = "splash"
  BY ChainType DEF SessionInv
<1>2. MainIsOpen(chain) => held # NoUser
  BY DEF SessionInv
<1>3. CASE chain' = chain
  BY <1>1, <1>2, <1>3
<1>4. CASE from = Len(chain) /\ chain' = Append(chain, screen)
  <2>1. /\ chain' \in Seq(Screen) /\ Len(chain') = Len(chain) + 1
        /\ chain'[Len(chain')] = screen
        /\ \A i \in 1..Len(chain) : chain'[i] = chain[i]
    BY <1>1, <1>4
  <2>2. MainIsOpen(chain') => held # NoUser
    BY <1>1, <1>2, <1>4, <2>1 DEF MainIsOpen
  <2> QED
    BY <1>1, <2>1, <2>2
<1> QED
  BY <1>3, <1>4 DEF Present

LEMMA AskType ==
    ASSUME NEW kind \in CallKind, NEW user \in Someone, NEW person \in Someone, NEW from \in Nat
    PROVE  /\ Ask(kind, user, person, from) \in Call
           /\ Ask(kind, user, person, from).kind = kind
           /\ Ask(kind, user, person, from).user = user
           /\ Ask(kind, user, person, from).from = from
BY DEF Ask, Call

\* Queueing a write, with a user in memory that is one if there was one.
LEMMA QueueKeeps ==
    ASSUME SessionInv, NEW w \in Write, NEW held \in Someone, SaveNamesUser(w, held),
           w.from <= Len(chain), currentUser # NoUser => held # NoUser,
           queue' = [queue EXCEPT ![authUser] = Append(@, w)]
    PROVE  /\ queue' \in [Someone -> Seq(Write)]
           /\ \A u \in Someone : \A i \in DOMAIN queue'[u] : queue'[u][i].from <= Len(chain)
           /\ \A u \in Someone : QueueNamesUsers(queue'[u], held)
<1>1. queue \in [Someone -> Seq(Write)] /\ authUser \in Someone
  BY DEF SessionInv, TypeOK
<1>2. queue' \in [Someone -> Seq(Write)]
  BY <1>1
<1>3. ASSUME NEW u \in Someone, NEW i \in DOMAIN queue'[u]
      PROVE  queue'[u][i].from <= Len(chain) /\ SaveNamesUser(queue'[u][i], held)
  <2>1. queue[u] \in Seq(Write)
    BY <1>1
  <2>2. CASE i \in DOMAIN queue[u] /\ queue'[u][i] = queue[u][i]
    BY <2>2 DEF SessionInv, TypeOK, QueueNamesUsers, SaveNamesUser
  <2>3. CASE queue'[u][i] = w
    BY <2>3
  <2>4. queue'[u] = queue[u] \/ queue'[u] = Append(queue[u], w)
    BY <1>1
  <2> QED
    BY <2>1, <2>2, <2>3, <2>4
<1> QED
  BY <1>2, <1>3 DEF QueueNamesUsers

LEMMA TailElement ==
    ASSUME NEW S, NEW q \in Seq(S), q # <<>>, NEW i \in DOMAIN Tail(q)
    PROVE  i + 1 \in DOMAIN q /\ Tail(q)[i] = q[i + 1]
<1>1. Len(q) \in Nat \ {0} /\ DOMAIN q = 1..Len(q)
  OBVIOUS
<1>2. Tail(q) \in Seq(S) /\ Len(Tail(q)) = Len(q) - 1
  BY <1>1
<1>3. DOMAIN Tail(q) = 1..Len(q) - 1 /\ i \in 1..Len(q) - 1
  BY <1>2
<1>4. i + 1 \in 1..Len(q)
  BY <1>1, <1>3
<1> QED
  BY <1>1, <1>3, <1>4

\* Taking the oldest write off the queue.
LEMMA DequeueKeeps ==
    ASSUME SessionInv, queue[authUser] # <<>>,
           queue' = [queue EXCEPT ![authUser] = Tail(@)]
    PROVE  /\ Head(queue[authUser]) \in Write
           /\ SaveNamesUser(Head(queue[authUser]), currentUser)
           /\ Head(queue[authUser]).from <= Len(chain)
           /\ queue' \in [Someone -> Seq(Write)]
           /\ \A u \in Someone : \A i \in DOMAIN queue'[u] : queue'[u][i].from <= Len(chain)
           /\ \A u \in Someone : QueueNamesUsers(queue'[u], currentUser)
<1>1. queue \in [Someone -> Seq(Write)] /\ authUser \in Someone
  BY DEF SessionInv, TypeOK
<1>2. queue[authUser] \in Seq(Write) /\ 1 \in DOMAIN queue[authUser]
      /\ Head(queue[authUser]) = queue[authUser][1]
  BY <1>1
<1>3. queue' \in [Someone -> Seq(Write)]
  BY <1>1
<1>4. ASSUME NEW u \in Someone, NEW i \in DOMAIN queue'[u]
      PROVE  \E j \in DOMAIN queue[u] : queue'[u][i] = queue[u][j]
  <2>1. queue[u] \in Seq(Write)
    BY <1>1
  <2>2. CASE u # authUser
    BY <1>1, <2>2
  <2>3. CASE u = authUser
    <3>1. queue'[u] = Tail(queue[u])
      BY <1>1, <2>3
    <3>2. PICK q : q = queue[u]
      OBVIOUS
    <3>3. q \in Seq(Write) /\ q # <<>> /\ i \in DOMAIN Tail(q)
      BY <2>1, <2>3, <3>1, <3>2
    <3>4. i + 1 \in DOMAIN q /\ Tail(q)[i] = q[i + 1]
      BY <3>3, TailElement
    <3> QED
      BY <3>1, <3>2, <3>4
  <2> QED
    BY <2>2, <2>3
<1>5. \A u \in Someone : \A j \in DOMAIN queue[u] :
          queue[u][j].from <= Len(chain) /\ SaveNamesUser(queue[u][j], currentUser)
  BY DEF SessionInv, TypeOK, QueueNamesUsers
<1> QED
  BY <1>1, <1>2, <1>3, <1>4, <1>5 DEF QueueNamesUsers

-----------------------------------------------------------------------------
(***************************************************************************)
(* The steps.                                                              *)
(***************************************************************************)

LEMMA InitEstablishes ==
    ASSUME Init
    PROVE  SessionInv
<1>1. chain = <<"splash">> /\ chain \in Seq(Screen) /\ Len(chain) = 1 /\ chain[1] = "splash"
  BY DEF Init, Screen
<1>2. ~MainIsOpen(chain)
  BY <1>1 DEF MainIsOpen
<1>3. calls \subseteq Call /\ \A c \in calls : NamesUser(c) /\ c.from <= Len(chain)
  BY <1>1 DEF Init, Call, CallKind, Ask, NamesUser, Someone
<1>4. queue = [u \in Someone |-> <<>>] /\ queue \in [Someone -> Seq(Write)]
  BY DEF Init
<1>5. accounts \subseteq issued /\ issued \subseteq User /\ records \subseteq User
      /\ authUser \in Someone /\ currentUser \in Someone
  BY DEF Init, Someone
<1> QED
  BY <1>1, <1>2, <1>3, <1>4, <1>5 DEF SessionInv, TypeOK, QueueNamesUsers

\* Asking for something more, and nothing else.
LEMMA AskKeeps ==
    ASSUME SessionInv, NEW kind \in CallKind, NEW user \in Someone, NEW person \in Someone,
           kind \notin {"launch", "create"} => user \in User,
           calls' = calls \cup {Ask(kind, user, person, Len(chain))},
           UNCHANGED <<accounts, issued, records, authUser, currentUser, chain, queue>>
    PROVE  SessionInv'
<1>. DEFINE new == Ask(kind, user, person, Len(chain))
<1>1. new \in Call /\ NamesUser(new) /\ new.from <= Len(chain)
  BY AskType, ChainType DEF NamesUser
<1>2. calls' \subseteq Call /\ \A c \in calls' : NamesUser(c) /\ c.from <= Len(chain)
  BY <1>1 DEF SessionInv, TypeOK
<1> HIDE DEF new
<1> QED
  BY <1>2 DEF SessionInv, TypeOK, QueueNamesUsers, SaveNamesUser, MainIsOpen

\* An answer that asks for nothing more, and one that asks for something more.
LEMMA LeftOverCalls ==
    ASSUME NEW c \in calls
    PROVE  /\ \A rest \in LeftOver(c) : rest \subseteq calls
           /\ Patient => LeftOver(c) = {calls \ {c}}
BY DEF LeftOver, Repeatable

LEMMA AnsweredCalls ==
    ASSUME SessionInv, calls' \subseteq calls
    PROVE  calls' \subseteq Call /\ \A d \in calls' : NamesUser(d) /\ d.from <= Len(chain)
BY DEF SessionInv, TypeOK

LEMMA AnsweredAndAsks ==
    ASSUME SessionInv, NEW c \in calls, NEW rest \in SUBSET calls,
           NEW kind \in CallKind, NEW user \in User, NEW person \in Someone,
           calls' = rest \cup {Ask(kind, user, person, c.from)}
    PROVE  calls' \subseteq Call /\ \A d \in calls' : NamesUser(d) /\ d.from <= Len(chain)
<1>. DEFINE new == Ask(kind, user, person, c.from)
<1>1. c.from \in Nat /\ c.from <= Len(chain) /\ user \in Someone
  BY DEF SessionInv, TypeOK, Call, Someone
<1>2. new \in Call /\ NamesUser(new) /\ new.from <= Len(chain)
  BY <1>1, AskType DEF NamesUser
<1> QED
  BY <1>2 DEF SessionInv, TypeOK

\* What a step has to show when it replaces calls, queue or chain: the parts of the
\* invariant that relate them, the chain being the old one or a longer one.
LEMMA StepKeeps ==
    ASSUME accounts' \subseteq issued', issued' \subseteq User, records' \subseteq User,
           authUser' \in Someone, currentUser' \in Someone,
           chain' \in Seq(Screen), chain' # <<>>, chain'[1] = "splash",
           MainIsOpen(chain') => currentUser' # NoUser,
           NEW n \in Nat, n <= Len(chain'),
           calls' \subseteq Call, \A c \in calls' : NamesUser(c) /\ c.from <= n,
           queue' \in [Someone -> Seq(Write)],
           \A u \in Someone : \A i \in DOMAIN queue'[u] : queue'[u][i].from <= n,
           \A u \in Someone : QueueNamesUsers(queue'[u], currentUser')
    PROVE  SessionInv'
<1>1. Len(chain') \in Nat
  OBVIOUS
<1>2. \A c \in calls' : c.from \in Nat
  BY DEF Call
<1>3. ASSUME NEW u \in Someone, NEW i \in DOMAIN queue'[u]
      PROVE  queue'[u][i].from \in Nat
  <2>1. queue'[u] \in Seq(Write)
    OBVIOUS
  <2>2. queue'[u][i] \in Write
    BY <2>1
  <2> QED
    BY <2>2 DEF Write
<1>4. TypeOK'
  BY <1>1, <1>2, <1>3 DEF TypeOK
<1> QED
  BY <1>4 DEF SessionInv

\* The queue stays, and so does a user in memory, if there is one.
LEMMA OldQueue ==
    ASSUME SessionInv, UNCHANGED queue, NEW held, currentUser # NoUser => held # NoUser
    PROVE  /\ queue' \in [Someone -> Seq(Write)]
           /\ \A u \in Someone : \A i \in DOMAIN queue'[u] : queue'[u][i].from <= Len(chain)
           /\ \A u \in Someone : QueueNamesUsers(queue'[u], held)
BY DEF SessionInv, TypeOK, QueueNamesUsers, SaveNamesUser

LEMMA LaunchKeeps ==
    ASSUME SessionInv, NEW c \in calls, findUser(c)
    PROVE  SessionInv'
<1>1. c.from \in Nat /\ authUser \in Someone /\ currentUser \in Someone
  BY DEF SessionInv, TypeOK, Call
<1>2. CASE authUser = NoUser
  <2>1. calls' = calls \ {c} /\ Present(c.from, "login")
    BY <1>2 DEF findUser
  <2>2. calls' \subseteq Call /\ \A d \in calls' : NamesUser(d) /\ d.from <= Len(chain)
    BY <2>1, AnsweredCalls
  <2>3. "login" \in Screen /\ "login" # "main"
    BY DEF Screen
  <2>4. /\ chain' \in Seq(Screen) /\ chain' # <<>> /\ chain'[1] = "splash"
        /\ Len(chain') \in Nat /\ Len(chain) <= Len(chain')
        /\ MainIsOpen(chain') => currentUser # NoUser
    BY <1>1, <2>1, <2>3, PresentKeeps
  <2> QED
    BY <1>2, <2>2, <2>4, ChainType, OldQueue, StepKeeps DEF findUser, SessionInv, TypeOK
<1>3. CASE authUser # NoUser
  <2>1. authUser \in User /\ NoUser \in Someone /\ "read" \in CallKind
    BY <1>1, <1>3 DEF Someone, CallKind
  <2>2. PICK rest \in SUBSET calls : calls' = rest \cup {Ask("read", authUser, NoUser, c.from)}
    BY <1>3 DEF findUser
  <2>3. calls' \subseteq Call /\ \A d \in calls' : NamesUser(d) /\ d.from <= Len(chain)
    BY <2>1, <2>2, AnsweredAndAsks
  <2> QED
    BY <1>3, <2>3, ChainType, OldQueue, StepKeeps DEF findUser, SessionInv, TypeOK
<1> QED
  BY <1>2, <1>3

LEMMA SignInKeeps ==
    ASSUME SessionInv, NEW c \in calls, userSignedIn(c)
    PROVE  SessionInv'
<1>1. c.user \in User /\ c.user \in Someone /\ NoUser \in Someone /\ "read" \in CallKind
  BY DEF userSignedIn, SessionInv, TypeOK, Someone, CallKind
<1>2. calls' \subseteq Call /\ \A d \in calls' : NamesUser(d) /\ d.from <= Len(chain)
  <2>1. PICK rest \in SUBSET calls : calls' = rest \cup {Ask("read", c.user, NoUser, c.from)}
    BY LeftOverCalls DEF userSignedIn
  <2> QED
    BY <1>1, <2>1, AnsweredAndAsks
<1> QED
  BY <1>1, <1>2, ChainType, OldQueue, StepKeeps DEF userSignedIn, SessionInv, TypeOK

\* The block of a read sets the user in memory before it presents the main tabs.
LEMMA ReadKeeps ==
    ASSUME SessionInv, NEW c \in calls, userRead(c)
    PROVE  SessionInv'
<1>1. calls' \subseteq Call /\ \A d \in calls' : NamesUser(d) /\ d.from <= Len(chain)
  <2>1. calls' \subseteq calls
    BY LeftOverCalls DEF userRead
  <2> QED
    BY <2>1, AnsweredCalls
<1>2. c.from \in Nat /\ currentUser \in Someone
  BY DEF SessionInv, TypeOK, Call
<1>3. c.user \in User /\ c.user \in Someone /\ c.user # NoUser
  <2>1. NamesUser(c) /\ c.kind \in {"read", "reload"}
    BY DEF SessionInv, userRead, Asking
  <2> QED
    BY <2>1, NoUserAssumption DEF NamesUser, Someone
<1>4. CASE UNCHANGED <<currentUser, chain>>
  BY <1>1, <1>4, ChainType, OldQueue, StepKeeps DEF userRead, SessionInv, TypeOK
<1>5. CASE currentUser' = c.user /\ UNCHANGED chain
  <2>1. MainIsOpen(chain') => currentUser' # NoUser
    BY <1>3, <1>5
  <2> QED
    BY <1>1, <1>3, <1>5, <2>1, ChainType, OldQueue, StepKeeps DEF userRead, SessionInv, TypeOK
<1>6. CASE currentUser' = c.user /\ Present(c.from, "main")
  <2>1. /\ chain' \in Seq(Screen) /\ chain' # <<>> /\ chain'[1] = "splash"
        /\ Len(chain') \in Nat /\ Len(chain) <= Len(chain')
        /\ MainIsOpen(chain') => c.user # NoUser
    <3>1. "main" \in Screen
      BY DEF Screen
    <3> QED
      BY <1>2, <1>3, <1>6, <3>1, PresentKeeps
  <2> QED
    BY <1>1, <1>3, <1>6, <2>1, ChainType, OldQueue, StepKeeps DEF userRead, SessionInv, TypeOK
<1> QED
  BY <1>4, <1>5, <1>6 DEF userRead

LEMMA FailureKeeps ==
    ASSUME SessionInv, NEW c \in calls, readFailed(c) \/ authFailed(c)
    PROVE  SessionInv'
<1>1. calls' \subseteq calls
      /\ UNCHANGED <<accounts, issued, records, authUser, currentUser, chain, queue>>
  BY LeftOverCalls DEF readFailed, authFailed
<1>2. calls' \subseteq Call /\ \A d \in calls' : NamesUser(d) /\ d.from <= Len(chain)
  BY <1>1, AnsweredCalls
<1> QED
  BY <1>1, <1>2, ChainType, OldQueue, StepKeeps DEF SessionInv, TypeOK

\* The segues, the cancel button, logging out: the chain changes.
LEMMA SheetKeeps ==
    ASSUME SessionInv, NEW under, NEW screen \in Screen \ {"main"}, openSheet(under, screen)
    PROVE  SessionInv'
<1>1. /\ chain' \in Seq(Screen) /\ chain' # <<>> /\ chain'[1] = "splash"
      /\ Len(chain') \in Nat /\ Len(chain) <= Len(chain')
      /\ MainIsOpen(chain') => currentUser # NoUser
  <2>1. Len(chain) \in Nat /\ Present(Len(chain), screen) /\ currentUser \in Someone
    BY ChainType DEF openSheet, Present, SessionInv, TypeOK
  <2> QED
    BY <2>1, PresentKeeps
<1>2. calls' \subseteq Call /\ \A c \in calls' : NamesUser(c) /\ c.from <= Len(chain)
  BY DEF openSheet, SessionInv, TypeOK
<1> QED
  BY <1>1, <1>2, ChainType, OldQueue, StepKeeps DEF openSheet, SessionInv, TypeOK

LEMMA LogOutKeeps ==
    ASSUME SessionInv, logOutButtonTapped
    PROVE  SessionInv'
<1>1. /\ chain' \in Seq(Screen) /\ chain' # <<>> /\ chain'[1] = "splash"
      /\ Len(chain') \in Nat /\ Len(chain) <= Len(chain')
      /\ MainIsOpen(chain') => currentUser # NoUser
  <2>1. /\ Len(chain) \in Nat /\ Present(Len(chain), "login") /\ currentUser \in Someone
        /\ "login" \in Screen /\ "login" # "main"
    BY ChainType DEF logOutButtonTapped, Present, SessionInv, TypeOK, Screen
  <2> QED
    BY <2>1, PresentKeeps
<1>2. calls' \subseteq Call /\ \A c \in calls' : NamesUser(c) /\ c.from <= Len(chain)
  BY DEF logOutButtonTapped, SessionInv, TypeOK
<1>3. authUser' \in Someone
  BY DEF logOutButtonTapped, Someone
<1> QED
  BY <1>1, <1>2, <1>3, ChainType, OldQueue, StepKeeps DEF logOutButtonTapped, SessionInv, TypeOK

\* A screen that is closed was not the splash screen, and nothing presents from it later.
LEMMA CancelKeeps ==
    ASSUME SessionInv, cancelButtonTapped
    PROVE  SessionInv'
<1>. DEFINE n       == Len(chain) - 1
            Gone(x) == IF x.from = Len(chain) THEN [x EXCEPT !.from = 0] ELSE x
<1>1. /\ chain \in Seq(Screen) /\ chain[1] = "splash" /\ Len(chain) \in Nat \ {0}
      /\ chain[Len(chain)] # "splash"
  BY ChainType DEF SessionInv, cancelButtonTapped, CanTap, Top
<1>2. n \in Nat \ {0}
  BY <1>1
<1>3. /\ chain' \in Seq(Screen) /\ chain' # <<>> /\ Len(chain') = n
      /\ \A i \in 1..n : chain'[i] = chain[i]
  <2>1. chain' = SubSeq(chain, 1, n) /\ n \in 1..Len(chain)
    BY <1>1, <1>2 DEF cancelButtonTapped
  <2>2. \A i \in 1..n : i \in 1..Len(chain) /\ chain[i] \in Screen
    BY <1>1, <2>1
  <2>3. chain' = [i \in 1..n |-> chain[i]]
    BY <1>1, <1>2, <2>1
  <2> HIDE DEF n
  <2>4. chain' \in Seq(Screen) /\ Len(chain') = n
    BY <1>2, <2>2, <2>3
  <2> QED
    BY <1>2, <2>3, <2>4
<1>4. MainIsOpen(chain') => currentUser # NoUser
  <2>1. DOMAIN chain' = 1..n /\ DOMAIN chain = 1..Len(chain) /\ 1..n \subseteq 1..Len(chain)
    BY <1>1, <1>2, <1>3
  <2>2. MainIsOpen(chain') => MainIsOpen(chain)
    BY <1>3, <2>1 DEF MainIsOpen
  <2> QED
    BY <2>2 DEF SessionInv
<1>5. calls' \subseteq Call /\ \A c \in calls' : NamesUser(c) /\ c.from <= n
  <2>1. ASSUME NEW c \in calls
        PROVE  Gone(c) \in Call /\ NamesUser(Gone(c)) /\ Gone(c).from <= n
    <3>1. c \in Call /\ NamesUser(c) /\ c.from <= Len(chain)
      BY DEF SessionInv, TypeOK
    <3> QED
      BY <1>1, <1>2, <3>1 DEF Call, NamesUser
  <2>2. calls' = {Gone(c) : c \in calls}
    BY DEF cancelButtonTapped
  <2> HIDE DEF Gone, n
  <2> QED
    BY <2>1, <2>2
<1>6. /\ queue' = [u \in Someone |-> [i \in DOMAIN queue[u] |-> Gone(queue[u][i])]]
      /\ queue \in [Someone -> Seq(Write)]
  BY DEF cancelButtonTapped, SessionInv, TypeOK
<1>7. ASSUME NEW u \in Someone
      PROVE  /\ [i \in DOMAIN queue[u] |-> Gone(queue[u][i])] \in Seq(Write)
             /\ \A i \in DOMAIN queue[u] : Gone(queue[u][i]).from <= n
             /\ \A i \in DOMAIN queue[u] : SaveNamesUser(Gone(queue[u][i]), currentUser)
  <2>1. ASSUME NEW i \in DOMAIN queue[u]
        PROVE  /\ Gone(queue[u][i]) \in Write /\ Gone(queue[u][i]).from <= n
               /\ SaveNamesUser(Gone(queue[u][i]), currentUser)
    <3>1. /\ queue[u][i] \in Write /\ queue[u][i].from <= Len(chain)
          /\ SaveNamesUser(queue[u][i], currentUser)
      <4>1. queue[u] \in Seq(Write)
        BY <1>6
      <4> QED
        BY <4>1 DEF SessionInv, TypeOK, QueueNamesUsers
    <3> QED
      BY <1>1, <1>2, <3>1 DEF Write, SaveNamesUser
  <2>2. Len(queue[u]) \in Nat /\ DOMAIN queue[u] = 1..Len(queue[u])
    BY <1>6
  <2> HIDE DEF Gone, n
  <2> QED
    BY <2>1, <2>2
<1>8. /\ queue' \in [Someone -> Seq(Write)]
      /\ \A u \in Someone : \A i \in DOMAIN queue'[u] : queue'[u][i].from <= n
      /\ \A u \in Someone : QueueNamesUsers(queue'[u], currentUser)
  <2> HIDE DEF Gone, n
  <2> QED
    BY <1>6, <1>7 DEF QueueNamesUsers
<1>9. UNCHANGED <<accounts, issued, records, authUser, currentUser>>
  BY DEF cancelButtonTapped
<1> HIDE DEF Gone, n
<1> QED
  BY <1>1, <1>2, <1>3, <1>4, <1>5, <1>8, <1>9, StepKeeps DEF SessionInv, TypeOK

\* Sign-up: Auth's half, and the block that sets the user in memory and queues the
\* record, whose own block presents the main tabs.
LEMMA CreationKeeps ==
    ASSUME SessionInv, NEW c \in calls, accountCreated(c)
    PROVE  SessionInv'
<1>1. PICK u \in User \ issued, rest \in SUBSET calls :
          /\ accounts' = accounts \cup {u} /\ issued' = issued \cup {u} /\ authUser' = u
          /\ calls' = rest \cup {Ask("created", u, NoUser, c.from)}
  BY LeftOverCalls DEF accountCreated
<1>2. u \in User /\ u \in Someone /\ NoUser \in Someone /\ "created" \in CallKind
  BY DEF Someone, CallKind
<1>3. calls' \subseteq Call /\ \A d \in calls' : NamesUser(d) /\ d.from <= Len(chain)
  BY <1>1, <1>2, AnsweredAndAsks
<1>4. accounts' \subseteq issued' /\ issued' \subseteq User
  BY <1>1 DEF SessionInv, TypeOK
<1> QED
  BY <1>1, <1>2, <1>3, <1>4, ChainType, OldQueue, StepKeeps
     DEF accountCreated, SessionInv, TypeOK

LEMMA RecordCreatedKeeps ==
    ASSUME SessionInv, NEW c \in calls, recordCreated(c)
    PROVE  SessionInv'
<1>1. c.user \in User /\ c.user \in Someone /\ c.user # NoUser
      /\ c.from \in Nat /\ c.from <= Len(chain)
  <2>1. c \in Call /\ NamesUser(c) /\ c.kind = "created" /\ c.from <= Len(chain)
    BY DEF SessionInv, TypeOK, recordCreated, Asking
  <2> QED
    BY <2>1, NoUserAssumption DEF NamesUser, Someone, Call
<1>2. calls' \subseteq Call /\ \A d \in calls' : NamesUser(d) /\ d.from <= Len(chain)
  <2>1. calls' \subseteq calls
    BY DEF recordCreated
  <2> QED
    BY <2>1, AnsweredCalls
<1>3. /\ SetRecord(c.user, c.from) \in Write
      /\ SaveNamesUser(SetRecord(c.user, c.from), c.user)
      /\ SetRecord(c.user, c.from).from <= Len(chain)
  BY <1>1 DEF SetRecord, Write, SaveNamesUser
<1>4. queue' = [queue EXCEPT ![authUser] = Append(@, SetRecord(c.user, c.from))]
      /\ currentUser' = c.user /\ UNCHANGED <<accounts, issued, records, authUser, chain>>
  BY DEF recordCreated
<1>5. /\ queue' \in [Someone -> Seq(Write)]
      /\ \A u \in Someone : \A i \in DOMAIN queue'[u] : queue'[u][i].from <= Len(chain)
      /\ \A u \in Someone : QueueNamesUsers(queue'[u], c.user)
  BY <1>1, <1>3, <1>4, QueueKeeps
<1> QED
  BY <1>1, <1>2, <1>4, <1>5, ChainType, StepKeeps DEF SessionInv, TypeOK

LEMMA SaveKeeps ==
    ASSUME SessionInv, saveUserToFirestore
    PROVE  SessionInv'
<1>1. currentUser \in User /\ currentUser \in Someone /\ Len(chain) \in Nat
  BY ChainType DEF SessionInv, TypeOK, saveUserToFirestore, Someone
<1>2. /\ SetRecord(currentUser, 0) \in Write
      /\ SaveNamesUser(SetRecord(currentUser, 0), currentUser)
      /\ SetRecord(currentUser, 0).from <= Len(chain)
  BY <1>1 DEF SetRecord, Write, SaveNamesUser
<1>3. queue' = [queue EXCEPT ![authUser] = Append(@, SetRecord(currentUser, 0))]
      /\ UNCHANGED <<accounts, issued, records, authUser, currentUser, chain, calls>>
  BY DEF saveUserToFirestore
<1>4. /\ queue' \in [Someone -> Seq(Write)]
      /\ \A u \in Someone : \A i \in DOMAIN queue'[u] : queue'[u][i].from <= Len(chain)
      /\ \A u \in Someone : QueueNamesUsers(queue'[u], currentUser)
  BY <1>1, <1>2, <1>3, QueueKeeps
<1> QED
  BY <1>1, <1>3, <1>4, ChainType, StepKeeps DEF SessionInv, TypeOK

\* Deletion: Auth's half, and the block that queues the deletion of the record.
LEMMA DeletionKeeps ==
    ASSUME SessionInv, NEW c \in calls, accountDeleted(c)
    PROVE  SessionInv'
<1>1. c \in Call /\ c.user \in User /\ c.person \in Someone /\ "deleted" \in CallKind
  BY DEF accountDeleted, SessionInv, TypeOK, Call, CallKind
<1>2. calls' \subseteq Call /\ \A d \in calls' : NamesUser(d) /\ d.from <= Len(chain)
  <2>1. PICK rest \in SUBSET calls : calls' = rest \cup {Ask("deleted", c.user, c.person, c.from)}
    BY LeftOverCalls DEF accountDeleted
  <2> QED
    BY <1>1, <2>1, AnsweredAndAsks
<1>3. authUser' \in Someone /\ accounts' \subseteq issued
  BY DEF accountDeleted, SessionInv, TypeOK, Someone
<1> QED
  BY <1>2, <1>3, ChainType, OldQueue, StepKeeps DEF accountDeleted, SessionInv, TypeOK

LEMMA RecordDeletedKeeps ==
    ASSUME SessionInv, NEW c \in calls, recordDeleted(c)
    PROVE  SessionInv'
<1>1. c.person \in Someone /\ c.from \in Nat /\ c.from <= Len(chain)
      /\ currentUser \in Someone
  BY DEF SessionInv, TypeOK, Call
<1>2. calls' \subseteq Call /\ \A d \in calls' : NamesUser(d) /\ d.from <= Len(chain)
  <2>1. calls' \subseteq calls
    BY DEF recordDeleted
  <2> QED
    BY <2>1, AnsweredCalls
<1>3. /\ DeleteRecord(c.person, c.from) \in Write
      /\ SaveNamesUser(DeleteRecord(c.person, c.from), currentUser)
      /\ DeleteRecord(c.person, c.from).from <= Len(chain)
  BY <1>1 DEF DeleteRecord, Write, SaveNamesUser
<1>4. queue' = [queue EXCEPT ![authUser] = Append(@, DeleteRecord(c.person, c.from))]
      /\ UNCHANGED <<accounts, issued, records, authUser, currentUser, chain>>
  BY DEF recordDeleted
<1>5. /\ queue' \in [Someone -> Seq(Write)]
      /\ \A u \in Someone : \A i \in DOMAIN queue'[u] : queue'[u][i].from <= Len(chain)
      /\ \A u \in Someone : QueueNamesUsers(queue'[u], currentUser)
  BY <1>1, <1>3, <1>4, QueueKeeps
<1> QED
  BY <1>2, <1>4, <1>5, ChainType, StepKeeps DEF SessionInv, TypeOK

\* The block of an answered write presents the main tabs over a sign-up: the invariant
\* says there is a user in memory.
LEMMA CommitKeeps ==
    ASSUME SessionInv, writeCommitted
    PROVE  SessionInv'
<1>. DEFINE w      == Head(queue[authUser])
            screen == IF w.op = "set" THEN "main" ELSE "login"
<1>1. /\ queue[authUser] # <<>> /\ queue' = [queue EXCEPT ![authUser] = Tail(@)]
      /\ records' = IF w.op = "set" THEN records \cup {w.of} ELSE records \ {w.of}
      /\ Present(w.from, screen)
      /\ UNCHANGED <<accounts, issued, authUser, currentUser, calls>>
  BY DEF writeCommitted
<1>2. /\ w \in Write /\ SaveNamesUser(w, currentUser)
      /\ queue' \in [Someone -> Seq(Write)]
      /\ \A u \in Someone : \A i \in DOMAIN queue'[u] : queue'[u][i].from <= Len(chain)
      /\ \A u \in Someone : QueueNamesUsers(queue'[u], currentUser)
  BY <1>1, DequeueKeeps
<1>3. w.from \in Nat /\ currentUser \in Someone /\ screen \in Screen
      /\ (screen = "main" /\ w.from # 0 => currentUser # NoUser)
  BY <1>2 DEF Write, Screen, SaveNamesUser, SessionInv, TypeOK
<1>4. records' \subseteq User
  BY <1>1, <1>2 DEF SaveNamesUser, SessionInv, TypeOK
<1> HIDE DEF w, screen
<1>5. /\ chain' \in Seq(Screen) /\ chain' # <<>> /\ chain'[1] = "splash"
      /\ Len(chain') \in Nat /\ Len(chain) <= Len(chain')
      /\ MainIsOpen(chain') => currentUser # NoUser
  BY <1>1, <1>3, PresentKeeps
<1> QED
  BY <1>1, <1>2, <1>4, <1>5, ChainType, StepKeeps DEF SessionInv, TypeOK

LEMMA RejectKeeps ==
    ASSUME SessionInv, writeRejected
    PROVE  SessionInv'
<1>1. /\ queue[authUser] # <<>> /\ queue' = [queue EXCEPT ![authUser] = Tail(@)]
      /\ UNCHANGED <<accounts, issued, records, authUser, currentUser, chain, calls>>
  BY DEF writeRejected
<1>2. /\ queue' \in [Someone -> Seq(Write)]
      /\ \A u \in Someone : \A i \in DOMAIN queue'[u] : queue'[u][i].from <= Len(chain)
      /\ \A u \in Someone : QueueNamesUsers(queue'[u], currentUser)
  BY <1>1, DequeueKeeps
<1> QED
  BY <1>1, <1>2, ChainType, StepKeeps DEF SessionInv, TypeOK

\* A new process: the splash screen, no user in memory, and no blocks.
LEMMA RelaunchKeeps ==
    ASSUME SessionInv, relaunch
    PROVE  SessionInv'
<1>. DEFINE Forgot(w) == [w EXCEPT !.from = 0]
<1>1. /\ currentUser' = NoUser /\ NoUser \in Someone /\ chain' = <<"splash">>
      /\ calls' = {Ask("launch", NoUser, NoUser, 1)}
      /\ queue' = [u \in Someone |-> [i \in DOMAIN queue[u] |-> Forgot(queue[u][i])]]
      /\ UNCHANGED <<accounts, issued, records, authUser>>
  BY DEF relaunch, Someone
<1>2. /\ chain' \in Seq(Screen) /\ chain' # <<>> /\ chain'[1] = "splash"
      /\ Len(chain') = 1 /\ ~MainIsOpen(chain')
  BY <1>1 DEF Screen, MainIsOpen
<1>3. calls' \subseteq Call /\ \A c \in calls' : NamesUser(c) /\ c.from <= 1
  BY <1>1, AskType DEF CallKind, NamesUser
<1>4. ASSUME NEW u \in Someone
      PROVE  /\ [i \in DOMAIN queue[u] |-> Forgot(queue[u][i])] \in Seq(Write)
             /\ \A i \in DOMAIN queue[u] :
                   Forgot(queue[u][i]).from = 0
                   /\ SaveNamesUser(Forgot(queue[u][i]), NoUser)
  <2>1. queue[u] \in Seq(Write) /\ Len(queue[u]) \in Nat
        /\ DOMAIN queue[u] = 1..Len(queue[u])
    BY DEF SessionInv, TypeOK
  <2>2. ASSUME NEW i \in DOMAIN queue[u]
        PROVE  /\ Forgot(queue[u][i]) \in Write
               /\ Forgot(queue[u][i]).from = 0
               /\ SaveNamesUser(Forgot(queue[u][i]), NoUser)
    <3>1. queue[u][i] \in Write /\ SaveNamesUser(queue[u][i], currentUser)
      BY <2>1 DEF SessionInv, QueueNamesUsers
    <3> QED
      BY <3>1 DEF Write, SaveNamesUser
  <2> HIDE DEF Forgot
  <2> QED
    BY <2>1, <2>2
<1> HIDE DEF Forgot
<1>5. /\ queue' \in [Someone -> Seq(Write)]
      /\ \A u \in Someone : \A i \in DOMAIN queue'[u] : queue'[u][i].from <= 1
      /\ \A u \in Someone : QueueNamesUsers(queue'[u], NoUser)
  BY <1>1, <1>4 DEF QueueNamesUsers
<1> QED
  BY <1>1, <1>2, <1>3, <1>5, StepKeeps DEF SessionInv, TypeOK

-----------------------------------------------------------------------------
(***************************************************************************)
(* Every step.                                                             *)
(***************************************************************************)

LEMMA TapKeeps ==
    ASSUME SessionInv, Tap
    PROVE  SessionInv'
<1>1. authUser \in Someone /\ currentUser \in Someone /\ NoUser \in Someone
  BY DEF SessionInv, TypeOK, Someone
<1>2. ASSUME NEW u \in User, loginButtonTapped(u)
      PROVE  SessionInv'
  <2>1. u \in Someone /\ "signIn" \in CallKind
    BY DEF Someone, CallKind
  <2> QED
    BY <1>1, <1>2, <2>1, AskKeeps DEF loginButtonTapped
<1>3. CASE openSheet("login", "signup")
  <2>1. "signup" \in Screen \ {"main"}
    BY DEF Screen
  <2> QED
    BY <1>3, <2>1, SheetKeeps
<1>4. CASE openSheet("main", "delete")
  <2>1. "delete" \in Screen \ {"main"}
    BY DEF Screen
  <2> QED
    BY <1>4, <2>1, SheetKeeps
<1>5. CASE cancelButtonTapped
  BY <1>5, CancelKeeps
<1>6. CASE createAccountButtonTapped
  <2>1. "create" \in CallKind
    BY DEF CallKind
  <2> QED
    BY <1>1, <1>6, <2>1, AskKeeps DEF createAccountButtonTapped
<1>7. CASE saveUserToFirestore
  BY <1>7, SaveKeeps
<1>8. CASE settingsAppears
  <2>1. "reload" \in CallKind /\ authUser \in User
    BY <1>1, <1>8 DEF CallKind, settingsAppears, Someone
  <2> QED
    BY <1>1, <1>8, <2>1, AskKeeps DEF settingsAppears
<1>9. CASE logOutButtonTapped
  BY <1>9, LogOutKeeps
<1>10. CASE deleteAccountButtonTapped
  <2>1. "deleteUser" \in CallKind /\ authUser \in User
    BY <1>1, <1>10 DEF CallKind, deleteAccountButtonTapped, Someone
  <2> QED
    BY <1>1, <1>10, <2>1, AskKeeps DEF deleteAccountButtonTapped
<1> QED
  BY <1>2, <1>3, <1>4, <1>5, <1>6, <1>7, <1>8, <1>9, <1>10 DEF Tap

LEMMA NextKeeps ==
    ASSUME SessionInv, [Next]_vars
    PROVE  SessionInv'
<1>1. CASE UNCHANGED vars
  BY <1>1 DEF vars, SessionInv, TypeOK, QueueNamesUsers, SaveNamesUser, MainIsOpen
<1>2. CASE Tap
  BY <1>2, TapKeeps
<1>3. ASSUME NEW c \in calls, Answer(c)
      PROVE  SessionInv'
  BY <1>3, LaunchKeeps, SignInKeeps, ReadKeeps, FailureKeeps, CreationKeeps,
     RecordCreatedKeeps, DeletionKeeps, RecordDeletedKeeps DEF Answer
<1>4. CASE writeCommitted \/ writeRejected
  BY <1>4, CommitKeeps, RejectKeeps
<1>5. CASE relaunch
  BY <1>5, RelaunchKeeps
<1> QED
  BY <1>1, <1>2, <1>3, <1>4, <1>5 DEF Next

LEMMA SessionInvariant == Spec => []SessionInv
<1>1. Init => SessionInv
  BY InitEstablishes
<1>2. SessionInv /\ [Next]_vars => SessionInv'
  BY NextKeeps
<1> QED
  BY <1>1, <1>2, PTL DEF Spec

-----------------------------------------------------------------------------
(***************************************************************************)
(* The theorems.                                                           *)
(***************************************************************************)

\* Accounts, screens, outstanding calls and queued writes keep their types, and
\* no completion block is left that presents from a screen that has been closed
\* (cancelButtonTapped dismisses the screen whose block is outstanding).
THEOREM SessionTypeCorrect == Spec => []TypeOK
<1>1. SessionInv => TypeOK
  BY DEF SessionInv
<1> QED
  BY <1>1, SessionInvariant, PTL

\* The main tabs never show without a user in memory, however fast the user taps, whatever
\* fails, whoever logs out and in again, and wherever the process is killed
\* (SplashScreenViewController.findUser, loginButtonTapped, createAccountButtonTapped).
THEOREM MainTabsHaveUser == Spec => []MainHasUser
<1>1. SessionInv => MainHasUser
  <2>1. SUFFICES ASSUME SessionInv, Top = "main"
                 PROVE  currentUser # NoUser
    BY DEF MainHasUser
  <2>2. Len(chain) \in DOMAIN chain
    BY <2>1, ChainType
  <2> QED
    BY <2>1, <2>2 DEF SessionInv, MainIsOpen, Top
<1> QED
  BY <1>1, SessionInvariant, PTL

-----------------------------------------------------------------------------
(***************************************************************************)
(* What the device writes is its user's.  With a user who waits for the    *)
(* answer to what was asked, one thing at most is on its way: a call, or a *)
(* write whose block presents a screen.  The screen that asked stays on    *)
(* top, and what Auth and the memory hold follows from what was asked.     *)
(***************************************************************************)

\* The write in place i of u's queue presents a screen when it is answered.
Awaited(u, i) == queue[u][i].from # 0

OneThing ==
    /\ \A c, d \in calls : c = d
    /\ \A u \in Someone : \A i \in DOMAIN queue[u] :
           Awaited(u, i) => /\ calls = {}
                            /\ u = authUser /\ i = Len(queue[u])

\* Under a sign-up screen is a login screen, under a delete screen the main tabs.
Stacked ==
    \A i \in DOMAIN chain :
        /\ chain[i] = "signup" => i > 1 /\ chain[i - 1] = "login"
        /\ chain[i] = "delete" => i > 1 /\ chain[i - 1] = "main"

\* The screen that asked, and who is signed in until it is answered.
CallFits(c) ==
    /\ c.from = Len(chain)
    /\ c.kind = "launch" => Top = "splash"
    /\ c.kind = "signIn" => Top = "login"
    /\ c.kind = "read" => Top \in {"splash", "login"} /\ authUser = c.user
    /\ c.kind = "reload" => Top = "main" /\ authUser = c.user
    /\ c.kind = "create" => Top = "signup"
    /\ c.kind = "created" => Top = "signup" /\ authUser = c.user
    /\ c.kind = "deleteUser" => Top = "delete" /\ authUser = c.user /\ c.person = c.user
    /\ c.kind = "deleted" => Top = "delete" /\ authUser = NoUser

WriteFits(w) ==
    /\ w.from = Len(chain)
    /\ w.op = "set" => Top = "signup" /\ currentUser = authUser /\ authUser # NoUser
    /\ w.op = "delete" => Top = "delete" /\ authUser = NoUser

Deleting ==
    \/ Asking("deleted") # {}
    \/ \E i \in DOMAIN queue[NoUser] : Awaited(NoUser, i)

\* The user in memory is the one signed in, in the main tabs and over them.
SameUser ==
    Top = "main" \/ (Top = "delete" /\ ~Deleting) =>
        currentUser = authUser /\ authUser # NoUser

OwnQueues ==
    /\ \A u \in User : \A i \in DOMAIN queue[u] : queue[u][i].op = "set" /\ queue[u][i].of = u
    /\ \A i \in DOMAIN queue[NoUser] : queue[NoUser][i].op = "delete"

OwnInv ==
    /\ SessionInv
    /\ OneThing
    /\ Stacked
    /\ \A c \in calls : CallFits(c)
    /\ \A u \in Someone : \A i \in DOMAIN queue[u] : Awaited(u, i) => WriteFits(queue[u][i])
    /\ SameUser
    /\ OwnQueues

\* Nothing is awaited: no queued write presents a screen.
NothingAwaited == \A u \in Someone : \A i \in DOMAIN queue[u] : ~Awaited(u, i)

LEMMA TapAlone ==
    ASSUME OwnInv, Patient, NEW screen, CanTap(screen)
    PROVE  calls = {} /\ NothingAwaited /\ ~Deleting /\ Top = screen
<1>1. calls = {} /\ NothingAwaited /\ Top = screen
  BY DEF CanTap, Settled, NothingAwaited, Awaited
<1> QED
  BY <1>1 DEF Deleting, Asking, NothingAwaited, Someone

LEMMA AnswerAlone ==
    ASSUME OwnInv, NEW c \in calls
    PROVE  /\ calls = {c} /\ NothingAwaited /\ CallFits(c) /\ c \in Call /\ NamesUser(c)
           /\ Deleting <=> c.kind = "deleted"
<1>1. calls = {c} /\ NothingAwaited
  BY DEF OwnInv, OneThing, NothingAwaited
<1>2. CallFits(c) /\ c \in Call /\ NamesUser(c)
  BY DEF OwnInv, SessionInv, TypeOK
<1>3. Deleting <=> c.kind = "deleted"
  BY <1>1 DEF Deleting, Asking, NothingAwaited, Someone
<1> QED
  BY <1>1, <1>2, <1>3

\* What a step that awaits no write has to show.
LEMMA OwnStep ==
    ASSUME SessionInv', NothingAwaited', Stacked', OwnQueues',
           calls' = {} \/ \E c : calls' = {c} /\ CallFits(c)',
           Top' = "main" \/ (Top' = "delete" /\ \A c \in calls' : c.kind # "deleted") =>
               currentUser' = authUser' /\ authUser' # NoUser
    PROVE  OwnInv'
<1>1. OneThing' /\ \A c \in calls' : CallFits(c)'
  BY DEF OneThing, NothingAwaited
<1>2. \A u \in Someone : \A i \in DOMAIN queue'[u] : Awaited(u, i)' => WriteFits(queue[u][i])'
  BY DEF NothingAwaited
<1>3. ~Deleting' => \A c \in calls' : c.kind # "deleted"
  BY DEF Deleting, Asking
<1>4. SameUser'
  BY <1>3 DEF SameUser
<1> QED
  BY <1>1, <1>2, <1>4 DEF OwnInv

LEMMA StackAppend ==
    ASSUME SessionInv, Stacked, NEW screen \in Screen, chain' = Append(chain, screen),
           screen = "signup" => Top = "login", screen = "delete" => Top = "main"
    PROVE  Stacked' /\ Top' = screen
<1>1. chain \in Seq(Screen) /\ Len(chain) \in Nat \ {0} /\ DOMAIN chain = 1..Len(chain)
  BY ChainType
<1>2. /\ chain' \in Seq(Screen) /\ Len(chain') = Len(chain) + 1 /\ DOMAIN chain' = 1..Len(chain')
      /\ chain'[Len(chain) + 1] = screen
      /\ \A i \in 1..Len(chain) : chain'[i] = chain[i]
  BY <1>1
<1>3. Top' = screen
  BY <1>2 DEF Top
<1>4. ASSUME NEW i \in DOMAIN chain'
      PROVE  /\ chain'[i] = "signup" => i > 1 /\ chain'[i - 1] = "login"
             /\ chain'[i] = "delete" => i > 1 /\ chain'[i - 1] = "main"
  <2>1. CASE i \in 1..Len(chain)
    <3>1. i > 1 => i - 1 \in 1..Len(chain)
      BY <1>1, <2>1
    <3> QED
      BY <1>1, <1>2, <2>1, <3>1 DEF Stacked
  <2>2. CASE i = Len(chain) + 1
    <3>1. i > 1 /\ i - 1 = Len(chain) /\ Len(chain) \in 1..Len(chain)
      BY <1>1, <2>2
    <3>2. chain'[i - 1] = Top /\ chain'[i] = screen
      BY <1>2, <2>2, <3>1 DEF Top
    <3> QED
      BY <3>1, <3>2
  <2> QED
    BY <1>1, <1>2, <2>1, <2>2
<1> QED
  BY <1>3, <1>4 DEF Stacked

\* Presenting from the screen on top.
LEMMA PresentOnTop ==
    ASSUME SessionInv, Stacked, NEW screen \in {"login", "main"}, Present(Len(chain), screen)
    PROVE  Stacked' /\ Top' = screen
<1>1. chain' = Append(chain, screen) /\ screen \in Screen
  BY DEF Present, Screen
<1> QED
  BY <1>1, StackAppend

LEMMA SameChain ==
    ASSUME Stacked, chain' = chain
    PROVE  Stacked' /\ Top' = Top
BY DEF Stacked, Top

LEMMA SameQueue ==
    ASSUME queue' = queue
    PROVE  (NothingAwaited' <=> NothingAwaited) /\ (OwnQueues' <=> OwnQueues)
BY DEF NothingAwaited, Awaited, OwnQueues

\* A tap that asks for something.
LEMMA OwnAsk ==
    ASSUME OwnInv, SessionInv', calls = {}, NothingAwaited, ~Deleting,
           NEW kind \in CallKind \ {"deleted"}, NEW user, NEW person,
           calls' = calls \cup {Ask(kind, user, person, Len(chain))},
           UNCHANGED <<authUser, currentUser, chain, queue>>,
           CallFits(Ask(kind, user, person, Len(chain)))
    PROVE  OwnInv'
<1>0. PICK c : c = Ask(kind, user, person, Len(chain))
  OBVIOUS
<1>1. calls' = {c} /\ c.kind # "deleted"
  BY <1>0 DEF Ask
<1>2. CallFits(c)'
  BY <1>0 DEF CallFits, Top
<1>3. Stacked' /\ Top' = Top /\ NothingAwaited' /\ OwnQueues'
  BY SameChain, SameQueue DEF OwnInv
<1>4. Top' = "main" \/ Top' = "delete" => currentUser' = authUser' /\ authUser' # NoUser
  BY <1>3 DEF OwnInv, SameUser
<1> QED
  BY <1>1, <1>2, <1>3, <1>4, OwnStep

\* A tap that opens a screen.
LEMMA OwnOpen ==
    ASSUME OwnInv, SessionInv', calls = {}, NothingAwaited, UNCHANGED <<calls, queue>>,
           NEW screen \in {"login", "signup", "delete"}, chain' = Append(chain, screen),
           screen = "signup" => Top = "login",
           screen = "delete" => Top = "main" /\ UNCHANGED <<authUser, currentUser>>
    PROVE  OwnInv'
<1>1. screen \in Screen /\ SessionInv /\ Stacked
  BY DEF OwnInv, Screen
<1>2. Stacked' /\ Top' = screen
  BY <1>1, StackAppend
<1>3. NothingAwaited' /\ OwnQueues'
  BY SameQueue DEF OwnInv
<1>4. Top' = "main" \/ Top' = "delete" => currentUser' = authUser' /\ authUser' # NoUser
  BY <1>2 DEF OwnInv, SameUser
<1> QED
  BY <1>2, <1>3, <1>4, OwnStep

\* The cancel button of a screen uncovers the one it was opened from; nothing is on
\* its way that could lose its screen.
LEMMA OwnCancel ==
    ASSUME OwnInv, SessionInv', Patient, cancelButtonTapped
    PROVE  OwnInv'
<1> DEFINE Gone(x) == IF x.from = Len(chain) THEN [x EXCEPT !.from = 0] ELSE x
<1>1. PICK screen \in {"signup", "delete"} : CanTap(screen)
  BY DEF cancelButtonTapped
<1>2. calls = {} /\ NothingAwaited /\ ~Deleting /\ Top = screen
  BY <1>1, TapAlone
<1>3. chain \in Seq(Screen) /\ Len(chain) \in Nat \ {0} /\ DOMAIN chain = 1..Len(chain)
  BY ChainType DEF OwnInv
<1>4. calls' = {}
  BY <1>2 DEF cancelButtonTapped
<1>5. queue' = queue
  <2>1. queue \in [Someone -> Seq(Write)]
    BY DEF OwnInv, SessionInv, TypeOK
  <2>2. queue' = [u \in Someone |-> [i \in DOMAIN queue[u] |-> Gone(queue[u][i])]]
    BY DEF cancelButtonTapped
  <2>3. \A u \in Someone : \A i \in DOMAIN queue[u] : Gone(queue[u][i]) = queue[u][i]
    BY <1>2, <1>3 DEF NothingAwaited, Awaited
  <2> HIDE DEF Gone
  <2>4. ASSUME NEW u \in Someone
        PROVE  [i \in DOMAIN queue[u] |-> Gone(queue[u][i])] = queue[u]
    <3>1. queue[u] \in Seq(Write)
      BY <2>1
    <3>2. queue[u] = [i \in DOMAIN queue[u] |-> queue[u][i]]
      BY <3>1
    <3> QED
      BY <2>3, <3>2
  <2> QED
    BY <2>1, <2>2, <2>4
<1>6. Len(chain) > 1 /\ (screen = "signup" => chain[Len(chain) - 1] = "login")
      /\ (screen = "delete" => chain[Len(chain) - 1] = "main")
  BY <1>2, <1>3 DEF OwnInv, Stacked, Top
<1>7. /\ chain' \in Seq(Screen) /\ Len(chain') = Len(chain) - 1 /\ DOMAIN chain' = 1..Len(chain')
      /\ \A i \in 1..Len(chain') : chain'[i] = chain[i]
  <2>1. chain' = SubSeq(chain, 1, Len(chain) - 1)
    BY DEF cancelButtonTapped
  <2> QED
    BY <1>3, <1>6, <2>1
<1>8. Top' = chain[Len(chain) - 1]
  BY <1>3, <1>6, <1>7 DEF Top
<1>9. Stacked'
  <2> SUFFICES ASSUME NEW i \in 1..Len(chain')
               PROVE  /\ chain'[i] = "signup" => i > 1 /\ chain'[i - 1] = "login"
                      /\ chain'[i] = "delete" => i > 1 /\ chain'[i - 1] = "main"
    BY <1>7 DEF Stacked
  <2>1. i \in DOMAIN chain /\ (i > 1 => i - 1 \in 1..Len(chain'))
    BY <1>3, <1>7
  <2> QED
    BY <1>7, <2>1 DEF OwnInv, Stacked
<1>10. NothingAwaited' /\ OwnQueues'
  BY <1>2, <1>5, SameQueue DEF OwnInv
<1>11. Top' = "main" \/ Top' = "delete" => currentUser' = authUser' /\ authUser' # NoUser
  <2>1. Top' = "login" \/ (Top' = "main" /\ Top = "delete")
    BY <1>1, <1>2, <1>6, <1>8
  <2> QED
    BY <1>2, <2>1 DEF OwnInv, SameUser, cancelButtonTapped
<1> QED
  BY <1>4, <1>9, <1>10, <1>11, OwnStep

\* A write queued at the end of the queue of the user signed in.
LEMMA TailFacts ==
    ASSUME NEW S, NEW q \in Seq(S), q # <<>>
    PROVE  /\ Len(q) \in Nat \ {0} /\ 1 \in DOMAIN q /\ Head(q) = q[1]
           /\ Tail(q) \in Seq(S) /\ Len(Tail(q)) = Len(q) - 1
           /\ DOMAIN q = 1..Len(q) /\ DOMAIN Tail(q) = 1..Len(Tail(q))
           /\ \A i \in DOMAIN Tail(q) : i + 1 \in DOMAIN q /\ Tail(q)[i] = q[i + 1]
<1>1. Len(q) \in Nat \ {0} /\ DOMAIN q = 1..Len(q) /\ Head(q) = q[1]
  OBVIOUS
<1>2. Tail(q) \in Seq(S) /\ Len(Tail(q)) = Len(q) - 1
  BY <1>1
<1>3. DOMAIN Tail(q) = 1..Len(Tail(q)) /\ 1 \in DOMAIN q
  BY <1>1, <1>2
<1>4. \A i \in DOMAIN Tail(q) : i + 1 \in DOMAIN q /\ Tail(q)[i] = q[i + 1]
  BY TailElement
<1> QED
  BY <1>1, <1>2, <1>3, <1>4

LEMMA QueuedOwn ==
    ASSUME OwnInv, NEW w \in Write, queue' = [queue EXCEPT ![authUser] = Append(@, w)],
           authUser \in User => w.op = "set" /\ w.of = authUser,
           authUser = NoUser => w.op = "delete"
    PROVE  /\ OwnQueues'
           /\ authUser \in Someone
           /\ Len(queue'[authUser]) \in Nat \ {0} /\ queue'[authUser][Len(queue'[authUser])] = w
           /\ Len(queue'[authUser]) \in DOMAIN queue'[authUser]
           /\ \A u \in Someone : \A i \in DOMAIN queue'[u] :
                  \/ i \in DOMAIN queue[u] /\ queue'[u][i] = queue[u][i]
                  \/ u = authUser /\ i = Len(queue'[u]) /\ queue'[u][i] = w
<1>1. queue \in [Someone -> Seq(Write)] /\ authUser \in Someone
  BY DEF OwnInv, SessionInv, TypeOK
<1>2. queue[authUser] \in Seq(Write) /\ queue'[authUser] = Append(queue[authUser], w)
      /\ \A u \in Someone \ {authUser} : queue'[u] = queue[u]
  BY <1>1
<1>3. Len(queue'[authUser]) \in Nat \ {0} /\ queue'[authUser][Len(queue'[authUser])] = w
      /\ Len(queue'[authUser]) \in DOMAIN queue'[authUser]
  BY <1>2
<1>4. \A i \in DOMAIN queue'[authUser] :
          \/ i \in DOMAIN queue[authUser] /\ queue'[authUser][i] = queue[authUser][i]
          \/ i = Len(queue'[authUser]) /\ queue'[authUser][i] = w
  BY <1>2
<1>5. \A u \in Someone : \A i \in DOMAIN queue'[u] :
          \/ i \in DOMAIN queue[u] /\ queue'[u][i] = queue[u][i]
          \/ u = authUser /\ i = Len(queue'[u]) /\ queue'[u][i] = w
  BY <1>2, <1>4
<1>6. OwnQueues'
  <2>1. ASSUME NEW u \in User, NEW i \in DOMAIN queue'[u]
        PROVE  queue'[u][i].op = "set" /\ queue'[u][i].of = u
    BY <1>5 DEF OwnInv, OwnQueues, Someone
  <2>2. ASSUME NEW i \in DOMAIN queue'[NoUser]
        PROVE  queue'[NoUser][i].op = "delete"
    BY <1>5 DEF OwnInv, OwnQueues, Someone
  <2> QED
    BY <2>1, <2>2 DEF OwnQueues
<1> QED
  BY <1>1, <1>3, <1>5, <1>6

LEMMA OwnSave ==
    ASSUME OwnInv, SessionInv', Patient, saveUserToFirestore
    PROVE  OwnInv'
<1> DEFINE w == SetRecord(currentUser, 0)
<1>1. calls = {} /\ NothingAwaited /\ ~Deleting /\ Top = "main"
  BY TapAlone DEF saveUserToFirestore
<1>2. currentUser = authUser /\ authUser # NoUser /\ currentUser \in Someone
  BY <1>1 DEF OwnInv, SameUser, SessionInv, TypeOK
<1>3. w \in Write /\ w.op = "set" /\ w.of = authUser /\ w.from = 0
  BY <1>2 DEF SetRecord, Write
<1>4. queue' = [queue EXCEPT ![authUser] = Append(@, w)]
      /\ UNCHANGED <<authUser, currentUser, chain, calls>>
  BY DEF saveUserToFirestore
<1> HIDE DEF w
<1>5. OwnQueues' /\ NothingAwaited'
  <2>1. /\ OwnQueues'
        /\ \A u \in Someone : \A i \in DOMAIN queue'[u] :
               \/ i \in DOMAIN queue[u] /\ queue'[u][i] = queue[u][i]
               \/ u = authUser /\ i = Len(queue'[u]) /\ queue'[u][i] = w
    BY <1>2, <1>3, <1>4, QueuedOwn
  <2> QED
    BY <1>1, <1>3, <2>1 DEF NothingAwaited, Awaited
<1>6. Stacked' /\ Top' = Top
  BY <1>4, SameChain DEF OwnInv
<1> QED
  BY <1>1, <1>2, <1>4, <1>5, <1>6, OwnStep

LEMMA OwnTap ==
    ASSUME OwnInv, SessionInv', Patient, Tap
    PROVE  OwnInv'
<1>1. ASSUME NEW u \in User, loginButtonTapped(u) PROVE OwnInv'
  <2>1. calls = {} /\ NothingAwaited /\ ~Deleting /\ Top = "login"
    BY <1>1, TapAlone DEF loginButtonTapped
  <2>2. CallFits(Ask("signIn", u, NoUser, Len(chain))) /\ "signIn" \in CallKind \ {"deleted"}
    BY <2>1 DEF CallFits, Ask, CallKind
  <2> QED
    BY <1>1, <2>1, <2>2, OwnAsk DEF loginButtonTapped
<1>2. CASE openSheet("login", "signup")
  <2>1. calls = {} /\ NothingAwaited /\ Top = "login"
    BY <1>2, TapAlone DEF openSheet
  <2> QED
    BY <1>2, <2>1, OwnOpen DEF openSheet
<1>3. CASE openSheet("main", "delete")
  <2>1. calls = {} /\ NothingAwaited /\ Top = "main"
    BY <1>3, TapAlone DEF openSheet
  <2> QED
    BY <1>3, <2>1, OwnOpen DEF openSheet
<1>4. CASE cancelButtonTapped
  BY <1>4, OwnCancel
<1>5. CASE createAccountButtonTapped
  <2>1. calls = {} /\ NothingAwaited /\ ~Deleting /\ Top = "signup"
    BY <1>5, TapAlone DEF createAccountButtonTapped
  <2>2. CallFits(Ask("create", NoUser, NoUser, Len(chain))) /\ "create" \in CallKind \ {"deleted"}
    BY <2>1 DEF CallFits, Ask, CallKind
  <2> QED
    BY <1>5, <2>1, <2>2, OwnAsk DEF createAccountButtonTapped
<1>6. CASE saveUserToFirestore
  BY <1>6, OwnSave
<1>7. CASE settingsAppears
  <2>1. calls = {} /\ NothingAwaited /\ ~Deleting /\ Top = "main"
    BY <1>7, TapAlone DEF settingsAppears
  <2>2. CallFits(Ask("reload", authUser, NoUser, Len(chain))) /\ "reload" \in CallKind \ {"deleted"}
    BY <2>1 DEF CallFits, Ask, CallKind
  <2> QED
    BY <1>7, <2>1, <2>2, OwnAsk DEF settingsAppears
<1>8. CASE logOutButtonTapped
  <2>1. calls = {} /\ NothingAwaited /\ Top = "main"
    BY <1>8, TapAlone DEF logOutButtonTapped
  <2> QED
    BY <1>8, <2>1, OwnOpen DEF logOutButtonTapped
<1>9. CASE deleteAccountButtonTapped
  <2>1. calls = {} /\ NothingAwaited /\ ~Deleting /\ Top = "delete"
    BY <1>9, TapAlone DEF deleteAccountButtonTapped
  <2>2. currentUser = authUser
    BY <2>1 DEF OwnInv, SameUser
  <2>3. CallFits(Ask("deleteUser", authUser, currentUser, Len(chain)))
        /\ "deleteUser" \in CallKind \ {"deleted"}
    BY <2>1, <2>2 DEF CallFits, Ask, CallKind
  <2> QED
    BY <1>9, <2>1, <2>3, OwnAsk DEF deleteAccountButtonTapped
<1> QED
  BY <1>1, <1>2, <1>3, <1>4, <1>5, <1>6, <1>7, <1>8, <1>9 DEF Tap

\* An answer that asks for something else of the same screen.
LEMMA OwnAskOn ==
    ASSUME OwnInv, SessionInv', NEW c \in calls, UNCHANGED <<chain, queue>>,
           NEW kind, NEW user, NEW person,
           calls' = (calls \ {c}) \cup {Ask(kind, user, person, c.from)},
           CallFits(Ask(kind, user, person, c.from))',
           Top = "main" => FALSE, Top = "delete" => kind = "deleted"
    PROVE  OwnInv'
<1>1. calls = {c} /\ NothingAwaited
  BY AnswerAlone
<1>2. PICK d : d = Ask(kind, user, person, c.from)
  OBVIOUS
<1>3. calls' = {d} /\ d.kind = kind
  BY <1>1, <1>2 DEF Ask
<1>4. CallFits(d)'
  BY <1>2 DEF CallFits
<1>5. Stacked' /\ Top' = Top /\ NothingAwaited' /\ OwnQueues'
  BY <1>1, SameChain, SameQueue DEF OwnInv
<1> QED
  BY <1>3, <1>4, <1>5, OwnStep

LEMMA OwnLaunch ==
    ASSUME OwnInv, SessionInv', NEW c \in calls, findUser(c)
    PROVE  OwnInv'
<1>1. /\ calls = {c} /\ NothingAwaited /\ Top = "splash" /\ c.from = Len(chain)
  BY AnswerAlone DEF CallFits, findUser, Asking
<1>2. CASE authUser = NoUser
  <2>1. calls' = {} /\ Present(Len(chain), "login") /\ queue' = queue
    BY <1>1, <1>2 DEF findUser
  <2>2. Stacked' /\ Top' = "login"
    BY <2>1, PresentOnTop DEF OwnInv
  <2>3. NothingAwaited' /\ OwnQueues'
    BY <1>1, <2>1, SameQueue DEF OwnInv
  <2> QED
    BY <2>1, <2>2, <2>3, OwnStep
<1>3. CASE authUser # NoUser
  <2>1. calls' = (calls \ {c}) \cup {Ask("read", authUser, NoUser, c.from)}
        /\ UNCHANGED <<authUser, chain, queue>>
    BY <1>3 DEF findUser
  <2>2. CallFits(Ask("read", authUser, NoUser, c.from))'
    BY <1>1, <2>1 DEF CallFits, Ask, Top
  <2> QED
    BY <1>1, <2>1, <2>2, OwnAskOn
<1> QED
  BY <1>2, <1>3

LEMMA OwnSignIn ==
    ASSUME OwnInv, Patient, SessionInv', NEW c \in calls, userSignedIn(c)
    PROVE  OwnInv'
<1>1. Top = "login" /\ c.from = Len(chain)
  BY AnswerAlone DEF CallFits, userSignedIn, Asking
<1>2. CallFits(Ask("read", c.user, NoUser, c.from))'
  BY <1>1 DEF CallFits, Ask, Top, userSignedIn
<1>3. calls' = (calls \ {c}) \cup {Ask("read", c.user, NoUser, c.from)}
  BY LeftOverCalls DEF userSignedIn
<1> QED
  BY <1>1, <1>2, <1>3, OwnAskOn DEF userSignedIn

\* An answer after which nothing is asked, on the same screen.
LEMMA OwnAnswered ==
    ASSUME OwnInv, SessionInv', NEW c \in calls, calls' = calls \ {c},
           UNCHANGED <<authUser, chain, queue>>, c.kind # "deleted",
           currentUser' = currentUser \/ (currentUser' = c.user /\ c.kind = "reload")
    PROVE  OwnInv'
<1>1. calls' = {} /\ NothingAwaited /\ CallFits(c) /\ NamesUser(c) /\ ~Deleting
  BY AnswerAlone
<1>2. Stacked' /\ Top' = Top /\ NothingAwaited' /\ OwnQueues'
  BY <1>1, SameChain, SameQueue DEF OwnInv
<1>3. Top' = "main" \/ Top' = "delete" => currentUser' = authUser' /\ authUser' # NoUser
  BY <1>1, <1>2, NoUserAssumption DEF CallFits, NamesUser, OwnInv, SameUser
<1> QED
  BY <1>1, <1>2, <1>3, OwnStep

LEMMA OwnRead ==
    ASSUME OwnInv, Patient, SessionInv', NEW c \in calls, userRead(c)
    PROVE  OwnInv'
<1>0. calls' = calls \ {c}
  BY LeftOverCalls DEF userRead
<1>1. /\ calls = {c} /\ NothingAwaited /\ c.from = Len(chain) /\ CallFits(c) /\ NamesUser(c)
      /\ c.kind \in {"read", "reload"}
  BY AnswerAlone DEF CallFits, userRead, Asking
<1>2. CASE Exists(c.user) /\ c.kind = "read"
  <2>1. /\ calls' = {} /\ Present(Len(chain), "main") /\ queue' = queue
        /\ currentUser' = c.user /\ authUser' = authUser
    BY <1>0, <1>1, <1>2 DEF userRead
  <2>2. Stacked' /\ Top' = "main"
    BY <2>1, PresentOnTop DEF OwnInv
  <2>3. NothingAwaited' /\ OwnQueues'
    BY <1>1, <2>1, SameQueue DEF OwnInv
  <2>4. authUser = c.user /\ c.user \in User
    BY <1>1, <1>2 DEF CallFits, NamesUser
  <2> QED
    BY <2>1, <2>2, <2>3, <2>4, NoUserAssumption, OwnStep
<1>3. CASE ~(Exists(c.user) /\ c.kind = "read")
  <2>1. /\ calls' = calls \ {c} /\ UNCHANGED <<authUser, chain, queue>>
        /\ currentUser' = currentUser \/ (currentUser' = c.user /\ c.kind = "reload")
    BY <1>0, <1>1, <1>3 DEF userRead
  <2> QED
    BY <1>1, <2>1, OwnAnswered
<1> QED
  BY <1>2, <1>3

LEMMA OwnAuthFailed ==
    ASSUME OwnInv, Patient, SessionInv', NEW c \in calls, authFailed(c) \/ readFailed(c)
    PROVE  OwnInv'
<1>1. calls' = calls \ {c} /\ UNCHANGED <<authUser, currentUser, chain, queue>>
      /\ c.kind # "deleted"
  BY LeftOverCalls DEF authFailed, readFailed, Asking
<1> QED
  BY <1>1, OwnAnswered

LEMMA OwnAccountCreated ==
    ASSUME OwnInv, Patient, SessionInv', NEW c \in calls, accountCreated(c)
    PROVE  OwnInv'
<1>1. Top = "signup" /\ c.from = Len(chain)
  BY AnswerAlone DEF CallFits, accountCreated, Asking
<1>2. PICK u \in User : authUser' = u /\ calls' = (calls \ {c}) \cup {Ask("created", u, NoUser, c.from)}
  BY LeftOverCalls DEF accountCreated
<1>3. chain' = chain /\ queue' = queue
  BY DEF accountCreated
<1>4. CallFits(Ask("created", u, NoUser, c.from))'
  BY <1>1, <1>2, <1>3 DEF CallFits, Ask, Top
<1> QED
  BY <1>1, <1>2, <1>3, <1>4, OwnAskOn

LEMMA OwnAccountDeleted ==
    ASSUME OwnInv, Patient, SessionInv', NEW c \in calls, accountDeleted(c)
    PROVE  OwnInv'
<1>1. Top = "delete" /\ c.from = Len(chain) /\ authUser = c.user
  BY AnswerAlone DEF CallFits, accountDeleted, Asking
<1>2. authUser' = NoUser /\ UNCHANGED <<chain, queue>>
      /\ calls' = (calls \ {c}) \cup {Ask("deleted", c.user, c.person, c.from)}
  BY <1>1, LeftOverCalls DEF accountDeleted
<1>3. CallFits(Ask("deleted", c.user, c.person, c.from))'
  BY <1>1, <1>2 DEF CallFits, Ask, Top
<1> QED
  BY <1>1, <1>2, <1>3, OwnAskOn

\* A block that queues a write whose block will present a screen.
LEMMA OwnAwait ==
    ASSUME OwnInv, SessionInv', NEW c \in calls, calls' = calls \ {c},
           NEW w \in Write, queue' = [queue EXCEPT ![authUser] = Append(@, w)],
           w.from = Len(chain), UNCHANGED <<authUser, chain>>,
           \/ /\ w.op = "set" /\ w.of = authUser /\ authUser \in User
              /\ currentUser' = authUser /\ Top = "signup"
           \/ w.op = "delete" /\ authUser = NoUser /\ Top = "delete"
    PROVE  OwnInv'
<1>1. calls' = {} /\ NothingAwaited /\ Len(chain) \in Nat \ {0}
  BY AnswerAlone, ChainType DEF OwnInv
<1>2a. (authUser \in User => w.op = "set" /\ w.of = authUser)
       /\ (authUser = NoUser => w.op = "delete")
  BY NoUserAssumption
<1>2b. /\ OwnQueues' /\ authUser \in Someone
       /\ Len(queue'[authUser]) \in DOMAIN queue'[authUser]
       /\ queue'[authUser][Len(queue'[authUser])] = w
       /\ \A u \in Someone : \A i \in DOMAIN queue'[u] :
              \/ i \in DOMAIN queue[u] /\ queue'[u][i] = queue[u][i]
              \/ u = authUser /\ i = Len(queue'[u]) /\ queue'[u][i] = w
  BY <1>2a, QueuedOwn
<1> DEFINE n == Len(queue'[authUser])
<1>2. /\ OwnQueues' /\ authUser \in Someone
      /\ n \in DOMAIN queue'[authUser] /\ queue'[authUser][n] = w
      /\ \A u \in Someone : \A i \in DOMAIN queue'[u] :
             \/ i \in DOMAIN queue[u] /\ queue'[u][i] = queue[u][i]
             \/ u = authUser /\ i = Len(queue'[u]) /\ queue'[u][i] = w
  BY <1>2b
<1> HIDE DEF n
<1>3. \A u \in Someone : \A i \in DOMAIN queue'[u] :
          queue'[u][i].from # 0 => u = authUser /\ i = Len(queue'[u]) /\ queue'[u][i] = w
  BY <1>1, <1>2 DEF NothingAwaited, Awaited
<1>4. OneThing'
  BY <1>1, <1>3 DEF OneThing, Awaited
<1>5. Stacked' /\ Top' = Top
  BY SameChain DEF OwnInv
<1>6. WriteFits(w)'
  BY <1>5, NoUserAssumption DEF WriteFits
<1>7. \A u \in Someone : \A i \in DOMAIN queue'[u] : Awaited(u, i)' => WriteFits(queue[u][i])'
  <2> SUFFICES ASSUME NEW u \in Someone, NEW i \in DOMAIN queue'[u], Awaited(u, i)'
               PROVE  WriteFits(queue[u][i])'
    OBVIOUS
  <2>1. queue'[u][i] = w
    BY <1>3 DEF Awaited
  <2> QED
    BY <1>6, <2>1 DEF WriteFits
<1>8. SameUser'
  <2>1. CASE Top = "signup"
    BY <1>5, <2>1 DEF SameUser
  <2>2. CASE Top = "delete" /\ authUser = NoUser
    <3>1. Deleting'
      BY <1>1, <1>2, <2>2 DEF Deleting, Awaited
    <3> QED
      BY <1>5, <2>2, <3>1 DEF SameUser
  <2> QED
    BY <2>1, <2>2
<1> QED
  BY <1>1, <1>2, <1>4, <1>5, <1>7, <1>8 DEF OwnInv

LEMMA OwnRecordCreated ==
    ASSUME OwnInv, SessionInv', NEW c \in calls, recordCreated(c)
    PROVE  OwnInv'
<1> DEFINE w == SetRecord(c.user, c.from)
<1>1. /\ Top = "signup" /\ c.from = Len(chain) /\ authUser = c.user
      /\ c \in Call /\ c.user \in User
  BY AnswerAlone DEF CallFits, recordCreated, Asking, NamesUser
<1>2. w \in Write /\ w.op = "set" /\ w.of = authUser /\ w.from = Len(chain)
  BY <1>1 DEF SetRecord, Write, Call
<1>3. queue' = [queue EXCEPT ![authUser] = Append(@, w)] /\ calls' = calls \ {c}
      /\ currentUser' = authUser /\ UNCHANGED <<authUser, chain>>
  BY <1>1 DEF recordCreated
<1> HIDE DEF w
<1> QED
  BY <1>1, <1>2, <1>3, OwnAwait

LEMMA OwnRecordDeleted ==
    ASSUME OwnInv, SessionInv', NEW c \in calls, recordDeleted(c)
    PROVE  OwnInv'
<1> DEFINE w == DeleteRecord(c.person, c.from)
<1>1. /\ Top = "delete" /\ c.from = Len(chain) /\ authUser = NoUser
      /\ c \in Call
  BY AnswerAlone DEF CallFits, recordDeleted, Asking
<1>2. w \in Write /\ w.op = "delete" /\ w.from = Len(chain)
  BY <1>1 DEF DeleteRecord, Write, Call
<1>3. queue' = [queue EXCEPT ![authUser] = Append(@, w)] /\ calls' = calls \ {c}
      /\ UNCHANGED <<authUser, chain>>
  BY <1>1 DEF recordDeleted
<1> HIDE DEF w
<1> QED
  BY <1>1, <1>2, <1>3, OwnAwait

\* What a queue that loses its oldest write keeps.
LEMMA DequeuedOwn ==
    ASSUME OwnInv, queue[authUser] # <<>>, queue' = [queue EXCEPT ![authUser] = Tail(@)]
    PROVE  /\ authUser \in Someone /\ Len(queue[authUser]) \in Nat \ {0}
           /\ 1 \in DOMAIN queue[authUser] /\ Head(queue[authUser]) = queue[authUser][1]
           /\ Len(queue'[authUser]) = Len(queue[authUser]) - 1
           /\ DOMAIN queue[authUser] = 1..Len(queue[authUser])
           /\ DOMAIN queue'[authUser] = 1..Len(queue'[authUser])
           /\ \A i \in DOMAIN queue'[authUser] :
                  i + 1 \in DOMAIN queue[authUser] /\ queue'[authUser][i] = queue[authUser][i + 1]
           /\ \A u \in Someone \ {authUser} : queue'[u] = queue[u]
           /\ OwnQueues'
<1>1. queue \in [Someone -> Seq(Write)] /\ authUser \in Someone
  BY DEF OwnInv, SessionInv, TypeOK
<1>2. queue[authUser] \in Seq(Write) /\ queue'[authUser] = Tail(queue[authUser])
      /\ \A u \in Someone \ {authUser} : queue'[u] = queue[u]
  BY <1>1
<1>3. PICK q : q = queue[authUser]
  OBVIOUS
<1>3a. q \in Seq(Write) /\ q # <<>> /\ queue'[authUser] = Tail(q)
  BY <1>2, <1>3
<1>3b. /\ Len(q) \in Nat \ {0} /\ 1 \in DOMAIN q /\ Head(q) = q[1]
       /\ Tail(q) \in Seq(Write) /\ Len(Tail(q)) = Len(q) - 1
       /\ DOMAIN q = 1..Len(q) /\ DOMAIN Tail(q) = 1..Len(Tail(q))
       /\ \A i \in DOMAIN Tail(q) : i + 1 \in DOMAIN q /\ Tail(q)[i] = q[i + 1]
  BY <1>3a, TailFacts
<1>4. /\ Len(queue[authUser]) \in Nat \ {0}
      /\ 1 \in DOMAIN queue[authUser] /\ Head(queue[authUser]) = queue[authUser][1]
      /\ Len(queue'[authUser]) = Len(queue[authUser]) - 1
      /\ DOMAIN queue[authUser] = 1..Len(queue[authUser])
      /\ DOMAIN queue'[authUser] = 1..Len(queue'[authUser])
      /\ \A i \in DOMAIN queue'[authUser] :
             i + 1 \in DOMAIN queue[authUser] /\ queue'[authUser][i] = queue[authUser][i + 1]
  BY <1>3, <1>3a, <1>3b
<1>5. OwnQueues'
  <2>1. ASSUME NEW u \in User, NEW i \in DOMAIN queue'[u]
        PROVE  queue'[u][i].op = "set" /\ queue'[u][i].of = u
    <3>1. CASE u = authUser
      BY <1>4, <3>1 DEF OwnInv, OwnQueues
    <3>2. CASE u # authUser
      BY <1>2, <3>2 DEF OwnInv, OwnQueues, Someone
    <3> QED
      BY <3>1, <3>2
  <2>2. ASSUME NEW i \in DOMAIN queue'[NoUser]
        PROVE  queue'[NoUser][i].op = "delete"
    <3>1. CASE authUser = NoUser
      BY <1>4, <3>1 DEF OwnInv, OwnQueues
    <3>2. CASE authUser # NoUser
      BY <1>2, <3>2 DEF OwnInv, OwnQueues, Someone
    <3> QED
      BY <3>1, <3>2
  <2> QED
    BY <2>1, <2>2 DEF OwnQueues
<1> QED
  BY <1>1, <1>2, <1>4, <1>5

\* A write that is applied: one that no screen waits for changes only its queue, and
\* one that a screen waits for was the only thing on its way.
LEMMA OwnCommit ==
    ASSUME OwnInv, SessionInv', writeCommitted
    PROVE  OwnInv'
<1> DEFINE w == Head(queue[authUser])
<1>1. /\ queue[authUser] # <<>> /\ queue' = [queue EXCEPT ![authUser] = Tail(@)]
      /\ Present(w.from, IF w.op = "set" THEN "main" ELSE "login")
      /\ UNCHANGED <<authUser, currentUser, calls>>
  BY DEF writeCommitted
<1>2. /\ authUser \in Someone /\ Len(queue[authUser]) \in Nat \ {0}
      /\ 1 \in DOMAIN queue[authUser] /\ w = queue[authUser][1]
      /\ Len(queue'[authUser]) = Len(queue[authUser]) - 1
      /\ DOMAIN queue[authUser] = 1..Len(queue[authUser])
      /\ DOMAIN queue'[authUser] = 1..Len(queue'[authUser])
      /\ \A i \in DOMAIN queue'[authUser] :
             i + 1 \in DOMAIN queue[authUser] /\ queue'[authUser][i] = queue[authUser][i + 1]
      /\ \A u \in Someone \ {authUser} : queue'[u] = queue[u]
      /\ OwnQueues'
  BY <1>1, DequeuedOwn
<1>3. w.op \in {"set", "delete"}
  <2>1. queue[authUser] \in Seq(Write)
    BY <1>2 DEF OwnInv, SessionInv, TypeOK
  <2>2. w \in Write
    BY <1>2, <2>1
  <2> QED
    BY <2>2 DEF Write
<1> HIDE DEF w
<1>4. CASE w.from = 0
  <2>1. chain' = chain
    BY <1>1, <1>4, ChainType DEF OwnInv, Present
  <2>2. Stacked' /\ Top' = Top
    BY <2>1, SameChain DEF OwnInv
  <2>3. ASSUME NEW u \in Someone, NEW i \in DOMAIN queue'[u], queue'[u][i].from # 0
        PROVE  calls = {} /\ u = authUser /\ i = Len(queue'[u]) /\ WriteFits(queue'[u][i])
    <3>1. CASE u = authUser
      <4>1. i + 1 \in DOMAIN queue[u] /\ queue'[u][i] = queue[u][i + 1] /\ i \in 1..Len(queue'[u])
        BY <1>2, <3>1
      <4>2. Awaited(u, i + 1)
        BY <2>3, <4>1 DEF Awaited
      <4>3. calls = {} /\ i + 1 = Len(queue[u]) /\ WriteFits(queue[u][i + 1])
        BY <4>1, <4>2 DEF OwnInv, OneThing
      <4> QED
        BY <1>2, <3>1, <4>1, <4>3
    <3>2. CASE u # authUser
      BY <1>2, <2>3, <3>2 DEF OwnInv, OneThing, Awaited
    <3> QED
      BY <3>1, <3>2
  <2>4. OneThing'
    BY <1>1, <2>3 DEF OwnInv, OneThing, Awaited
  <2>5. \A u \in Someone : \A i \in DOMAIN queue'[u] : Awaited(u, i)' => WriteFits(queue[u][i])'
    BY <1>1, <2>1, <2>2, <2>3 DEF Awaited, WriteFits
  <2>6. \A c \in calls' : CallFits(c)'
    BY <1>1, <2>1, <2>2 DEF OwnInv, CallFits
  <2>7. Deleting => Deleting'
    <3>1. ASSUME NEW i \in DOMAIN queue[NoUser], Awaited(NoUser, i) PROVE Deleting'
      <4>1. NoUser = authUser /\ i = Len(queue[NoUser])
        BY <3>1 DEF OwnInv, OneThing, Someone
      <4>2. i # 1
        BY <1>2, <1>4, <3>1, <4>1 DEF Awaited
      <4> DEFINE m == Len(queue[authUser])
      <4>2a. m \in Nat /\ i \in 1..m /\ DOMAIN queue'[NoUser] = 1..(m - 1)
        BY <1>2, <4>1
      <4> HIDE DEF m
      <4>3. i - 1 \in DOMAIN queue'[NoUser] /\ (i - 1) + 1 = i
        BY <4>2, <4>2a
      <4>4. queue'[NoUser][i - 1] = queue[NoUser][i]
        BY <1>2, <4>1, <4>3
      <4> QED
        BY <3>1, <4>3, <4>4 DEF Deleting, Awaited
    <3> QED
      BY <1>1, <3>1 DEF Deleting, Asking
  <2>8. SameUser'
    BY <1>1, <2>2, <2>7 DEF OwnInv, SameUser
  <2> QED
    BY <1>2, <2>2, <2>4, <2>5, <2>6, <2>8 DEF OwnInv
<1>5. CASE w.from # 0
  <2>1. Awaited(authUser, 1)
    BY <1>2, <1>5 DEF Awaited
  <2>2. calls = {} /\ 1 = Len(queue[authUser]) /\ WriteFits(w)
    BY <1>2, <2>1 DEF OwnInv, OneThing
  <2>3. NothingAwaited'
    <3> SUFFICES ASSUME NEW u \in Someone, NEW i \in DOMAIN queue'[u], queue'[u][i].from # 0
                 PROVE  FALSE
      BY DEF NothingAwaited, Awaited
    <3>1. CASE u = authUser
      BY <1>2, <2>2, <3>1
    <3>2. CASE u # authUser
      BY <1>2, <3>2 DEF OwnInv, OneThing, Awaited
    <3> QED
      BY <3>1, <3>2
  <2>4. Present(Len(chain), IF w.op = "set" THEN "main" ELSE "login")
    BY <1>1, <2>2 DEF WriteFits
  <2>5. Stacked' /\ Top' = IF w.op = "set" THEN "main" ELSE "login"
    BY <2>4, PresentOnTop DEF OwnInv
  <2>6. Top' = "main" \/ Top' = "delete" => currentUser' = authUser' /\ authUser' # NoUser
    BY <1>1, <1>3, <2>2, <2>5 DEF WriteFits
  <2> QED
    BY <1>1, <1>2, <2>2, <2>3, <2>5, <2>6, OwnStep
<1> QED
  BY <1>4, <1>5

LEMMA OwnRelaunch ==
    ASSUME OwnInv, SessionInv', relaunch
    PROVE  OwnInv'
<1>1. queue \in [Someone -> Seq(Write)]
  BY DEF OwnInv, SessionInv, TypeOK
<1>2. PICK c : c = Ask("launch", NoUser, NoUser, 1)
  OBVIOUS
<1>3. calls' = {c} /\ chain' = <<"splash">>
  BY <1>2 DEF relaunch
<1>4. Top' = "splash" /\ Stacked' /\ Len(chain') = 1
  BY <1>3 DEF Top, Stacked
<1>5. CallFits(c)'
  BY <1>2, <1>4 DEF CallFits, Ask
<1>6. ASSUME NEW u \in Someone
      PROVE  /\ DOMAIN queue'[u] = DOMAIN queue[u]
             /\ \A i \in DOMAIN queue[u] :
                    /\ queue'[u][i].from = 0
                    /\ queue'[u][i].op = queue[u][i].op /\ queue'[u][i].of = queue[u][i].of
  <2>1. queue[u] \in Seq(Write)
    BY <1>1
  <2>2. queue'[u] = [i \in DOMAIN queue[u] |-> [queue[u][i] EXCEPT !.from = 0]]
    BY DEF relaunch
  <2>3. \A i \in DOMAIN queue[u] : queue[u][i] \in Write
    BY <2>1
  <2> QED
    BY <2>2, <2>3 DEF Write
<1>7. NothingAwaited'
  BY <1>6 DEF NothingAwaited, Awaited
<1>8. OwnQueues'
  BY <1>6 DEF OwnInv, OwnQueues, Someone
<1> QED
  BY <1>3, <1>4, <1>5, <1>7, <1>8, OwnStep

LEMMA OwnNext ==
    ASSUME OwnInv, Patient, ~Failures, [Next]_vars
    PROVE  OwnInv'
<1>1. SessionInv'
  BY NextKeeps DEF OwnInv
<1>2. CASE UNCHANGED vars
  <2>1. UNCHANGED <<authUser, currentUser, chain, calls, queue>>
    BY <1>2 DEF vars
  <2>2. Top' = Top /\ Stacked'
    BY <2>1, SameChain DEF OwnInv
  <2> QED
    BY <1>1, <2>1, <2>2 DEF OwnInv, OneThing, Awaited, CallFits, WriteFits, SameUser, Deleting,
       Asking, OwnQueues
<1>3. CASE Tap
  BY <1>1, <1>3, OwnTap
<1>4. ASSUME NEW c \in calls, Answer(c) PROVE OwnInv'
  BY <1>1, <1>4, OwnLaunch, OwnSignIn, OwnRead, OwnAuthFailed, OwnAccountCreated,
     OwnRecordCreated, OwnAccountDeleted, OwnRecordDeleted DEF Answer
<1>5. CASE writeCommitted
  BY <1>1, <1>5, OwnCommit
<1>6. CASE relaunch
  BY <1>1, <1>6, OwnRelaunch
<1> QED
  BY <1>2, <1>3, <1>4, <1>5, <1>6 DEF Next, writeRejected

LEMMA OwnInit ==
    ASSUME Init
    PROVE  OwnInv
<1>1. SessionInv /\ chain = <<"splash">> /\ Len(chain) = 1 /\ Top = "splash"
  BY InitEstablishes DEF Init, Top
<1>2. Stacked
  BY <1>1 DEF Stacked
<1>3. OneThing /\ (\A c \in calls : CallFits(c))
  BY <1>1 DEF Init, OneThing, Awaited, CallFits, Ask
<1>4. \A u \in Someone : DOMAIN queue[u] = {}
  BY DEF Init
<1>5. OwnQueues /\ \A u \in Someone : \A i \in DOMAIN queue[u] : Awaited(u, i) => WriteFits(queue[u][i])
  BY <1>4 DEF OwnQueues, Someone
<1> QED
  BY <1>1, <1>2, <1>3, <1>5 DEF OwnInv, SameUser

LEMMA OwnInvariant ==
    ASSUME Patient, ~Failures
    PROVE  Spec => []OwnInv
<1>1. Init => OwnInv
  BY OwnInit
<1>2. OwnInv /\ [Next]_vars => OwnInv'
  BY OwnNext
<1> QED
  BY <1>1, <1>2, PTL DEF Spec

\* The device writes and deletes the record of the user Auth has signed in and of
\* nobody else (saveUserToFirestore, deleteAccountButtonTapped), wherever the process
\* is killed, if the user waits for answers and the backend refuses nothing.
THEOREM DeviceWritesItsUser ==
    ASSUME Patient, ~Failures
    PROVE  Spec => []WritesAreOwn
<1>1. OwnInv => WritesAreOwn
  BY DEF OwnInv, OwnQueues, CallFits, Asking, WritesAreOwn
<1> QED
  BY <1>1, OwnInvariant, PTL

-----------------------------------------------------------------------------
(***************************************************************************)
(* Accounts and records.  An account without its record has it queued, or  *)
(* its creation goes on; a record without its account has its deletion     *)
(* queued, or its deletion goes on.  A UID is not given out again.         *)
(***************************************************************************)

MissingRecords ==
    \A u \in accounts \ records :
        queue[u] # <<>> \/ \E c \in Asking("created") : c.user = u

LeftRecords ==
    \A u \in records \ accounts :
        \/ \E i \in DOMAIN queue[NoUser] : queue[NoUser][i].of = u
        \/ \E c \in Asking("deleted") : c.person = u

RecordInv ==
    /\ OwnInv
    /\ authUser \in accounts \cup {NoUser}
    /\ records \subseteq issued
    /\ \A i \in DOMAIN queue[NoUser] : queue[NoUser][i].of \in issued \ accounts
    /\ \A c \in Asking("deleted") : c.person \in issued \ accounts
    /\ MissingRecords
    /\ LeftRecords

SameCalls == calls \cup calls' \subseteq {c \in Call : c.kind \notin {"created", "deleted"}}

SameDeletions ==
    /\ DOMAIN queue'[NoUser] = DOMAIN queue[NoUser]
    /\ \A i \in DOMAIN queue[NoUser] : queue'[NoUser][i].of = queue[NoUser][i].of

\* A step that leaves accounts and records alone and forgets nothing that is queued.
LEMMA RecordQuiet ==
    ASSUME RecordInv, OwnInv', UNCHANGED <<accounts, issued, records>>,
           authUser' \in accounts \cup {NoUser},
           \A u \in User : queue[u] # <<>> => queue'[u] # <<>>, SameDeletions, SameCalls
    PROVE  RecordInv'
<1>1. /\ Asking("deleted") = {} /\ Asking("created") = {}
      /\ Asking("deleted")' = {} /\ Asking("created")' = {}
  BY DEF SameCalls, Asking
<1>2. accounts \subseteq User
  BY DEF RecordInv, OwnInv, SessionInv, TypeOK
<1>3. MissingRecords'
  BY <1>1, <1>2 DEF RecordInv, MissingRecords
<1>4. LeftRecords'
  BY <1>1 DEF RecordInv, LeftRecords, SameDeletions
<1>5. \A i \in DOMAIN queue'[NoUser] : queue'[NoUser][i].of \in issued' \ accounts'
  BY DEF RecordInv, SameDeletions
<1> QED
  BY <1>1, <1>3, <1>4, <1>5 DEF RecordInv

LEMMA RecordTap ==
    ASSUME RecordInv, OwnInv', Patient, Tap
    PROVE  RecordInv'
<1>1. /\ queue \in [Someone -> Seq(Write)] /\ authUser \in Someone /\ calls' \subseteq Call
      /\ User \subseteq Someone /\ NoUser \in Someone /\ accounts \subseteq User
      /\ authUser \in accounts \cup {NoUser}
  BY DEF RecordInv, OwnInv, SessionInv, TypeOK, Someone
<1>2. SameDeletions \/ queue' # queue
  BY DEF SameDeletions
<1>3. ASSUME calls = {}, \A c \in calls' : c.kind \notin {"created", "deleted"}
      PROVE  SameCalls
  BY <1>1, <1>3 DEF SameCalls
<1>4. ASSUME calls = {}, \A c \in calls' : c.kind \notin {"created", "deleted"},
             UNCHANGED <<accounts, issued, records, queue>>, authUser' \in {authUser, NoUser}
      PROVE  RecordInv'
  BY <1>1, <1>2, <1>3, <1>4, RecordQuiet
<1>5. CASE \E u \in User : loginButtonTapped(u)
  <2>1. PICK u \in User : loginButtonTapped(u)
    BY <1>5
  <2>2. calls = {}
    BY <2>1, TapAlone DEF RecordInv, loginButtonTapped
  <2> QED
    BY <1>4, <2>1, <2>2 DEF loginButtonTapped, Ask
<1>6. CASE openSheet("login", "signup") \/ openSheet("main", "delete")
  <2>1. calls = {}
    BY <1>6, TapAlone DEF RecordInv, openSheet
  <2> QED
    BY <1>4, <1>6, <2>1 DEF openSheet
<1>7. CASE cancelButtonTapped
  <2>1. calls = {} /\ calls' = {}
    BY <1>7, TapAlone DEF RecordInv, cancelButtonTapped
  <2>2. ASSUME NEW u \in Someone
        PROVE  /\ DOMAIN queue'[u] = DOMAIN queue[u]
               /\ \A i \in DOMAIN queue[u] : queue'[u][i].of = queue[u][i].of
    <3>1. queue[u] \in Seq(Write)
      BY <1>1
    <3>2. \A i \in DOMAIN queue[u] : queue[u][i] \in Write
      BY <3>1
    <3> QED
      BY <1>7, <3>2 DEF cancelButtonTapped, Write
  <2>3. \A u \in User : queue[u] # <<>> => queue'[u] # <<>>
    <3> SUFFICES ASSUME NEW u \in User, queue[u] # <<>> PROVE queue'[u] # <<>>
      OBVIOUS
    <3>1. queue[u] \in Seq(Write) /\ DOMAIN queue'[u] = DOMAIN queue[u]
      BY <1>1, <2>2
    <3>2. 1 \in DOMAIN queue[u]
      BY <3>1, TailFacts
    <3> QED
      BY <3>1, <3>2
  <2>4. SameDeletions
    BY <1>1, <2>2 DEF SameDeletions
  <2> QED
    BY <1>1, <1>3, <1>7, <2>1, <2>3, <2>4, RecordQuiet DEF cancelButtonTapped
<1>8. CASE createAccountButtonTapped
  <2>1. calls = {}
    BY <1>8, TapAlone DEF RecordInv, createAccountButtonTapped
  <2> QED
    BY <1>4, <1>8, <2>1 DEF createAccountButtonTapped, Ask
<1>9. CASE saveUserToFirestore
  <2>1. calls = {} /\ calls' = {} /\ Top = "main"
    BY <1>9, TapAlone DEF RecordInv, saveUserToFirestore
  <2>2. authUser # NoUser
    BY <2>1 DEF RecordInv, OwnInv, SameUser
  <2>3. \A u \in Someone \ {authUser} : queue'[u] = queue[u]
    BY <1>1, <1>9 DEF saveUserToFirestore
  <2>4. queue'[authUser] # <<>>
    <3>1. PICK w : w = SetRecord(currentUser, 0)
      OBVIOUS
    <3>2. queue[authUser] \in Seq(Write) /\ queue'[authUser] = Append(queue[authUser], w)
      BY <1>1, <1>9, <3>1 DEF saveUserToFirestore
    <3>3. DOMAIN queue'[authUser] = 1..(Len(queue[authUser]) + 1) /\ Len(queue[authUser]) \in Nat
      BY <3>2
    <3> QED
      BY <3>3
  <2>5. SameDeletions
    BY <1>1, <2>2, <2>3 DEF SameDeletions
  <2> QED
    BY <1>1, <1>3, <1>9, <2>1, <2>3, <2>4, <2>5, RecordQuiet DEF saveUserToFirestore
<1>10. CASE settingsAppears
  <2>1. calls = {}
    BY <1>10, TapAlone DEF RecordInv, settingsAppears
  <2> QED
    BY <1>4, <1>10, <2>1 DEF settingsAppears, Ask
<1>11. CASE logOutButtonTapped
  <2>1. calls = {}
    BY <1>11, TapAlone DEF RecordInv, logOutButtonTapped
  <2> QED
    BY <1>4, <1>11, <2>1 DEF logOutButtonTapped
<1>12. CASE deleteAccountButtonTapped
  <2>1. calls = {}
    BY <1>12, TapAlone DEF RecordInv, deleteAccountButtonTapped
  <2> QED
    BY <1>4, <1>12, <2>1 DEF deleteAccountButtonTapped, Ask
<1> QED
  BY <1>5, <1>6, <1>7, <1>8, <1>9, <1>10, <1>11, <1>12 DEF Tap

\* The answers that leave accounts, records and queues alone.
LEMMA RecordAnswered ==
    ASSUME RecordInv, OwnInv', Patient, NEW c \in calls,
           findUser(c) \/ userSignedIn(c) \/ userRead(c) \/ readFailed(c) \/ authFailed(c)
    PROVE  RecordInv'
<1>1. calls = {c} /\ c \in Call /\ calls' \subseteq Call
  BY AnswerAlone DEF RecordInv, OwnInv, SessionInv, TypeOK
<1>2. UNCHANGED <<accounts, issued, records, queue>> /\ c.kind \notin {"created", "deleted"}
  BY DEF findUser, userSignedIn, userRead, readFailed, authFailed, Asking
<1>3. authUser' \in accounts \cup {NoUser}
  BY DEF RecordInv, findUser, userSignedIn, userRead, readFailed, authFailed
<1>4. \A d \in calls' : d = c \/ d.kind = "read"
  BY <1>1, LeftOverCalls DEF findUser, userSignedIn, userRead, readFailed, authFailed, Ask
<1>5. SameCalls /\ SameDeletions
  BY <1>1, <1>2, <1>4 DEF SameCalls, SameDeletions
<1> QED
  BY <1>2, <1>3, <1>5, RecordQuiet

LEMMA RecordAccountCreated ==
    ASSUME RecordInv, OwnInv', Patient, NEW c \in calls, accountCreated(c)
    PROVE  RecordInv'
<1>1. calls = {c} /\ c.kind = "create"
  BY AnswerAlone DEF RecordInv, accountCreated, Asking
<1>2. PICK u \in User \ issued : /\ accounts' = accounts \cup {u} /\ issued' = issued \cup {u}
                                 /\ authUser' = u
                                 /\ calls' = (calls \ {c}) \cup {Ask("created", u, NoUser, c.from)}
  BY LeftOverCalls DEF accountCreated
<1>3. UNCHANGED <<records, queue>> /\ calls' = {Ask("created", u, NoUser, c.from)}
  BY <1>1, <1>2 DEF accountCreated
<1>4. /\ Asking("created") = {} /\ Asking("deleted") = {} /\ Asking("deleted")' = {}
      /\ \E d \in Asking("created")' : d.user = u
  <2>1. \E d \in calls' : d.kind = "created" /\ d.user = u
    BY <1>3 DEF Ask
  <2> QED
    BY <1>1, <1>3, <2>1 DEF Asking, Ask
<1>5. MissingRecords'
  BY <1>2, <1>3, <1>4 DEF RecordInv, MissingRecords
<1>6. LeftRecords'
  BY <1>2, <1>3, <1>4 DEF RecordInv, LeftRecords
<1> QED
  BY <1>2, <1>3, <1>4, <1>5, <1>6 DEF RecordInv

LEMMA RecordAccountDeleted ==
    ASSUME RecordInv, OwnInv', Patient, NEW c \in calls, accountDeleted(c)
    PROVE  RecordInv'
<1>1. calls = {c} /\ c.kind = "deleteUser" /\ c.person = c.user /\ authUser = c.user
      /\ c.user \in User /\ accounts \subseteq issued
  BY AnswerAlone DEF RecordInv, OwnInv, SessionInv, TypeOK, accountDeleted, Asking, CallFits, NamesUser
<1>2. /\ c.user \in accounts /\ accounts' = accounts \ {c.user} /\ authUser' = NoUser
      /\ UNCHANGED <<issued, records, queue>>
      /\ calls' = {Ask("deleted", c.user, c.user, c.from)}
  BY <1>1, LeftOverCalls DEF accountDeleted
<1>3. /\ Asking("created") = {} /\ Asking("deleted") = {} /\ Asking("created")' = {}
      /\ Asking("deleted")' = calls' /\ \A d \in calls' : d.person = c.user
      /\ \E d \in calls' : d.person = c.user
  BY <1>1, <1>2 DEF Asking, Ask
<1>4. MissingRecords'
  BY <1>2, <1>3 DEF RecordInv, MissingRecords
<1>5. LeftRecords'
  BY <1>2, <1>3 DEF RecordInv, LeftRecords
<1> QED
  BY <1>1, <1>2, <1>3, <1>4, <1>5 DEF RecordInv

LEMMA RecordRecordCreated ==
    ASSUME RecordInv, OwnInv', NEW c \in calls, recordCreated(c)
    PROVE  RecordInv'
<1> DEFINE w == SetRecord(c.user, c.from)
<1>1. calls = {c} /\ c.kind = "created" /\ authUser = c.user /\ c.user \in User
  BY AnswerAlone DEF RecordInv, recordCreated, Asking, CallFits, NamesUser
<1>2. /\ UNCHANGED <<accounts, issued, records, authUser>> /\ calls' = {}
      /\ queue' = [queue EXCEPT ![authUser] = Append(@, w)]
  BY <1>1 DEF recordCreated
<1> HIDE DEF w
<1>3. /\ queue \in [Someone -> Seq(Write)] /\ authUser \in Someone /\ NoUser \in Someone
      /\ accounts \subseteq Someone
  BY <1>1 DEF RecordInv, OwnInv, SessionInv, TypeOK, Someone
<1>4. queue'[authUser] = Append(queue[authUser], w) /\ queue[authUser] \in Seq(Write)
      /\ \A u \in Someone \ {authUser} : queue'[u] = queue[u]
  BY <1>2, <1>3
<1>5. queue'[authUser] # <<>>
  <2>1. DOMAIN queue'[authUser] = 1..(Len(queue[authUser]) + 1) /\ Len(queue[authUser]) \in Nat
    BY <1>4
  <2> QED
    BY <2>1
<1>6. authUser # NoUser /\ queue'[NoUser] = queue[NoUser]
  BY <1>1, <1>3, <1>4, NoUserAssumption
<1>7. /\ Asking("deleted") = {} /\ Asking("created")' = {} /\ Asking("deleted")' = {}
      /\ \A d \in Asking("created") : d.user = authUser
  BY <1>1, <1>2 DEF Asking
<1>8. MissingRecords'
  BY <1>2, <1>3, <1>4, <1>5, <1>7 DEF RecordInv, MissingRecords
<1>9. LeftRecords'
  BY <1>2, <1>6, <1>7 DEF RecordInv, LeftRecords
<1> QED
  BY <1>2, <1>6, <1>7, <1>8, <1>9 DEF RecordInv

LEMMA RecordRecordDeleted ==
    ASSUME RecordInv, OwnInv', NEW c \in calls, recordDeleted(c)
    PROVE  RecordInv'
<1> DEFINE w == DeleteRecord(c.person, c.from)
<1>1. /\ calls = {c} /\ c.kind = "deleted" /\ authUser = NoUser /\ c \in Call
      /\ c.person \in issued \ accounts
  BY AnswerAlone DEF RecordInv, recordDeleted, Asking, CallFits
<1>2. /\ UNCHANGED <<accounts, issued, records, authUser>> /\ calls' = {}
      /\ queue' = [queue EXCEPT ![authUser] = Append(@, w)]
  BY <1>1 DEF recordDeleted
<1>3. w \in Write /\ w.op = "delete" /\ w.of = c.person
  BY <1>1 DEF DeleteRecord, Write, Call
<1> HIDE DEF w
<1>4. /\ queue \in [Someone -> Seq(Write)] /\ accounts \subseteq User
      /\ queue[NoUser] \in Seq(Write)
  BY DEF RecordInv, OwnInv, SessionInv, TypeOK, Someone
<1>5. queue'[NoUser] = Append(queue[NoUser], w) /\ \A u \in User : queue'[u] = queue[u]
  BY <1>1, <1>2, <1>4, NoUserAssumption DEF Someone
<1>6. /\ \A i \in DOMAIN queue[NoUser] :
             i \in DOMAIN queue'[NoUser] /\ queue'[NoUser][i] = queue[NoUser][i]
      /\ \A i \in DOMAIN queue'[NoUser] :
             \/ i \in DOMAIN queue[NoUser] /\ queue'[NoUser][i] = queue[NoUser][i]
             \/ queue'[NoUser][i] = w
      /\ \E i \in DOMAIN queue'[NoUser] : queue'[NoUser][i] = w
  <2>1. /\ Len(queue[NoUser]) \in Nat /\ DOMAIN queue[NoUser] = 1..Len(queue[NoUser])
        /\ DOMAIN queue'[NoUser] = 1..(Len(queue[NoUser]) + 1)
        /\ queue'[NoUser][Len(queue[NoUser]) + 1] = w
        /\ \A i \in 1..Len(queue[NoUser]) : queue'[NoUser][i] = queue[NoUser][i]
    BY <1>3, <1>4, <1>5
  <2> DEFINE n == Len(queue[NoUser])
  <2>2. n \in Nat /\ n + 1 \in 1..(n + 1)
    BY <2>1
  <2> QED
    BY <2>1, <2>2
<1>7. /\ Asking("created") = {} /\ Asking("created")' = {} /\ Asking("deleted")' = {}
      /\ \A d \in Asking("deleted") : d.person = c.person
  BY <1>1, <1>2 DEF Asking
<1>8. MissingRecords'
  BY <1>2, <1>4, <1>5, <1>7 DEF RecordInv, MissingRecords
<1>9. LeftRecords'
  BY <1>2, <1>3, <1>6, <1>7 DEF RecordInv, LeftRecords
<1>10. \A i \in DOMAIN queue'[NoUser] : queue'[NoUser][i].of \in issued' \ accounts'
  BY <1>1, <1>2, <1>3, <1>6 DEF RecordInv
<1> QED
  BY <1>1, <1>2, <1>7, <1>8, <1>9, <1>10 DEF RecordInv

LEMMA RecordCommit ==
    ASSUME RecordInv, OwnInv', writeCommitted
    PROVE  RecordInv'
<1> DEFINE w == Head(queue[authUser])
<1>1. /\ queue[authUser] # <<>> /\ queue' = [queue EXCEPT ![authUser] = Tail(@)]
      /\ records' = IF w.op = "set" THEN records \cup {w.of} ELSE records \ {w.of}
      /\ UNCHANGED <<accounts, issued, authUser, calls>>
  BY DEF writeCommitted
<1>2. /\ authUser \in Someone /\ Len(queue[authUser]) \in Nat \ {0}
      /\ 1 \in DOMAIN queue[authUser] /\ w = queue[authUser][1]
      /\ Len(queue'[authUser]) = Len(queue[authUser]) - 1
      /\ DOMAIN queue[authUser] = 1..Len(queue[authUser])
      /\ DOMAIN queue'[authUser] = 1..Len(queue'[authUser])
      /\ \A i \in DOMAIN queue'[authUser] :
             i + 1 \in DOMAIN queue[authUser] /\ queue'[authUser][i] = queue[authUser][i + 1]
      /\ \A u \in Someone \ {authUser} : queue'[u] = queue[u]
  BY <1>1, DequeuedOwn DEF RecordInv
<1> HIDE DEF w
<1>3. accounts \subseteq issued /\ issued \subseteq User
  BY DEF RecordInv, OwnInv, SessionInv, TypeOK
<1>4. Asking("created")' = Asking("created") /\ Asking("deleted")' = Asking("deleted")
  BY <1>1 DEF Asking
<1>5. CASE authUser \in User
  <2>1. w.op = "set" /\ w.of = authUser
    BY <1>2, <1>5 DEF RecordInv, OwnInv, OwnQueues
  <2>2. authUser # NoUser /\ authUser \in accounts /\ records' = records \cup {authUser}
    BY <1>1, <1>5, <2>1, NoUserAssumption DEF RecordInv
  <2>3. queue'[NoUser] = queue[NoUser]
    BY <1>2, <2>2 DEF Someone
  <2>4. MissingRecords'
    BY <1>1, <1>2, <1>3, <1>4, <2>2 DEF RecordInv, MissingRecords, Someone
  <2>5. LeftRecords'
    BY <1>1, <1>4, <2>2, <2>3 DEF RecordInv, LeftRecords
  <2> QED
    <3>1. records' \subseteq issued' /\ authUser' \in accounts' \cup {NoUser}
      BY <1>1, <1>3, <2>2 DEF RecordInv
    <3>2. /\ \A i \in DOMAIN queue'[NoUser] : queue'[NoUser][i].of \in issued' \ accounts'
          /\ \A c \in Asking("deleted")' : c.person \in issued' \ accounts'
      BY <1>1, <1>4, <2>3 DEF RecordInv
    <3> QED
      BY <2>4, <2>5, <3>1, <3>2 DEF RecordInv
<1>6. CASE authUser = NoUser
  <2>1. w.op = "delete" /\ w.of \in issued \ accounts
    BY <1>2, <1>6 DEF RecordInv, OwnInv, OwnQueues
  <2>2. records' = records \ {w.of}
    BY <1>1, <2>1
  <2>3. \A u \in User : queue'[u] = queue[u]
    BY <1>2, <1>6, NoUserAssumption DEF Someone
  <2>4. MissingRecords'
    <3> SUFFICES ASSUME NEW u \in accounts, u \notin records'
                 PROVE  queue'[u] # <<>> \/ \E c \in Asking("created")' : c.user = u
      BY <1>1 DEF MissingRecords
    <3>1. u # w.of /\ u \in User /\ u \notin records
      BY <1>3, <2>1, <2>2
    <3>2. queue[u] # <<>> \/ \E c \in Asking("created") : c.user = u
      BY <3>1 DEF RecordInv, MissingRecords
    <3> QED
      BY <1>4, <2>3, <3>1, <3>2
  <2>5. LeftRecords'
    <3> SUFFICES ASSUME NEW u \in records \ accounts, u # w.of,
                        NEW i \in DOMAIN queue[NoUser], queue[NoUser][i].of = u
                 PROVE  \E j \in DOMAIN queue'[NoUser] : queue'[NoUser][j].of = u
      BY <1>1, <1>4, <2>2 DEF RecordInv, LeftRecords
    <3> DEFINE m == Len(queue[authUser])
    <3>1. m \in Nat /\ i \in 1..m /\ i # 1 /\ DOMAIN queue'[NoUser] = 1..(m - 1)
      BY <1>2, <1>6
    <3> HIDE DEF m
    <3>2. i - 1 \in DOMAIN queue'[NoUser] /\ (i - 1) + 1 = i
      BY <3>1
    <3>3. queue'[NoUser][i - 1] = queue[NoUser][i]
      BY <1>2, <1>6, <3>2
    <3> QED
      BY <3>2, <3>3
  <2>6. \A i \in DOMAIN queue'[NoUser] : queue'[NoUser][i].of \in issued' \ accounts'
    BY <1>1, <1>2, <1>6 DEF RecordInv
  <2> QED
    BY <1>1, <1>4, <2>2, <2>4, <2>5, <2>6 DEF RecordInv
<1> QED
  BY <1>2, <1>5, <1>6 DEF Someone

LEMMA RecordRelaunch ==
    ASSUME RecordInv, OwnInv', ~KilledMidway, relaunch
    PROVE  RecordInv'
<1>1. /\ queue \in [Someone -> Seq(Write)] /\ calls' \subseteq Call
      /\ User \subseteq Someone /\ NoUser \in Someone
  BY DEF RecordInv, OwnInv, SessionInv, TypeOK, Someone
<1>2. calls = {} /\ UNCHANGED <<accounts, issued, records, authUser>>
      /\ \A c \in calls' : c.kind = "launch"
  BY DEF relaunch, Ask
<1>3. SameCalls
  BY <1>1, <1>2 DEF SameCalls
<1>4. ASSUME NEW u \in Someone
      PROVE  /\ DOMAIN queue'[u] = DOMAIN queue[u]
             /\ \A i \in DOMAIN queue[u] : queue'[u][i].of = queue[u][i].of
  <2>1. queue[u] \in Seq(Write)
    BY <1>1
  <2>2. \A i \in DOMAIN queue[u] : queue[u][i] \in Write
    BY <2>1
  <2> QED
    BY <2>2 DEF relaunch, Write
<1>5. \A u \in User : queue[u] # <<>> => queue'[u] # <<>>
  <2> SUFFICES ASSUME NEW u \in User, queue[u] # <<>> PROVE queue'[u] # <<>>
    OBVIOUS
  <2>1. queue[u] \in Seq(Write) /\ DOMAIN queue'[u] = DOMAIN queue[u]
    BY <1>1, <1>4
  <2>2. 1 \in DOMAIN queue[u]
    BY <2>1, TailFacts
  <2> QED
    BY <2>1, <2>2
<1>6. SameDeletions
  BY <1>1, <1>4 DEF SameDeletions
<1> QED
  BY <1>2, <1>3, <1>5, <1>6, RecordQuiet DEF RecordInv

LEMMA RecordNext ==
    ASSUME RecordInv, Patient, ~Failures, ~KilledMidway, [Next]_vars
    PROVE  RecordInv'
<1>1. OwnInv'
  BY OwnNext DEF RecordInv
<1>2. CASE UNCHANGED vars
  BY <1>1, <1>2 DEF vars, RecordInv, MissingRecords, LeftRecords, Asking
<1>3. CASE Tap
  BY <1>1, <1>3, RecordTap
<1>4. ASSUME NEW c \in calls, Answer(c) PROVE RecordInv'
  BY <1>1, <1>4, RecordAnswered, RecordAccountCreated, RecordRecordCreated,
     RecordAccountDeleted, RecordRecordDeleted DEF Answer
<1>5. CASE writeCommitted
  BY <1>1, <1>5, RecordCommit
<1>6. CASE relaunch
  BY <1>1, <1>6, RecordRelaunch
<1> QED
  BY <1>2, <1>3, <1>4, <1>5, <1>6 DEF Next, writeRejected

LEMMA RecordInit ==
    ASSUME Init
    PROVE  RecordInv
<1>1. OwnInv
  BY OwnInit
<1>2. /\ records = accounts /\ issued = accounts /\ authUser \in accounts \cup {NoUser}
      /\ Asking("deleted") = {} /\ DOMAIN queue[NoUser] = {}
  BY DEF Init, Asking, Ask, Someone
<1> QED
  BY <1>1, <1>2 DEF RecordInv, MissingRecords, LeftRecords

\* When nothing is asked or queued any more, every account has its record and every
\* record its account (createAccount, deleteUser and their blocks), if the user waits for
\* answers, the backend refuses nothing and the app is not killed between the answer of
\* Auth and the block that goes on with it.
THEOREM RecordsFollowAccounts ==
    ASSUME Patient, ~Failures, ~KilledMidway
    PROVE  Spec => []AccountsHaveRecords
<1>1. Init => RecordInv
  BY RecordInit
<1>2. RecordInv /\ [Next]_vars => RecordInv'
  BY RecordNext
<1>3. RecordInv => AccountsHaveRecords
  <2> SUFFICES ASSUME RecordInv, calls = {}, \A u \in accounts \cup {NoUser} : queue[u] = <<>>
               PROVE  records = accounts
    BY DEF AccountsHaveRecords
  <2>1. Asking("created") = {} /\ Asking("deleted") = {} /\ DOMAIN queue[NoUser] = {}
    BY DEF Asking
  <2>2. accounts \subseteq records /\ records \subseteq accounts
    BY <2>1 DEF RecordInv, MissingRecords, LeftRecords
  <2> QED
    BY <2>2
<1> QED
  BY <1>1, <1>2, <1>3, PTL DEF Spec

=============================================================================
