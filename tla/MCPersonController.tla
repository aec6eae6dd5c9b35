-------------------------- MODULE MCPersonController --------------------------
(***************************************************************************)
(* PersonController for TLC: who owns which device and what its user does. *)
(***************************************************************************)
EXTENDS PersonController, TLC

CONSTANTS a, b, c, a1, b1, n1, n2

\* The users a and b have one device each.
OneEach == a1 :> a @@ b1 :> b

\* Bounds on the outstanding writes and the waiting blocks: the device under study has
\* the longer queue.
TwoAndOne == [d \in Device |-> IF d = a1 THEN 2 ELSE 1]
OneEverywhere == [d \in Device |-> 1]

\* What the users do: the user of a1 does everything, and the others look people up.
OneDoesAll == [d \in Device |-> IF d = a1 THEN Feature ELSE {"search"}]
\* Two devices add people; a1 also reloads its record and empties its invitation
\* list, which writes the whole record back.
BothAdd == [d \in Device |-> IF d = a1 THEN {"search", "settings", "trip"}
                             ELSE {"search", "settings"}]

UserOrPhone == User \cup Phone

=============================================================================
