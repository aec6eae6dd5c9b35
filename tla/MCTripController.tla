--------------------------- MODULE MCTripController ---------------------------
(***************************************************************************)
(* TripController for TLC: the host's contacts, and the document keys.      *)
(***************************************************************************)
EXTENDS TripController, TLC

CONSTANTS a, b, t1, t2

\* The users see each other in the table of the create-trip screen.
EachOther == a :> {b} @@ b :> {a}

TripOrUser == Trip \cup User

=============================================================================
