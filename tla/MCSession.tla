------------------------------- MODULE MCSession -------------------------------
(***************************************************************************)
(* Session for TLC.                                                        *)
(***************************************************************************)
EXTENDS Session, TLC

CONSTANTS a, b

\* Nothing tells one UID from another; used where only invariants are checked.
UsersAlike == Permutations(User)

=============================================================================
