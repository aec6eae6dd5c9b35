----------------------------- MODULE MCRemoteStore -----------------------------
(***************************************************************************)
(* RemoteStore for TLC.                                                    *)
(***************************************************************************)
EXTENDS RemoteStore, TLC

CONSTANTS u1, u2

=============================================================================
