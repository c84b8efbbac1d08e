----------------------------- MODULE MCBackoff ------------------------------
(* Finite instances of Backoff for TLC.                                    *)
EXTENDS Backoff
=============================================================================
