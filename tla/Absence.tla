------------------------------ MODULE Absence -------------------------------
(***************************************************************************)
(* The mark for what is not there, in the audit chain and in the store     *)
(* that keeps it: undefined and null of the source.                        *)
(***************************************************************************)
CONSTANT None
=============================================================================
