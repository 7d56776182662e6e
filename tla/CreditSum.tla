----------------------------- MODULE CreditSum -----------------------------
(***************************************************************************)
(* Sums of credit amounts.                                                 *)
(*                                                                         *)
(* The ledger engine adds up integer amounts kept in its tables (what is   *)
(* held per assignment, owed per invoice, in flight per attempt).  Such a  *)
(* table is a function into the naturals, and its sum is defined here by   *)
(* counting: every unit of credit recorded under a key is a token, and the *)
(* sum is the number of tokens.  A sum defined this way needs no           *)
(* recursion, so that facts about it can be proved from the cardinality of *)
(* finite sets.                                                            *)
(***************************************************************************)
EXTENDS Naturals, FiniteSets

\* The credit tokens a table holds: <<x, k>> is the k-th credit kept under x.
TokensAt(f, x) == {x} \X (1 .. f[x])

Tokens(f) == UNION {TokensAt(f, x) : x \in DOMAIN f}

\* values.reduce((n, v) => n + f(v), 0), over a table of natural numbers.
TotalOf(f) == Cardinality(Tokens(f))
=============================================================================
