-------------------------- MODULE MCDurableLedger --------------------------
(***************************************************************************)
(* Small instances of DurableLedger for TLC.                               *)
(***************************************************************************)
EXTENDS DurableLedger, TLC

CONSTANTS agent, k1, k2

Kinds == agent :> "agent"
Lanes == "reserve" :> "agent"

\* A reservation that the ledger affords twice.
AffordsTwo(applied, entry) == Len(applied) < 2

Asks(k) == [principal |-> agent, key |-> k, body |-> "reserve", expected |-> None]

OneSubmission == {Asks(k1)}
TwoSubmissions == {Asks(k1), Asks(k2)}

\* The third reuses the request id of the first for something else.
ThreeSubmissions == TwoSubmissions \cup {[Asks(k1) EXCEPT !.expected = 0]}

\* Each call is made when the one before it has been answered, and handles are used in
\* one order too.
CallOrder == SetToSeq(Calls)
HandleOrder == SetToSeq(Handles)

OneByOne ==
  /\ \A n \in 2 .. Len(CallOrder) : call[CallOrder[n]].phase # "idle" => Answered(CallOrder[n - 1])
  /\ \A n \in 2 .. Len(HandleOrder) :
       handle[HandleOrder[n]].state # "unused" => handle[HandleOrder[n - 1]].state # "unused"

Symmetry == Permutations(Processes) \cup Permutations(Handles) \cup Permutations(Calls)
=============================================================================
