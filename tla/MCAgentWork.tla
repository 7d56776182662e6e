---------------------------- MODULE MCAgentWork ----------------------------
(***************************************************************************)
(* Small instances of AgentWork for TLC.                                   *)
(***************************************************************************)
EXTENDS AgentWork, TLC

CONSTANTS w1, w2, s1, s2, alice, bob, v1, v2

\* Two assignments of two customers whose ceilings together exceed the budget.
SpendListing == (w1 :> [scope |-> s1, criteriaRevision |-> v1, reward |-> 1, costCeiling |-> 2, deadlineTick |-> 1, packetFits |-> TRUE])
             @@ (w2 :> [scope |-> s2, criteriaRevision |-> v2, reward |-> 1, costCeiling |-> 2, deadlineTick |-> 2, packetFits |-> TRUE])

\* One assignment whose reward takes two payments.
EarnListing == w1 :> [scope |-> s1, criteriaRevision |-> v1, reward |-> 3, costCeiling |-> 1, deadlineTick |-> 1, packetFits |-> TRUE]

\* One assignment that costs nothing and earns what the other one needs.
ShortfallListing == (w1 :> [scope |-> s1, criteriaRevision |-> v1, reward |-> 2, costCeiling |-> 0, deadlineTick |-> 1, packetFits |-> TRUE])
                 @@ (w2 :> [scope |-> s1, criteriaRevision |-> v1, reward |-> 1, costCeiling |-> 2, deadlineTick |-> 1, packetFits |-> TRUE])

OneScope == s1 :> [customer |-> alice, maxCost |-> 2, maxReward |-> 3]

TwoScopes == OneScope @@ (s2 :> [customer |-> bob, maxCost |-> 2, maxReward |-> 1])

Symmetry == Permutations(AttemptIds) \cup Permutations(PaymentIds) \cup Permutations(ReceiptIds)
=============================================================================
