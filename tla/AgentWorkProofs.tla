-------------------------- MODULE AgentWorkProofs --------------------------
(***************************************************************************)
(* Proofs about AgentWork, for any catalog, any number of attempts and     *)
(* payments, and any amounts.                                              *)
(*                                                                         *)
(* The theorems are stated of SpecApply, the reducer without the backstop  *)
(* of transact(), and carry over to Spec, whose steps are fewer.           *)
(***************************************************************************)
EXTENDS AgentWork, FiniteSetTheorems, TLAPS

\* Reservations follow the stages: none before an assignment is agreed, and an
\* assignment whose work may be spent on has one.
CommitmentFollowsStage ==
  \A w \in Works :
    /\ works[w].stage \in {"ABSENT", "DISCOVERED", "SCOPED"} => works[w].commitment = "ABSENT"
    /\ works[w].commitment = "ABSENT" => works[w].held = 0

\* An attempt that was begun is for a known assignment.
AttemptsHaveTargets ==
  \A a \in AttemptIds : attempts[a].status # "ABSENT" => attempts[a].target \in Works

\* The inductive invariant behind the types: a held amount stays a natural number only
\* because it covers what the rail may still settle.
IInv ==
  /\ TypeOK
  /\ CommitmentFollowsStage
  /\ AttemptsHaveTargets
  /\ HeldCoversInFlight

-----------------------------------------------------------------------------
(***************************************************************************)
(* Sums of credit amounts: they are natural numbers, they change by what   *)
(* one entry changes by, they cover every entry, and they are monotone.    *)
(***************************************************************************)
\* The tokens kept under one key are as many as the amount kept there.
LEMMA TokensAtCount ==
  ASSUME NEW S, NEW f \in [S -> Nat], NEW x \in S
  PROVE  /\ IsFiniteSet(TokensAt(f, x))
         /\ Cardinality(TokensAt(f, x)) = f[x]
<1>1. f[x] \in Nat
  OBVIOUS
<1>2. IsFiniteSet({x}) /\ Cardinality({x}) = 1
  BY FS_Singleton, Zenon
<1>3. IsFiniteSet(1 .. f[x]) /\ Cardinality(1 .. f[x]) = f[x]
  BY <1>1, FS_Interval
<1>4. /\ IsFiniteSet({x} \X (1 .. f[x]))
      /\ Cardinality({x} \X (1 .. f[x])) = Cardinality({x}) * Cardinality(1 .. f[x])
  BY <1>2, <1>3, FS_Product, Zenon
<1>5. 1 * f[x] = f[x]
  BY <1>1
<1> QED
  BY <1>2, <1>3, <1>4, <1>5 DEF TokensAt

\* A finite table holds finitely many tokens, and its total is a natural number.
LEMMA TotalType ==
  ASSUME NEW S, IsFiniteSet(S), NEW f \in [S -> Nat]
  PROVE  /\ IsFiniteSet(Tokens(f))
         /\ TotalOf(f) \in Nat
<1> DEFINE Groups == {TokensAt(f, x) : x \in S}
           g == [x \in S |-> TokensAt(f, x)]
<1>1. g \in Surjection(S, Groups)
  BY DEF Surjection
<1>2. IsFiniteSet(Groups)
  BY <1>1, FS_Surjection
<1>3. \A T \in Groups : IsFiniteSet(T)
  BY TokensAtCount
<1>4. Tokens(f) = UNION Groups
  BY DEF Tokens
<1>5. IsFiniteSet(Tokens(f))
  BY <1>2, <1>3, <1>4, FS_UNION
<1> QED
  BY <1>5, FS_CardinalityType DEF TotalOf

\* The total is one entry plus the total of the others.
LEMMA TotalSplit ==
  ASSUME NEW S, IsFiniteSet(S), NEW f \in [S -> Nat], NEW x \in S
  PROVE  TotalOf(f) = f[x] + TotalOf([f EXCEPT ![x] = 0])
<1> DEFINE g == [f EXCEPT ![x] = 0]
<1>1. g \in [S -> Nat]
  OBVIOUS
<1>2. Tokens(f) = TokensAt(f, x) \cup Tokens(g)
  BY DEF Tokens, TokensAt
<1>3. TokensAt(f, x) \cap Tokens(g) = {}
  BY DEF Tokens, TokensAt
<1>4. IsFiniteSet(TokensAt(f, x)) /\ Cardinality(TokensAt(f, x)) = f[x]
  BY TokensAtCount
<1>5. IsFiniteSet(Tokens(g)) /\ TotalOf(g) \in Nat
  BY <1>1, TotalType
<1>6. Cardinality(TokensAt(f, x) \cup Tokens(g)) =
        Cardinality(TokensAt(f, x)) + Cardinality(Tokens(g)) - Cardinality(TokensAt(f, x) \cap Tokens(g))
  BY <1>4, <1>5, FS_Union, Zenon
<1>7. Cardinality({}) = 0
  BY FS_EmptySet
<1>8. f[x] \in Nat /\ Cardinality(Tokens(g)) \in Nat
  BY <1>5 DEF TotalOf
<1>9. Cardinality(Tokens(f)) = f[x] + Cardinality(Tokens(g)) - 0
  BY <1>2, <1>3, <1>4, <1>6, <1>7
<1> HIDE DEF g
<1> QED
  BY <1>8, <1>9 DEF TotalOf, g

\* Tables that agree but for one entry have totals that differ by that entry.
LEMMA TotalUpdate ==
  ASSUME NEW S, IsFiniteSet(S), NEW f \in [S -> Nat], NEW h \in [S -> Nat], NEW x \in S,
         \A y \in S \ {x} : h[y] = f[y]
  PROVE  TotalOf(h) + f[x] = TotalOf(f) + h[x]
<1> DEFINE g == [f EXCEPT ![x] = 0]
<1>1. g \in [S -> Nat] /\ h[x] \in Nat /\ f[x] \in Nat
  OBVIOUS
<1>2. [h EXCEPT ![x] = 0] = g
  OBVIOUS
<1>3. TotalOf(f) = f[x] + TotalOf(g)
  BY TotalSplit
<1>4. TotalOf(h) = h[x] + TotalOf(g)
  <2>1. TotalOf(h) = h[x] + TotalOf([h EXCEPT ![x] = 0])
    BY TotalSplit, Zenon
  <2> QED
    BY <1>2, <2>1
<1>5. TotalOf(g) \in Nat
  BY <1>1, TotalType
<1> HIDE DEF g
<1> QED
  BY <1>1, <1>3, <1>4, <1>5

\* A table no larger than another, entry by entry, has no larger a total.
LEMMA TotalMonotone ==
  ASSUME NEW S, IsFiniteSet(S), NEW f \in [S -> Nat], NEW g \in [S -> Nat],
         \A x \in S : f[x] <= g[x]
  PROVE  TotalOf(f) <= TotalOf(g)
<1>1. Tokens(f) \subseteq Tokens(g)
  BY DEF Tokens, TokensAt
<1>2. IsFiniteSet(Tokens(g))
  BY TotalType
<1> QED
  BY <1>1, <1>2, FS_Subset DEF TotalOf

\* The total covers each entry.
LEMMA TotalCovers ==
  ASSUME NEW S, IsFiniteSet(S), NEW f \in [S -> Nat], NEW x \in S
  PROVE  f[x] <= TotalOf(f)
<1> DEFINE g == [f EXCEPT ![x] = 0]
<1>1. g \in [S -> Nat] /\ f[x] \in Nat
  OBVIOUS
<1>2. TotalOf(f) = f[x] + TotalOf(g)
  BY TotalSplit
<1>3. TotalOf(g) \in Nat
  BY <1>1, TotalType
<1> QED
  BY <1>1, <1>2, <1>3

\* A table of zeros totals zero.
LEMMA TotalZero ==
  ASSUME NEW S, NEW f \in [S -> Nat], \A x \in S : f[x] = 0
  PROVE  TotalOf(f) = 0
<1>1. \A x \in S : TokensAt(f, x) = {}
  BY DEF TokensAt
<1>2. Tokens(f) = {}
  BY <1>1 DEF Tokens
<1> QED
  BY <1>2, FS_EmptySet DEF TotalOf

\* A token is a key with a number up to the amount kept there.
LEMMA TokenShape ==
  ASSUME NEW S, NEW f \in [S -> Nat], NEW t
  PROVE  t \in Tokens(f) <=> \E x \in S : \E k \in 1 .. f[x] : t = <<x, k>>
BY DEF Tokens, TokensAt

\* The total of a table that is the sum of two others, entry by entry, is the sum of their
\* totals: its tokens are those of the one and, numbered on, those of the other.
LEMMA TotalSum ==
  ASSUME NEW S, IsFiniteSet(S), NEW f \in [S -> Nat], NEW g \in [S -> Nat], NEW h \in [S -> Nat],
         \A x \in S : h[x] = f[x] + g[x]
  PROVE  TotalOf(h) = TotalOf(f) + TotalOf(g)
<1> DEFINE shift == [t \in Tokens(g) |-> <<t[1], t[2] + f[t[1]]>>]
           Shifted == {shift[t] : t \in Tokens(g)}
<1>1. \A x \in S : f[x] \in Nat /\ g[x] \in Nat /\ h[x] \in Nat
  OBVIOUS
<1>2. \A x \in S : \A k \in 1 .. g[x] : <<x, k>> \in Tokens(g) /\ shift[<<x, k>>] = <<x, k + f[x]>>
  BY TokenShape
<1>3. shift \in Bijection(Tokens(g), Shifted)
  <2>1. shift \in [Tokens(g) -> Shifted]
    OBVIOUS
  <2>2. ASSUME NEW t \in Tokens(g), NEW u \in Tokens(g), shift[t] = shift[u]
        PROVE  t = u
    <3>1. PICK x, k : x \in S /\ k \in 1 .. g[x] /\ t = <<x, k>>
      BY TokenShape
    <3>2. PICK y, l : y \in S /\ l \in 1 .. g[y] /\ u = <<y, l>>
      BY TokenShape
    <3>3. <<x, k + f[x]>> = <<y, l + f[y]>>
      BY <1>2, <2>2, <3>1, <3>2
    <3> QED
      BY <1>1, <3>1, <3>2, <3>3
  <2> HIDE DEF shift
  <2>3. \A y \in Shifted : \E t \in Tokens(g) : shift[t] = y
    OBVIOUS
  <2> QED
    BY <2>1, <2>2, <2>3, Zenon DEF Bijection, Injection, IsInjective, Surjection
<1>4. \A t : t \in Shifted <=> \E x \in S : \E k \in 1 .. g[x] : t = <<x, k + f[x]>>
  <2>1. \A t : t \in Shifted <=> \E u \in Tokens(g) : t = shift[u]
    OBVIOUS
  <2> HIDE DEF shift, Shifted
  <2>2. \A u : u \in Tokens(g) <=> \E x \in S : \E k \in 1 .. g[x] : u = <<x, k>>
    BY TokenShape
  <2>3. ASSUME NEW t, t \in Shifted
        PROVE  \E x \in S : \E k \in 1 .. g[x] : t = <<x, k + f[x]>>
    <3>1. PICK u \in Tokens(g) : t = shift[u]
      BY <2>1, <2>3
    <3>2. PICK x, k : x \in S /\ k \in 1 .. g[x] /\ u = <<x, k>>
      BY <2>2
    <3> QED
      BY <1>2, <3>1, <3>2
  <2>4. ASSUME NEW x \in S, NEW k \in 1 .. g[x]
        PROVE  <<x, k + f[x]>> \in Shifted
    BY <1>2, <2>1
  <2> QED
    BY <2>3, <2>4
<1>5. \A t : /\ t \in Tokens(f) <=> \E x \in S : \E k \in 1 .. f[x] : t = <<x, k>>
            /\ t \in Tokens(h) <=> \E x \in S : \E k \in 1 .. h[x] : t = <<x, k>>
  BY TokenShape
<1> HIDE DEF shift, Shifted
<1>6. Tokens(h) = Tokens(f) \cup Shifted
  <2>1. ASSUME NEW t, t \in Shifted
        PROVE  t \in Tokens(h)
    <3>1. PICK x, k : x \in S /\ k \in 1 .. g[x] /\ t = <<x, k + f[x]>>
      BY <1>4, <2>1
    <3>2. k + f[x] \in 1 .. h[x]
      BY <1>1, <3>1
    <3> QED
      BY <1>5, <3>1, <3>2
  <2>2. ASSUME NEW t, t \in Tokens(f)
        PROVE  t \in Tokens(h)
    <3>1. PICK x, k : x \in S /\ k \in 1 .. f[x] /\ t = <<x, k>>
      BY <2>2, TokenShape
    <3>2. k \in 1 .. h[x]
      BY <1>1, <3>1
    <3> QED
      BY <1>5, <3>1, <3>2
  <2>3. ASSUME NEW t, t \in Tokens(h)
        PROVE  t \in Tokens(f) \cup Shifted
    <3>1. PICK x, k : x \in S /\ k \in 1 .. h[x] /\ t = <<x, k>>
      BY <2>3, TokenShape
    <3>2. CASE k <= f[x]
      BY <1>5, <1>1, <3>1, <3>2
    <3>3. CASE k > f[x]
      <4>1. k - f[x] \in 1 .. g[x] /\ k - f[x] + f[x] = k
        BY <1>1, <3>1, <3>3
      <4> QED
        BY <1>4, <3>1, <4>1
    <3> QED
      BY <1>1, <3>1, <3>2, <3>3
  <2> QED
    BY <2>1, <2>2, <2>3
<1>7. Tokens(f) \cap Shifted = {}
  <2> SUFFICES ASSUME NEW t \in Tokens(f), t \in Shifted
               PROVE  FALSE
    OBVIOUS
  <2>1. PICK x, k : x \in S /\ k \in 1 .. f[x] /\ t = <<x, k>>
    BY TokenShape
  <2>2. PICK y, l : y \in S /\ l \in 1 .. g[y] /\ t = <<y, l + f[y]>>
    BY <1>4
  <2>3. x = y /\ k = l + f[y]
    BY <2>1, <2>2
  <2> QED
    BY <1>1, <2>1, <2>2, <2>3
<1>8. IsFiniteSet(Tokens(f)) /\ IsFiniteSet(Tokens(g)) /\ TotalOf(f) \in Nat /\ TotalOf(g) \in Nat
  BY TotalType
<1>9. IsFiniteSet(Shifted) /\ Cardinality(Shifted) = Cardinality(Tokens(g))
  BY <1>3, <1>8, FS_Bijection DEF ExistsBijection
<1>10. Cardinality(Tokens(f) \cup Shifted) =
        Cardinality(Tokens(f)) + Cardinality(Shifted) - Cardinality(Tokens(f) \cap Shifted)
  BY <1>8, <1>9, FS_Union, Zenon
<1>11. Cardinality(Tokens(h)) = Cardinality(Tokens(f)) + Cardinality(Tokens(g)) - Cardinality({})
  BY <1>6, <1>7, <1>9, <1>10
<1>12. Cardinality({}) = 0
  BY FS_EmptySet
<1>13. Cardinality(Tokens(f)) \in Nat /\ Cardinality(Tokens(g)) \in Nat
  BY <1>8 DEF TotalOf
<1> QED
  BY <1>11, <1>12, <1>13 DEF TotalOf

-----------------------------------------------------------------------------
(***************************************************************************)
(* The sums of the ledger.                                                 *)
(***************************************************************************)
LEMMA InFlightType ==
  ASSUME ConfigAssumption, TypeOK, NEW w
  PROVE  /\ InFlightTable(w) \in [AttemptIds -> Nat]
         /\ InFlight(w) \in Nat
<1>1. InFlightTable(w) \in [AttemptIds -> Nat]
  BY DEF TypeOK, Attempt, InFlightTable
<1>2. IsFiniteSet(AttemptIds)
  BY DEF ConfigAssumption
<1> QED
  BY <1>1, <1>2, TotalType DEF InFlight

\* Tables of attempts, or of assignments, that differ in one entry.
LEMMA AttemptTableUpdate ==
  ASSUME NEW a \in AttemptIds, NEW f \in [AttemptIds -> Nat], NEW h \in [AttemptIds -> Nat],
         \A b \in AttemptIds \ {a} : h[b] = f[b]
  PROVE  TotalOf(h) + f[a] = TotalOf(f) + h[a]
BY ConfigAssumption, TotalUpdate DEF ConfigAssumption

LEMMA WorkTableUpdate ==
  ASSUME NEW w \in Works, NEW f \in [Works -> Nat], NEW h \in [Works -> Nat],
         \A v \in Works \ {w} : h[v] = f[v]
  PROVE  TotalOf(h) + f[w] = TotalOf(f) + h[w]
BY ConfigAssumption, TotalUpdate DEF ConfigAssumption

LEMMA InFlightTypeNext ==
  ASSUME ConfigAssumption, TypeOK', NEW w
  PROVE  /\ InFlightTable(w)' \in [AttemptIds -> Nat]
         /\ InFlight(w)' \in Nat
<1>1. InFlightTable(w)' \in [AttemptIds -> Nat]
  BY DEF TypeOK, Attempt, InFlightTable
<1>2. IsFiniteSet(AttemptIds)
  BY DEF ConfigAssumption
<1> QED
  BY <1>1, <1>2, TotalType DEF InFlight

LEMMA CommitmentsType ==
  ASSUME ConfigAssumption, TypeOK
  PROVE  /\ HeldTable \in [Works -> Nat]
         /\ Commitments \in Nat
<1>1. HeldTable \in [Works -> Nat]
  BY DEF TypeOK, Work, HeldTable
<1>2. IsFiniteSet(Works)
  BY DEF ConfigAssumption
<1> QED
  BY <1>1, <1>2, TotalType DEF Commitments

\* A spend that is not settled is part of what its assignment has in flight.
LEMMA InFlightCoversAttempt ==
  ASSUME ConfigAssumption, TypeOK, NEW a \in AttemptIds,
         attempts[a].kind = "SPEND", Pending(a)
  PROVE  attempts[a].amount <= InFlight(attempts[a].target)
<1> DEFINE w == attempts[a].target
<1>1. InFlightTable(w) \in [AttemptIds -> Nat] /\ IsFiniteSet(AttemptIds)
  BY InFlightType DEF ConfigAssumption
<1>2. InFlightTable(w)[a] = attempts[a].amount
  BY DEF InFlightTable
<1> QED
  BY <1>1, <1>2, TotalCovers DEF InFlight

\* Closing an assignment keeps the shape of its entry and reserves what is in flight.
LEMMA ClosedFacts ==
  ASSUME ConfigAssumption, IInv, NEW w \in Works, NEW stage \in Stages
  PROVE  LET c == Closed(w, stage)
         IN  /\ c \in Work
             /\ c.stage = stage
             /\ c.held = InFlight(w)
             /\ c.commitment # "OPEN"
             /\ c.commitment = "ABSENT" <=> works[w].commitment = "ABSENT"
             /\ c.commitment = "ABSENT" => c.held = 0
<1>1. works[w] \in Work /\ InFlight(w) \in Nat
  BY InFlightType DEF IInv, TypeOK
<1>2. CASE works[w].commitment = "ABSENT"
  BY <1>1, <1>2 DEF Closed, Work, IInv, CommitmentFollowsStage, HeldCoversInFlight
<1>3. CASE works[w].commitment # "ABSENT"
  BY <1>1, <1>3 DEF Closed, Work
<1> QED
  BY <1>2, <1>3
-----------------------------------------------------------------------------
(***************************************************************************)
(* The inductive invariant.                                                *)
(***************************************************************************)
LEMMA InitIInv ==
  ASSUME ConfigAssumption, Init
  PROVE  IInv
<1>1. TypeOK
  BY DEF Init, TypeOK, Work, Invoice, Attempt, Obligation, Payment, Stages,
         NoWork, NoInvoice, NoAttempt, NoObligation, NoPayment
<1>2. CommitmentFollowsStage /\ AttemptsHaveTargets
  BY DEF Init, CommitmentFollowsStage, AttemptsHaveTargets, NoWork, NoAttempt
<1>3. HeldCoversInFlight
  <2> SUFFICES ASSUME NEW w \in Works
               PROVE  InFlight(w) = 0 /\ works[w].held = 0
    BY DEF HeldCoversInFlight
  <2>1. \A a \in AttemptIds : InFlightTable(w)[a] = 0
    BY DEF Init, InFlightTable, Pending, NoAttempt
  <2>2. InFlightTable(w) \in [AttemptIds -> Nat]
    BY <1>1, InFlightType
  <2>3. InFlight(w) = 0
    BY <2>1, <2>2, TotalZero DEF InFlight
  <2> QED
    BY <2>3 DEF Init, NoWork
<1> QED
  BY <1>1, <1>2, <1>3 DEF IInv

\* What an assignment has in flight depends on the attempts alone.
LEMMA InFlightStable ==
  ASSUME NEW w, UNCHANGED attempts
  PROVE  InFlight(w)' = InFlight(w)
BY DEF InFlight, InFlightTable, Pending

\* A step that leaves the attempts alone and gives one assignment a lawful entry.
LEMMA WorkStep ==
  ASSUME ConfigAssumption, IInv, NEW w \in Works, NEW e \in Work,
         works' = [works EXCEPT ![w] = e],
         UNCHANGED <<tick, revokedScopes, invoices, attempts, obligations, payments, totals>>,
         e.stage \in {"ABSENT", "DISCOVERED", "SCOPED"} => e.commitment = "ABSENT",
         e.commitment = "ABSENT" => e.held = 0,
         InFlight(w) <= e.held,
         e.commitment # "OPEN" => e.held = InFlight(w)
  PROVE  IInv'
<1>1. TypeOK'
  BY DEF IInv, TypeOK, totals
<1>2. CommitmentFollowsStage'
  BY DEF IInv, TypeOK, CommitmentFollowsStage
<1>3. AttemptsHaveTargets'
  BY DEF IInv, AttemptsHaveTargets
<1>4. HeldCoversInFlight'
  <2> SUFFICES ASSUME NEW v \in Works
               PROVE  /\ InFlight(v) <= works'[v].held
                      /\ works'[v].commitment # "OPEN" => works'[v].held = InFlight(v)
    BY InFlightStable DEF HeldCoversInFlight
  <2> QED
    BY DEF IInv, TypeOK, HeldCoversInFlight
<1> QED
  BY <1>1, <1>2, <1>3, <1>4 DEF IInv

\* A step that leaves the assignments and the attempts alone.
LEMMA OtherStep ==
  ASSUME IInv, UNCHANGED <<works, attempts>>, TypeOK'
  PROVE  IInv'
<1>1. CommitmentFollowsStage' /\ AttemptsHaveTargets'
  BY DEF IInv, CommitmentFollowsStage, AttemptsHaveTargets
<1>2. HeldCoversInFlight'
  BY InFlightStable DEF IInv, HeldCoversInFlight
<1> QED
  BY <1>1, <1>2 DEF IInv

\* A step that moves an assignment to another stage and leaves its reservation alone.
LEMMA RelabelStep ==
  ASSUME ConfigAssumption, IInv, NEW w \in Works, NEW e \in Work,
         works' = [works EXCEPT ![w] = e],
         UNCHANGED <<tick, revokedScopes, invoices, attempts, obligations, payments, totals>>,
         e.held = works[w].held,
         e.commitment = works[w].commitment,
         e.stage \in {"ABSENT", "DISCOVERED", "SCOPED"} => works[w].commitment = "ABSENT"
  PROVE  IInv'
<1>1. /\ e.commitment = "ABSENT" => e.held = 0
      /\ InFlight(w) <= e.held
      /\ e.commitment # "OPEN" => e.held = InFlight(w)
  BY DEF IInv, CommitmentFollowsStage, HeldCoversInFlight
<1> QED
  BY <1>1, WorkStep

\* A step that closes an assignment, with or without a change of stage.
LEMMA CloseStep ==
  ASSUME ConfigAssumption, IInv, NEW w \in Works, NEW stage \in Stages,
         works' = [works EXCEPT ![w] = Closed(w, stage)],
         UNCHANGED <<tick, revokedScopes, invoices, attempts, obligations, payments, totals>>,
         stage \in {"ABSENT", "DISCOVERED", "SCOPED"} => stage = works[w].stage
  PROVE  IInv'
<1> DEFINE c == Closed(w, stage)
<1>1. /\ c \in Work /\ c.stage = stage /\ c.held = InFlight(w) /\ c.commitment # "OPEN"
      /\ c.commitment = "ABSENT" <=> works[w].commitment = "ABSENT"
      /\ c.commitment = "ABSENT" => c.held = 0
  BY ClosedFacts
<1>2. works' = [works EXCEPT ![w] = c]
  OBVIOUS
<1> HIDE DEF c
<1>3. c.stage \in {"ABSENT", "DISCOVERED", "SCOPED"} => c.commitment = "ABSENT"
  BY <1>1 DEF IInv, CommitmentFollowsStage
<1>4. InFlight(w) <= c.held
  BY <1>1, InFlightType DEF IInv
<1> QED
  BY <1>1, <1>2, <1>3, <1>4, WorkStep

\* The commands that leave the attempts alone and change one assignment.
LEMMA WorkCommandsKeepIInv ==
  ASSUME ConfigAssumption, IInv, NEW w \in Works,
         \/ DiscoverWork(w) \/ ScopeAssignment(w) \/ AcceptAssignment(w) \/ BeginWork(w)
         \/ \E content \in Packets : DeliverArtifact(w, content)
         \/ CancelWork(w) \/ CloseCommitment(w) \/ ExpireWork(w)
         \/ \E c \in Customers, artifact \in Packets, digest \in ScopeDigests, revision \in Revisions :
              AcceptDelivery(c, w, artifact, digest, revision)
         \/ \E c \in Customers : RejectDelivery(c, w)
  PROVE  IInv'
<1> DEFINE old == works[w]
           e == works'[w]
<1> USE DEF totals
<1>0. /\ old \in Work /\ works \in [Works -> Work]
      /\ old.stage \in Stages
      /\ old.execution \in Packets \cup {None}
      /\ old.stage \in {"ABSENT", "DISCOVERED", "SCOPED"} => old.commitment = "ABSENT"
  BY DEF IInv, TypeOK, CommitmentFollowsStage, Work
<1>1. CASE DiscoverWork(w)
  <2>1. /\ works' = [works EXCEPT ![w] = e]
        /\ e = [old EXCEPT !.stage = "DISCOVERED"]
    BY <1>0, <1>1 DEF DiscoverWork
  <2>2. /\ e \in Work /\ e.stage = "DISCOVERED"
        /\ e.held = old.held /\ e.commitment = old.commitment
    BY <1>0, <2>1 DEF Work, Stages
  <2> HIDE DEF e
  <2> QED
    BY <1>0, <1>1, <2>1, <2>2, RelabelStep DEF DiscoverWork
<1>2. CASE ScopeAssignment(w)
  <2>1. /\ works' = [works EXCEPT ![w] = e]
        /\ e = [old EXCEPT !.stage = "SCOPED", !.scopeDigest = ScopeDigest(w)]
    BY <1>0, <1>2 DEF ScopeAssignment
  <2>2. /\ e \in Work /\ e.stage = "SCOPED"
        /\ e.held = old.held /\ e.commitment = old.commitment
    <3>1. ScopeDigest(w) \in ScopeDigests
      BY DEF ScopeDigests
    <3> QED
      BY <1>0, <2>1, <3>1 DEF Work, Stages
  <2> HIDE DEF e
  <2> QED
    BY <1>0, <1>2, <2>1, <2>2, RelabelStep DEF ScopeAssignment
<1>3. CASE AcceptAssignment(w)
  <2>1. Listing[w].costCeiling \in Nat
    BY DEF ConfigAssumption, Listings
  <2>2. /\ works' = [works EXCEPT ![w] = e]
        /\ e = [old EXCEPT !.stage = "AUTHORIZED", !.commitment = "OPEN",
                           !.held = Listing[w].costCeiling]
    BY <1>0, <1>3 DEF AcceptAssignment
  <2>3. /\ e \in Work /\ e.stage = "AUTHORIZED"
        /\ e.held = Listing[w].costCeiling /\ e.commitment = "OPEN"
    BY <1>0, <2>1, <2>2 DEF Work, Stages
  <2>4. InFlight(w) = 0
    BY <1>0, <1>3 DEF AcceptAssignment, IInv, HeldCoversInFlight, CommitmentFollowsStage
  <2>5. UNCHANGED <<tick, revokedScopes, invoices, attempts, obligations, payments, totals>>
    BY <1>3 DEF AcceptAssignment
  <2> HIDE DEF e
  <2>6. InFlight(w) <= e.held
    BY <2>1, <2>3, <2>4
  <2> QED
    BY <2>2, <2>3, <2>5, <2>6, WorkStep
<1>4. CASE BeginWork(w)
  <2>1. /\ works' = [works EXCEPT ![w] = e]
        /\ e = [old EXCEPT !.stage = "EXECUTING", !.execution = Packet(w)]
    BY <1>0, <1>4 DEF BeginWork
  <2>2. /\ e \in Work /\ e.stage = "EXECUTING"
        /\ e.held = old.held /\ e.commitment = old.commitment
    <3>1. Packet(w) \in Packets
      BY DEF Packets
    <3> QED
      BY <1>0, <2>1, <3>1 DEF Work, Stages
  <2> HIDE DEF e
  <2> QED
    BY <1>0, <1>4, <2>1, <2>2, RelabelStep DEF BeginWork
<1>5. CASE \E content \in Packets : DeliverArtifact(w, content)
  <2>1. /\ works' = [works EXCEPT ![w] = e]
        /\ e = [old EXCEPT !.stage = "DELIVERED", !.artifact = old.execution]
    BY <1>0, <1>5 DEF DeliverArtifact
  <2>2. /\ e \in Work /\ e.stage = "DELIVERED"
        /\ e.held = old.held /\ e.commitment = old.commitment
    BY <1>0, <2>1 DEF Work, Stages
  <2> HIDE DEF e
  <2> QED
    BY <1>0, <1>5, <2>1, <2>2, RelabelStep DEF DeliverArtifact
<1>6. CASE CancelWork(w)
  BY <1>6, CloseStep DEF CancelWork, Stages
<1>7. CASE CloseCommitment(w)
  BY <1>0, <1>7, CloseStep DEF CloseCommitment
<1>8. CASE ExpireWork(w)
  BY <1>8, CloseStep DEF ExpireWork, Stages
<1>9. CASE \E c \in Customers : RejectDelivery(c, w)
  BY <1>9, CloseStep DEF RejectDelivery, Stages
<1>10. CASE \E c \in Customers, artifact \in Packets, digest \in ScopeDigests, revision \in Revisions :
              AcceptDelivery(c, w, artifact, digest, revision)
  <2>1. PICK c \in Customers, artifact \in Packets, digest \in ScopeDigests, revision \in Revisions :
             AcceptDelivery(c, w, artifact, digest, revision)
    BY <1>10
  <2>2. /\ works' = [works EXCEPT ![w] = e]
        /\ e = [old EXCEPT !.stage = "ACCEPTED",
                  !.acceptance = [customer |-> c, artifact |-> artifact, scope |-> digest, revision |-> revision]]
    BY <1>0, <2>1 DEF AcceptDelivery
  <2>3. /\ e \in Work /\ e.stage = "ACCEPTED"
        /\ e.held = old.held /\ e.commitment = old.commitment
    <3>1. [customer |-> c, artifact |-> artifact, scope |-> digest, revision |-> revision] \in Acceptances
      BY DEF Acceptances
    <3> QED
      BY <1>0, <2>2, <3>1 DEF Work, Stages
  <2> HIDE DEF e
  <2> QED
    BY <1>0, <2>1, <2>2, <2>3, RelabelStep DEF AcceptDelivery
<1> QED
  BY <1>1, <1>2, <1>3, <1>4, <1>5, <1>6, <1>7, <1>8, <1>9, <1>10

\* The commands that change neither an assignment nor an attempt.
LEMMA OtherCommandsKeepIInv ==
  ASSUME ConfigAssumption, InputAssumption, IInv,
         \/ \E w \in Works : IssueInvoice(w)
         \/ \E c \in Customers, w \in Works :
              \/ \E amount \in Amounts : RequestRefund(c, w, amount)
              \/ DisputeInvoice(c, w)
              \/ ResolveDispute(c, w)
         \/ \E s \in Scopes : RevokeScope(s)
         \/ \E t \in Ticks : AdvanceClock(t)
         \/ \E o \in Observations, w \in Works, p \in PaymentIds : ObserveEarning(w, p, o)
         \/ UNCHANGED vars
  PROVE  IInv'
<1> USE DEF totals
<1>0. TypeOK
  BY DEF IInv
<1>1. CASE \E w \in Works : IssueInvoice(w)
  <2>1. PICK w \in Works : IssueInvoice(w)
    BY <1>1
  <2>2. works[w].artifact \in Packets \cup {None}
    BY <1>0 DEF TypeOK, Work
  <2> DEFINE i == [NoInvoice EXCEPT !.status = "ISSUED", !.artifact = works[w].artifact]
  <2>3. i \in Invoice
    BY <2>2 DEF NoInvoice, Invoice
  <2>4. invoices' = [invoices EXCEPT ![w] = i]
    BY <2>1 DEF IssueInvoice
  <2> HIDE DEF i
  <2>5. TypeOK'
    BY <1>0, <2>1, <2>3, <2>4 DEF IssueInvoice, TypeOK
  <2> QED
    BY <2>1, <2>5, OtherStep DEF IssueInvoice
<1>2. CASE \E c \in Customers, w \in Works, amount \in Amounts : RequestRefund(c, w, amount)
  <2>1. TypeOK'
    BY <1>0, <1>2 DEF RequestRefund, TypeOK, Obligation, InputAssumption
  <2> QED
    BY <1>2, <2>1, OtherStep DEF RequestRefund
<1>3. CASE \E c \in Customers, w \in Works : DisputeInvoice(c, w) \/ ResolveDispute(c, w)
  <2>1. PICK c \in Customers, w \in Works : DisputeInvoice(c, w) \/ ResolveDispute(c, w)
    BY <1>3
  <2>2. PICK b \in BOOLEAN : invoices' = [invoices EXCEPT ![w].dispute = b]
    BY <2>1 DEF DisputeInvoice, ResolveDispute
  <2> DEFINE i == [invoices[w] EXCEPT !.dispute = b]
  <2>3. i \in Invoice /\ invoices' = [invoices EXCEPT ![w] = i]
    BY <1>0, <2>2 DEF TypeOK, Invoice
  <2> HIDE DEF i
  <2>4. TypeOK'
    BY <1>0, <2>1, <2>3 DEF DisputeInvoice, ResolveDispute, TypeOK
  <2> QED
    BY <2>1, <2>4, OtherStep DEF DisputeInvoice, ResolveDispute
<1>4. CASE \E s \in Scopes : RevokeScope(s)
  <2>1. TypeOK'
    BY <1>0, <1>4 DEF RevokeScope, TypeOK
  <2> QED
    BY <1>4, <2>1, OtherStep DEF RevokeScope
<1>5. CASE \E t \in Ticks : AdvanceClock(t)
  <2>1. TypeOK'
    BY <1>0, <1>5 DEF AdvanceClock, TypeOK, InputAssumption
  <2> QED
    BY <1>5, <2>1, OtherStep DEF AdvanceClock
<1>6. CASE \E o \in Observations, w \in Works, p \in PaymentIds : ObserveEarning(w, p, o)
  <2>1. PICK o \in Observations, w \in Works, p \in PaymentIds : ObserveEarning(w, p, o)
    BY <1>6
  <2>2. o.amount \in Nat /\ o.sequence \in Nat /\ o.status \in Statuses
    BY DEF Observations, InputAssumption
  <2> DEFINE earned == IF o.status = "SETTLED" THEN o.amount ELSE 0
             settled == invoices[w].settledAmount + earned
             status == InvoiceStatus(settled, Listing[w].reward)
  <2>3. earned \in Nat /\ settled \in Nat /\ status \in {"ISSUED", "PARTIALLY_PAID", "SETTLED"}
    BY <1>0, <2>2 DEF TypeOK, Invoice, InvoiceStatus
  <2>4. /\ payments' = [payments EXCEPT ![p] =
             [invoice |-> w, amount |-> o.amount, status |-> o.status, sequence |-> o.sequence]]
        /\ settledEarnings' = settledEarnings + earned
        /\ invoices' = [invoices EXCEPT ![w].settledAmount = settled, ![w].status = status]
        /\ UNCHANGED <<tick, revokedScopes, works, attempts, obligations, settledSpend, settledRefunds>>
    BY <2>1 DEF ObserveEarning
  <2> HIDE DEF earned, settled, status
  <2>5. /\ invoices'[w] \in Invoice
        /\ invoices' = [invoices EXCEPT ![w] = invoices'[w]]
        /\ payments'[p] \in Payment
        /\ payments' = [payments EXCEPT ![p] = payments'[p]]
    BY <1>0, <2>2, <2>3, <2>4 DEF TypeOK, Invoice, Payment, Statuses
  <2>6. TypeOK'
    BY <1>0, <2>3, <2>4, <2>5 DEF TypeOK
  <2> QED
    BY <2>4, <2>6, OtherStep
<1>7. CASE UNCHANGED vars
  <2>1. TypeOK'
    BY <1>0, <1>7 DEF vars, TypeOK
  <2> QED
    BY <1>7, <2>1, OtherStep DEF vars
<1> QED
  BY <1>1, <1>2, <1>3, <1>4, <1>5, <1>6, <1>7

\* Beginning a spend moves credits of the reservation from free to in flight.
LEMMA BeginSpendKeepsIInv ==
  ASSUME ConfigAssumption, InputAssumption, IInv,
         NEW w \in Works, NEW a \in AttemptIds, NEW amount \in Amounts, BeginSpend(w, a, amount)
  PROVE  IInv'
<1> DEFINE new == [kind |-> "SPEND", target |-> w, amount |-> amount,
                   status |-> "REQUESTED", sequence |-> 0]
<1>0. TypeOK /\ IsFiniteSet(AttemptIds) /\ amount \in Nat
  BY DEF IInv, ConfigAssumption, InputAssumption
<1>1. /\ attempts' = [attempts EXCEPT ![a] = new]
      /\ UNCHANGED <<tick, revokedScopes, works, invoices, obligations, payments,
                     settledEarnings, settledSpend, settledRefunds>>
      /\ attempts[a].status = "ABSENT"
      /\ works[w].commitment = "OPEN"
      /\ works[w].held - InFlight(w) >= amount
  BY DEF BeginSpend, totals, Unreserved
<1>2. new \in Attempt
  BY <1>0 DEF Attempt
<1>3. TypeOK'
  BY <1>0, <1>1, <1>2 DEF TypeOK
<1>4. CommitmentFollowsStage'
  BY <1>1 DEF IInv, CommitmentFollowsStage
<1>5. AttemptsHaveTargets'
  BY <1>0, <1>1 DEF IInv, AttemptsHaveTargets, TypeOK
<1>6. \A v \in Works \ {w} : InFlightTable(v)' = InFlightTable(v)
  BY <1>0, <1>1 DEF TypeOK, InFlightTable, Pending
<1>7. /\ InFlightTable(w)[a] = 0 /\ InFlightTable(w)'[a] = amount
      /\ \A b \in AttemptIds \ {a} : InFlightTable(w)'[b] = InFlightTable(w)[b]
  BY <1>0, <1>1 DEF TypeOK, InFlightTable, Pending
<1>8. InFlight(w)' = InFlight(w) + amount
  <2>1. /\ InFlightTable(w) \in [AttemptIds -> Nat] /\ InFlightTable(w)' \in [AttemptIds -> Nat]
        /\ InFlight(w) \in Nat /\ InFlight(w)' \in Nat
    BY <1>0, <1>3, InFlightType, InFlightTypeNext
  <2>2. TotalOf(InFlightTable(w)') + 0 = TotalOf(InFlightTable(w)) + amount
    BY <1>7, <2>1, AttemptTableUpdate
  <2> QED
    BY <1>0, <2>1, <2>2 DEF InFlight
<1>9. HeldCoversInFlight'
  <2> SUFFICES ASSUME NEW v \in Works
               PROVE  /\ InFlight(v)' <= works'[v].held
                      /\ works'[v].commitment # "OPEN" => works'[v].held = InFlight(v)'
    BY DEF HeldCoversInFlight
  <2>1. CASE v = w
    BY <1>0, <1>1, <1>8, <2>1, InFlightType DEF TypeOK, Work
  <2>2. CASE v # w
    BY <1>1, <1>6, <2>2 DEF IInv, HeldCoversInFlight, InFlight
  <2> QED
    BY <2>1, <2>2
<1> QED
  BY <1>3, <1>4, <1>5, <1>9 DEF IInv

\* A refund attempt takes nothing from a reservation.
LEMMA BeginRefundKeepsIInv ==
  ASSUME ConfigAssumption, IInv, NEW w \in Works, NEW a \in AttemptIds, BeginRefund(w, a)
  PROVE  IInv'
<1> DEFINE new == [kind |-> "REFUND", target |-> w, amount |-> obligations[w].amount,
                   status |-> "REQUESTED", sequence |-> 0]
           owed == [obligations[w] EXCEPT !.status = "IN_FLIGHT", !.attempt = a]
<1>0. TypeOK
  BY DEF IInv
<1>1. /\ attempts' = [attempts EXCEPT ![a] = new]
      /\ obligations' = [obligations EXCEPT ![w] = owed]
      /\ UNCHANGED <<tick, revokedScopes, works, invoices, payments,
                     settledEarnings, settledSpend, settledRefunds>>
      /\ attempts[a].status = "ABSENT"
  BY <1>0 DEF BeginRefund, totals, TypeOK
<1>2. new \in Attempt /\ owed \in Obligation
  BY <1>0 DEF TypeOK, Attempt, Obligation
<1>3. TypeOK'
  BY <1>0, <1>1, <1>2 DEF TypeOK
<1>4. CommitmentFollowsStage'
  BY <1>1 DEF IInv, CommitmentFollowsStage
<1>5. AttemptsHaveTargets'
  BY <1>0, <1>1 DEF IInv, AttemptsHaveTargets, TypeOK
<1>6. \A v \in Works : InFlightTable(v)' = InFlightTable(v)
  BY <1>0, <1>1 DEF TypeOK, InFlightTable, Pending
<1>7. HeldCoversInFlight'
  BY <1>1, <1>6 DEF IInv, HeldCoversInFlight, InFlight
<1> QED
  BY <1>3, <1>4, <1>5, <1>7 DEF IInv

\* What an observation of a spend attempt does to what is in flight: an outcome takes
\* the attempt out of it, any other news leaves it.
LEMMA InFlightAfterObservation ==
  ASSUME ConfigAssumption, IInv, TypeOK', NEW a \in AttemptIds, NEW o, o.status \in Statuses,
         NEW w, attempts[a].target = w, attempts[a].kind = "SPEND", Pending(a),
         attempts' = [attempts EXCEPT ![a] =
                        [attempts[a] EXCEPT !.sequence = o.sequence, !.status = o.status]]
  PROVE  /\ InFlight(w)' = IF o.status \in Terminal
                           THEN InFlight(w) - attempts[a].amount ELSE InFlight(w)
         /\ \A v \in Works \ {w} : InFlight(v)' = InFlight(v)
<1>0. TypeOK /\ IsFiniteSet(AttemptIds) /\ attempts[a] \in Attempt
  BY DEF IInv, ConfigAssumption, TypeOK
<1>1. PICK amount \in Nat : amount = attempts[a].amount
  BY <1>0 DEF Attempt
<1>2. PICK left \in Nat : left = IF o.status \in Terminal THEN 0 ELSE amount
  OBVIOUS
<1>3. /\ attempts'[a].kind = "SPEND" /\ attempts'[a].target = w /\ attempts'[a].amount = amount
      /\ attempts'[a].status = o.status
      /\ \A b \in AttemptIds \ {a} : attempts'[b] = attempts[b]
  BY <1>0, <1>1 DEF TypeOK, Attempt
<1>4. o.status \in {"REQUESTED", "PENDING", "UNKNOWN"} <=> o.status \notin Terminal
  BY DEF Statuses, Terminal
<1>5. /\ InFlightTable(w)[a] = amount /\ InFlightTable(w)'[a] = left
      /\ \A b \in AttemptIds \ {a} : InFlightTable(w)'[b] = InFlightTable(w)[b]
  <2>1. InFlightTable(w)[a] = amount
    BY <1>1 DEF InFlightTable
  <2>2. \A b \in AttemptIds \ {a} : InFlightTable(w)'[b] = InFlightTable(w)[b]
    BY <1>3 DEF InFlightTable, Pending
  <2>3. InFlightTable(w)'[a] = left
    BY <1>2, <1>3, <1>4 DEF InFlightTable, Pending
  <2> QED
    BY <2>1, <2>2, <2>3
<1>6. \A v \in Works \ {w} : InFlightTable(v)' = InFlightTable(v)
  BY <1>3 DEF InFlightTable, Pending
<1>7. /\ InFlightTable(w) \in [AttemptIds -> Nat] /\ InFlightTable(w)' \in [AttemptIds -> Nat]
      /\ InFlight(w) \in Nat /\ InFlight(w)' \in Nat
  BY <1>0, InFlightType, InFlightTypeNext
<1>8. TotalOf(InFlightTable(w)') + amount = TotalOf(InFlightTable(w)) + left
  BY <1>5, <1>7, AttemptTableUpdate
<1>9. InFlight(w)' + amount = InFlight(w) + left
  BY <1>5, <1>7, <1>8 DEF InFlight
<1> QED
  BY <1>1, <1>2, <1>6, <1>7, <1>9 DEF InFlight

\* Observing a spend settles or frees what was in flight, and the reservation with it.
LEMMA ObserveSpendKeepsIInv ==
  ASSUME ConfigAssumption, InputAssumption, IInv,
         NEW a \in AttemptIds, NEW o \in Observations, ObserveSpend(a, o)
  PROVE  IInv'
<1>0. TypeOK /\ o.status \in Statuses /\ o.amount \in Nat /\ o.sequence \in Nat
  BY DEF IInv, Observations, InputAssumption
<1>1. /\ attempts[a].status \notin {"ABSENT", "SETTLED", "FAILED"}
      /\ attempts[a].kind = "SPEND"
      /\ attempts[a].amount = o.amount
  BY DEF ObserveSpend, Ordered, Terminal
<1>2. PICK w \in Works : w = attempts[a].target
  BY <1>1 DEF IInv, AttemptsHaveTargets
<1> DEFINE e == [works[w] EXCEPT !.held = works[w].held - Released(w, o)]
           spent == IF o.status = "SETTLED" THEN o.amount ELSE 0
           b == [attempts[a] EXCEPT !.sequence = o.sequence, !.status = o.status]
<1>3. /\ works[w] \in Work /\ attempts[a] \in Attempt
      /\ works \in [Works -> Work] /\ attempts \in [AttemptIds -> Attempt]
  BY <1>0 DEF TypeOK
<1>4. /\ works[w].commitment # "ABSENT"
      /\ works' = [works EXCEPT ![w] = e]
      /\ attempts' = [attempts EXCEPT ![a] = b]
  BY <1>2, <1>3 DEF ObserveSpend
<1>5. /\ settledSpend' = settledSpend + spent
      /\ UNCHANGED <<tick, revokedScopes, invoices, obligations, payments, settledEarnings, settledRefunds>>
  BY DEF ObserveSpend
<1>6. Pending(a)
  BY <1>1, <1>3 DEF Pending, Attempt, Statuses
<1>7. o.amount <= InFlight(w) /\ InFlight(w) \in Nat /\ InFlight(w) <= works[w].held
  BY <1>0, <1>1, <1>2, <1>6, InFlightCoversAttempt, InFlightType DEF IInv, HeldCoversInFlight
<1>8. Released(w, o) \in Nat /\ Released(w, o) <= works[w].held /\ works[w].held \in Nat
  BY <1>0, <1>3, <1>7 DEF Released, Work
<1>9. /\ e \in Work /\ e.held = works[w].held - Released(w, o)
      /\ e.stage = works[w].stage /\ e.commitment = works[w].commitment
  BY <1>3, <1>8 DEF Work
<1>10. b \in Attempt /\ b.target = w
  BY <1>0, <1>2, <1>3 DEF Attempt
<1>11. settledSpend' \in Nat
  BY <1>0, <1>5 DEF TypeOK
<1> HIDE DEF e, spent
<1>12. TypeOK'
  <2> HIDE DEF b
  <2> QED
    BY <1>0, <1>3, <1>4, <1>5, <1>9, <1>10, <1>11 DEF TypeOK
<1>13. CommitmentFollowsStage'
  BY <1>3, <1>4, <1>9 DEF IInv, CommitmentFollowsStage
<1>14. AttemptsHaveTargets'
  BY <1>3, <1>4, <1>10 DEF IInv, AttemptsHaveTargets
<1>15. /\ InFlight(w)' = IF o.status \in Terminal THEN InFlight(w) - o.amount ELSE InFlight(w)
       /\ \A v \in Works \ {w} : InFlight(v)' = InFlight(v)
  BY <1>0, <1>1, <1>2, <1>4, <1>6, <1>12, InFlightAfterObservation
<1>16. HeldCoversInFlight'
  <2> SUFFICES ASSUME NEW v \in Works
               PROVE  /\ InFlight(v)' <= works'[v].held
                      /\ works'[v].commitment # "OPEN" => works'[v].held = InFlight(v)'
    BY DEF HeldCoversInFlight
  <2>1. CASE v = w
    <3>1. works'[w] = e
      BY <1>3, <1>4
    <3>2. works[w].commitment # "OPEN" => works[w].held = InFlight(w) /\ works[w].commitment = "CLOSED"
      BY <1>3, <1>4 DEF IInv, HeldCoversInFlight, Work
    <3>3. InFlight(w)' <= e.held
      BY <1>0, <1>7, <1>8, <1>9, <1>15 DEF Released, Terminal
    <3>4. e.commitment # "OPEN" => e.held = InFlight(w)'
      BY <1>0, <1>7, <1>8, <1>9, <1>15, <3>2 DEF Released, Terminal
    <3> QED
      BY <2>1, <3>1, <3>3, <3>4
  <2>2. CASE v # w
    BY <1>3, <1>4, <1>15, <2>2 DEF IInv, HeldCoversInFlight
  <2> QED
    BY <2>1, <2>2
<1> QED
  BY <1>12, <1>13, <1>14, <1>16 DEF IInv

\* Observing a refund touches neither reservations nor spending.
LEMMA ObserveRefundKeepsIInv ==
  ASSUME ConfigAssumption, InputAssumption, IInv,
         NEW a \in AttemptIds, NEW o \in Observations, ObserveRefund(a, o)
  PROVE  IInv'
<1>0. TypeOK /\ o.status \in Statuses /\ o.amount \in Nat /\ o.sequence \in Nat
  BY DEF IInv, Observations, InputAssumption
<1>1. attempts[a].status # "ABSENT" /\ attempts[a].kind = "REFUND"
  BY DEF ObserveRefund
<1>2. PICK w \in Works : w = attempts[a].target
  BY <1>1 DEF IInv, AttemptsHaveTargets
<1> DEFINE b == [attempts[a] EXCEPT !.sequence = o.sequence, !.status = o.status]
           owed == AfterRefund(obligations[w], o)
           refunded == IF o.status = "SETTLED" THEN o.amount ELSE 0
<1>3. /\ attempts[a] \in Attempt /\ obligations[w] \in Obligation
      /\ attempts \in [AttemptIds -> Attempt] /\ obligations \in [Works -> Obligation]
  BY <1>0 DEF TypeOK
<1>4. /\ attempts' = [attempts EXCEPT ![a] = b]
      /\ obligations' = [obligations EXCEPT ![w] = owed]
  BY <1>2, <1>3 DEF ObserveRefund
<1>5. /\ settledRefunds' = settledRefunds + refunded
      /\ UNCHANGED <<tick, revokedScopes, works, invoices, payments, settledEarnings, settledSpend>>
  BY DEF ObserveRefund
<1>6. b \in Attempt /\ b.target = w /\ b.kind = "REFUND"
  BY <1>0, <1>1, <1>2, <1>3 DEF Attempt
<1>7. owed \in Obligation
  BY <1>3 DEF AfterRefund, Obligation
<1>8. settledRefunds' \in Nat
  BY <1>0, <1>5 DEF TypeOK
<1> HIDE DEF b, owed, refunded
<1>9. TypeOK'
  BY <1>0, <1>3, <1>4, <1>5, <1>6, <1>7, <1>8 DEF TypeOK
<1>10. CommitmentFollowsStage'
  BY <1>5 DEF IInv, CommitmentFollowsStage
<1>11. AttemptsHaveTargets'
  BY <1>3, <1>4, <1>6 DEF IInv, AttemptsHaveTargets
<1>12. \A v \in Works : InFlightTable(v)' = InFlightTable(v)
  BY <1>1, <1>3, <1>4, <1>6 DEF InFlightTable, Pending
<1>13. HeldCoversInFlight'
  BY <1>5, <1>12 DEF IInv, HeldCoversInFlight, InFlight
<1> QED
  BY <1>9, <1>10, <1>11, <1>13 DEF IInv

\* Every command keeps the inductive invariant, whether or not the backstop looks.
LEMMA ApplyKeepsIInv ==
  ASSUME ConfigAssumption, InputAssumption, IInv, [Apply]_vars
  PROVE  IInv'
<1>1. CASE AgentStep
  BY <1>1, WorkCommandsKeepIInv, OtherCommandsKeepIInv, BeginSpendKeepsIInv, BeginRefundKeepsIInv
     DEF AgentStep
<1>2. CASE CustomerStep
  BY <1>2, WorkCommandsKeepIInv, OtherCommandsKeepIInv DEF CustomerStep
<1>3. CASE OperatorStep
  BY <1>3, WorkCommandsKeepIInv, OtherCommandsKeepIInv DEF OperatorStep
<1>4. CASE RailStep
  BY <1>4, OtherCommandsKeepIInv, ObserveSpendKeepsIInv, ObserveRefundKeepsIInv
     DEF RailStep, RepeatObservation
<1>5. CASE UNCHANGED vars
  BY <1>5, OtherCommandsKeepIInv
<1> QED
  BY <1>1, <1>2, <1>3, <1>4, <1>5 DEF Apply

LEMMA InductiveInvariant == SpecApply => []IInv
<1>1. Init => IInv
  BY InitIInv, ConfigAssumption
<1>2. IInv /\ [Apply]_vars => IInv'
  BY ApplyKeepsIInv, ConfigAssumption, InputAssumption
<1> QED
  BY <1>1, <1>2, PTL DEF SpecApply

\* With the backstop the ledger takes no step it would not take without.
LEMMA SpecIsApply == Spec => SpecApply
<1>1. [Next]_vars => [Apply]_vars
  BY DEF Next
<1> QED
  BY <1>1, PTL DEF Spec, SpecApply

\* Every table keeps its shape, with no balance below zero, for every catalog and
\* every sequence of commands (engine.ts:92-107, 236-425).
THEOREM TypeCorrect == SpecApply => []TypeOK
<1>1. IInv => TypeOK
  BY DEF IInv
<1> QED
  BY <1>1, InductiveInvariant, PTL

\* Reservations always cover the spending the rail may still settle, and a closed one
\* holds exactly that (engine.ts:214-219, 324-335, 402-414).
THEOREM HeldCovers == SpecApply => []HeldCoversInFlight
<1>1. IInv => HeldCoversInFlight
  BY DEF IInv
<1> QED
  BY <1>1, InductiveInvariant, PTL
-----------------------------------------------------------------------------
(***************************************************************************)
(* The backstop of transact() never refuses anything: what is reserved and *)
(* spent stays within the budget, because an assignment is accepted only   *)
(* while the budget covers its ceiling and no later command adds to the    *)
(* reservation and the spending of an assignment together.                 *)
(***************************************************************************)
LEMMA CommitmentsUpdate ==
  ASSUME TypeOK, TypeOK', NEW w \in Works,
         \A v \in Works \ {w} : works'[v].held = works[v].held
  PROVE  /\ Commitments' + works[w].held = Commitments + works'[w].held
         /\ Commitments \in Nat /\ Commitments' \in Nat
<1>1. HeldTable \in [Works -> Nat] /\ HeldTable' \in [Works -> Nat]
  BY DEF TypeOK, Work, HeldTable
<1>2. /\ HeldTable[w] = works[w].held /\ HeldTable'[w] = works'[w].held
      /\ \A v \in Works \ {w} : HeldTable'[v] = HeldTable[v]
  BY DEF HeldTable
<1>3. TotalOf(HeldTable') + HeldTable[w] = TotalOf(HeldTable) + HeldTable'[w]
  BY <1>1, <1>2, WorkTableUpdate
<1>4. TotalOf(HeldTable) \in Nat /\ TotalOf(HeldTable') \in Nat
  BY <1>1, ConfigAssumption, TotalType DEF ConfigAssumption
<1> QED
  BY <1>2, <1>3, <1>4 DEF Commitments

\* A step that does not add to what an assignment has reserved and spent.
LEMMA BudgetKept ==
  ASSUME TypeOK, TypeOK', NEW w \in Works, DiscretionaryBudgetRemaining >= 0,
         \A v \in Works \ {w} : works'[v].held = works[v].held,
         settledSpend' + works'[w].held <= settledSpend + works[w].held
  PROVE  DiscretionaryBudgetRemaining' >= 0
<1>1. /\ Commitments' + works[w].held = Commitments + works'[w].held
      /\ Commitments \in Nat /\ Commitments' \in Nat
  BY CommitmentsUpdate
<1>2. /\ SpendBudget \in Nat /\ settledSpend \in Nat /\ settledSpend' \in Nat
      /\ works[w].held \in Nat /\ works'[w].held \in Nat
  BY ConfigAssumption DEF ConfigAssumption, TypeOK, Work
<1>3. PICK s1 \in Nat : s1 = settledSpend'
  BY <1>2
<1>4. PICK h1 \in Nat : h1 = works'[w].held
  BY <1>2
<1>5. PICK c1 \in Nat : c1 = Commitments'
  BY <1>1
<1>6. c1 + works[w].held = Commitments + h1
  BY <1>1, <1>4, <1>5
<1>7. s1 + h1 <= settledSpend + works[w].held
  BY <1>3, <1>4
<1>8. c1 + s1 <= Commitments + settledSpend
  BY <1>1, <1>2, <1>6, <1>7
<1>9. SpendBudget - s1 - c1 >= 0
  BY <1>1, <1>2, <1>8 DEF DiscretionaryBudgetRemaining
<1> QED
  BY <1>3, <1>5, <1>9 DEF DiscretionaryBudgetRemaining

\* A step that leaves every reservation and the spending alone.
LEMMA BudgetUnchanged ==
  ASSUME TypeOK, TypeOK', DiscretionaryBudgetRemaining >= 0, UNCHANGED settledSpend,
         \A v \in Works : works'[v].held = works[v].held
  PROVE  DiscretionaryBudgetRemaining' >= 0
<1>1. HeldTable' = HeldTable
  BY DEF HeldTable
<1> QED
  BY <1>1 DEF DiscretionaryBudgetRemaining, Commitments

LEMMA AcceptKeepsBudget ==
  ASSUME IInv, IInv', NEW w \in Works, AcceptAssignment(w), DiscretionaryBudgetRemaining >= 0
  PROVE  DiscretionaryBudgetRemaining' >= 0
<1>1. TypeOK /\ TypeOK' /\ works \in [Works -> Work]
  BY DEF IInv, TypeOK
<1>2. /\ works'[w].held = Listing[w].costCeiling
      /\ \A v \in Works \ {w} : works'[v].held = works[v].held
      /\ settledSpend' = settledSpend
      /\ DiscretionaryBudgetRemaining >= Listing[w].costCeiling
  BY <1>1 DEF AcceptAssignment, Affordable, Work, totals
<1>3. works[w].held = 0
  BY DEF AcceptAssignment, IInv, CommitmentFollowsStage
<1>4. /\ Commitments' + works[w].held = Commitments + works'[w].held
      /\ Commitments \in Nat /\ Commitments' \in Nat
  BY <1>1, <1>2, CommitmentsUpdate
<1>5. SpendBudget \in Nat /\ settledSpend \in Nat /\ Listing[w].costCeiling \in Nat
  BY <1>1, ConfigAssumption DEF ConfigAssumption, Listings, TypeOK
<1> QED
  BY <1>2, <1>3, <1>4, <1>5 DEF DiscretionaryBudgetRemaining

LEMMA ObserveSpendKeepsBudget ==
  ASSUME IInv, IInv', NEW a \in AttemptIds, NEW o \in Observations, ObserveSpend(a, o),
         DiscretionaryBudgetRemaining >= 0
  PROVE  DiscretionaryBudgetRemaining' >= 0
<1>1. TypeOK /\ TypeOK' /\ works \in [Works -> Work] /\ o.amount \in Nat
  BY InputAssumption DEF IInv, TypeOK, Observations, InputAssumption
<1>2. PICK w \in Works : w = attempts[a].target
  BY DEF ObserveSpend, IInv, AttemptsHaveTargets
<1>3. /\ works'[w].held = works[w].held - Released(w, o)
      /\ \A v \in Works \ {w} : works'[v].held = works[v].held
      /\ settledSpend' = settledSpend + (IF o.status = "SETTLED" THEN o.amount ELSE 0)
  BY <1>1, <1>2 DEF ObserveSpend, Work
<1>4. works[w].held \in Nat /\ works'[w].held \in Nat /\ settledSpend \in Nat
  BY <1>1 DEF TypeOK, Work
<1>5. settledSpend' + works'[w].held <= settledSpend + works[w].held
  BY <1>1, <1>3, <1>4 DEF Released
<1> QED
  BY <1>1, <1>3, <1>5, BudgetKept

LEMMA CloseKeepsBudget ==
  ASSUME IInv, IInv', NEW w \in Works, NEW stage \in Stages, DiscretionaryBudgetRemaining >= 0,
         works' = [works EXCEPT ![w] = Closed(w, stage)], UNCHANGED settledSpend
  PROVE  DiscretionaryBudgetRemaining' >= 0
<1>1. TypeOK /\ TypeOK' /\ works \in [Works -> Work]
  BY DEF IInv, TypeOK
<1>2. Closed(w, stage).held = InFlight(w)
  BY ConfigAssumption, ClosedFacts
<1>3. /\ works'[w].held = InFlight(w)
      /\ \A v \in Works \ {w} : works'[v].held = works[v].held
  BY <1>1, <1>2
<1>4. InFlight(w) <= works[w].held /\ works[w].held \in Nat /\ works'[w].held \in Nat /\ settledSpend \in Nat
  BY <1>1 DEF IInv, HeldCoversInFlight, TypeOK, Work
<1>5. settledSpend' + works'[w].held <= settledSpend + works[w].held
  BY <1>3, <1>4
<1> QED
  BY <1>1, <1>3, <1>5, BudgetKept

\* Every command leaves the budget covered.
LEMMA ApplyKeepsBudget ==
  ASSUME IInv, IInv', [Apply]_vars, DiscretionaryBudgetRemaining >= 0
  PROVE  DiscretionaryBudgetRemaining' >= 0
<1>0. TypeOK /\ TypeOK' /\ works \in [Works -> Work]
  BY DEF IInv, TypeOK
<1> USE DEF totals
<1>1. CASE AgentStep
  <2>1. PICK w \in Works :
           \/ DiscoverWork(w) \/ ScopeAssignment(w) \/ AcceptAssignment(w) \/ BeginWork(w)
           \/ \E content \in Packets : DeliverArtifact(w, content)
           \/ IssueInvoice(w) \/ CancelWork(w) \/ CloseCommitment(w)
           \/ \E a \in AttemptIds, amount \in Amounts : BeginSpend(w, a, amount)
           \/ \E a \in AttemptIds : BeginRefund(w, a)
    BY <1>1 DEF AgentStep
  <2>2. CASE AcceptAssignment(w)
    BY <2>2, AcceptKeepsBudget
  <2>3. CASE CancelWork(w)
    BY <2>3, CloseKeepsBudget DEF CancelWork, Stages
  <2>4. CASE CloseCommitment(w)
    <3>1. works[w].stage \in Stages
      BY <1>0 DEF Work
    <3> QED
      BY <2>4, <3>1, CloseKeepsBudget DEF CloseCommitment
  <2>5. CASE DiscoverWork(w) \/ ScopeAssignment(w) \/ BeginWork(w)
    <3>1. (\A v \in Works : works'[v].held = works[v].held) /\ UNCHANGED settledSpend
      BY <1>0, <2>5 DEF DiscoverWork, ScopeAssignment, BeginWork, Work
    <3> QED
      BY <1>0, <3>1, BudgetUnchanged
  <2>6. CASE \E content \in Packets : DeliverArtifact(w, content)
    <3>1. (\A v \in Works : works'[v].held = works[v].held) /\ UNCHANGED settledSpend
      BY <1>0, <2>6 DEF DeliverArtifact, Work
    <3> QED
      BY <1>0, <3>1, BudgetUnchanged
  <2>7. CASE \/ IssueInvoice(w)
             \/ \E a \in AttemptIds, amount \in Amounts : BeginSpend(w, a, amount)
             \/ \E a \in AttemptIds : BeginRefund(w, a)
    <3>1. UNCHANGED <<works, settledSpend>>
      BY <2>7 DEF IssueInvoice, BeginSpend, BeginRefund
    <3> QED
      BY <1>0, <3>1, BudgetUnchanged
  <2> QED
    BY <2>1, <2>2, <2>3, <2>4, <2>5, <2>6, <2>7
<1>2. CASE CustomerStep
  <2>1. PICK c \in Customers, w \in Works :
           \/ \E artifact \in Packets, digest \in ScopeDigests, revision \in Revisions : AcceptDelivery(c, w, artifact, digest, revision)
           \/ RejectDelivery(c, w)
           \/ \E amount \in Amounts : RequestRefund(c, w, amount)
           \/ DisputeInvoice(c, w) \/ ResolveDispute(c, w)
    BY <1>2 DEF CustomerStep
  <2>2. CASE RejectDelivery(c, w)
    BY <2>2, CloseKeepsBudget DEF RejectDelivery, Stages
  <2>3. CASE \E artifact \in Packets, digest \in ScopeDigests, revision \in Revisions : AcceptDelivery(c, w, artifact, digest, revision)
    <3>1. (\A v \in Works : works'[v].held = works[v].held) /\ UNCHANGED settledSpend
      BY <1>0, <2>3 DEF AcceptDelivery, Work
    <3> QED
      BY <1>0, <3>1, BudgetUnchanged
  <2>4. CASE \/ \E amount \in Amounts : RequestRefund(c, w, amount)
             \/ DisputeInvoice(c, w) \/ ResolveDispute(c, w)
    <3>1. UNCHANGED <<works, settledSpend>>
      BY <2>4 DEF RequestRefund, DisputeInvoice, ResolveDispute
    <3> QED
      BY <1>0, <3>1, BudgetUnchanged
  <2> QED
    BY <2>1, <2>2, <2>3, <2>4
<1>3. CASE OperatorStep
  <2>1. CASE \E w \in Works : ExpireWork(w)
    BY <2>1, CloseKeepsBudget DEF ExpireWork, Stages
  <2>2. CASE (\E s \in Scopes : RevokeScope(s)) \/ (\E t \in Ticks : AdvanceClock(t))
    <3>1. UNCHANGED <<works, settledSpend>>
      BY <2>2 DEF RevokeScope, AdvanceClock
    <3> QED
      BY <1>0, <3>1, BudgetUnchanged
  <2> QED
    BY <1>3, <2>1, <2>2 DEF OperatorStep
<1>4. CASE RailStep
  <2>1. PICK o \in Observations :
           \/ \E w \in Works, p \in PaymentIds : ObserveEarning(w, p, o)
           \/ \E a \in AttemptIds : ObserveSpend(a, o) \/ ObserveRefund(a, o)
           \/ RepeatObservation(o)
    BY <1>4 DEF RailStep
  <2>2. CASE \E a \in AttemptIds : ObserveSpend(a, o)
    BY <2>2, ObserveSpendKeepsBudget
  <2>3. CASE \/ \E w \in Works, p \in PaymentIds : ObserveEarning(w, p, o)
             \/ \E a \in AttemptIds : ObserveRefund(a, o)
             \/ RepeatObservation(o)
    <3>1. UNCHANGED <<works, settledSpend>>
      BY <2>3 DEF ObserveEarning, ObserveRefund, RepeatObservation, vars
    <3> QED
      BY <1>0, <3>1, BudgetUnchanged
  <2> QED
    BY <2>1, <2>2, <2>3
<1>5. CASE UNCHANGED vars
  BY <1>0, <1>5, BudgetUnchanged DEF vars
<1> QED
  BY <1>1, <1>2, <1>3, <1>4, <1>5 DEF Apply

LEMMA InitBudget ==
  ASSUME Init
  PROVE  DiscretionaryBudgetRemaining >= 0
<1>1. HeldTable \in [Works -> Nat] /\ \A w \in Works : HeldTable[w] = 0
  BY DEF Init, HeldTable, NoWork
<1>2. Commitments = 0
  BY <1>1, TotalZero DEF Commitments
<1> QED
  BY <1>2, ConfigAssumption DEF Init, DiscretionaryBudgetRemaining, ConfigAssumption

\* The totals of reservations and obligations are natural numbers.
LEMMA BalancesType ==
  ASSUME TypeOK
  PROVE  Commitments >= 0 /\ ObligationTotal >= 0
<1>1. HeldTable \in [Works -> Nat] /\ OwedTable \in [Works -> Nat]
  BY DEF TypeOK, Work, Obligation, HeldTable, OwedTable
<1>2. TotalOf(HeldTable) \in Nat /\ TotalOf(OwedTable) \in Nat
  BY <1>1, ConfigAssumption, TotalType DEF ConfigAssumption
<1> QED
  BY <1>2 DEF Commitments, ObligationTotal

\* The accounting check of transact() is redundant: even without it every command
\* leaves balances that pass it, so ACCOUNTING_INVARIANT is never an outcome
\* (engine.ts:175-177).
THEOREM BackstopNeverFires == SpecApply => []AccountingInvariant
<1> DEFINE BInv == DiscretionaryBudgetRemaining >= 0
<1>1. Init => BInv
  BY InitBudget
<1>2. IInv /\ IInv' /\ BInv /\ [Apply]_vars => BInv'
  BY ApplyKeepsBudget
<1>3. IInv /\ BInv => AccountingInvariant
  BY BalancesType DEF IInv, AccountingInvariant
<1> HIDE DEF BInv
<1> QED
  BY <1>1, <1>2, <1>3, InductiveInvariant, PTL DEF SpecApply
-----------------------------------------------------------------------------
(***************************************************************************)
(* What the ledger remembers: the paper trail that leads from an agreed    *)
(* scope to an invoice, and the receipts of the rail, which are the whole  *)
(* history of every payment and attempt.                                   *)
(***************************************************************************)
\* What the entry of an assignment shows for the stage it has reached.
Trailed(w, e) ==
  /\ e.stage \in {"SCOPED", "AUTHORIZED", "EXECUTING", "DELIVERED", "ACCEPTED"}
       => e.scopeDigest = ScopeDigest(w)
  /\ e.stage = "EXECUTING" => e.execution = Packet(w)
  /\ e.stage \in {"DELIVERED", "ACCEPTED"} => e.artifact = Packet(w)
  /\ e.stage = "ACCEPTED" =>
       e.acceptance = [customer |-> CustomerOf(w), artifact |-> Packet(w), scope |-> ScopeDigest(w),
                  revision |-> Listing[w].criteriaRevision]

\* The invariant behind InvoiceBindsAcceptedDelivery: the trail of every assignment, and
\* an invoice only at its end.
TrailInv ==
  /\ \A w \in Works : Trailed(w, works[w])
  /\ InvoiceBindsAcceptedDelivery

\* The receipts of a table that are about a payment or attempt.
About(remembered, id, types) ==
  {r \in ReceiptIds :
     remembered[r] # None /\ remembered[r].subject = id /\ remembered[r].type \in types}

\* They are its history.
HistoryOf(remembered, id, current, types) ==
  /\ Cardinality(About(remembered, id, types)) = current.sequence
  /\ \A r \in About(remembered, id, types) :
       /\ remembered[r].sequence \in 1 .. current.sequence
       /\ remembered[r].amount = current.amount
       /\ IF remembered[r].sequence = current.sequence
          THEN remembered[r].status = current.status
          ELSE remembered[r].status \notin Terminal
  /\ \A r1, r2 \in About(remembered, id, types) :
       remembered[r1].sequence = remembered[r2].sequence => r1 = r2

AttemptTypes == {"observe_spend", "observe_refund"}
PaymentTypes == {"observe_earning"}

\* The invariant behind ReceiptsAreHistory: nothing was observed of what does not exist.
HistoryInv ==
  /\ receipts \in [ReceiptIds -> RailDigests \cup {None}]
  /\ \A a \in AttemptIds :
       /\ attempts[a].status = "ABSENT" => attempts[a].sequence = 0
       /\ HistoryOf(receipts, a, attempts[a], AttemptTypes)
  /\ \A p \in PaymentIds :
       /\ payments[p].status = "ABSENT" => payments[p].sequence = 0
       /\ HistoryOf(receipts, p, payments[p], PaymentTypes)

-----------------------------------------------------------------------------
(***************************************************************************)
(* The paper trail.                                                        *)
(***************************************************************************)
LEMMA InitTrail ==
  ASSUME Init
  PROVE  TrailInv
BY DEF Init, TrailInv, Trailed, InvoiceBindsAcceptedDelivery, NoWork, NoInvoice

\* Closing an assignment keeps its papers.
LEMMA ClosedKeepsPapers ==
  ASSUME TypeOK, NEW w \in Works, NEW stage \in Stages
  PROVE  LET c == Closed(w, stage)
         IN  /\ c.stage = stage
             /\ c.scopeDigest = works[w].scopeDigest
             /\ c.execution = works[w].execution
             /\ c.artifact = works[w].artifact
             /\ c.acceptance = works[w].acceptance
<1>1. works[w] \in Work
  BY DEF TypeOK
<1> QED
  BY <1>1 DEF Closed, Work

\* Every step leaves an assignment with the papers of its stage, and one that was
\* accepted stays accepted with the same papers.
LEMMA StepKeepsTrail ==
  ASSUME IInv, TrailInv, [Apply]_vars, NEW w \in Works
  PROVE  /\ Trailed(w, works'[w])
         /\ works[w].stage = "ACCEPTED" => works'[w].stage = "ACCEPTED"
<1> DEFINE Kept(v) == /\ works'[v].stage = works[v].stage
                      /\ works'[v].scopeDigest = works[v].scopeDigest
                      /\ works'[v].execution = works[v].execution
                      /\ works'[v].artifact = works[v].artifact
                      /\ works'[v].acceptance = works[v].acceptance
           Good(v) == Trailed(v, works'[v]) /\ (works[v].stage = "ACCEPTED" => works'[v].stage = "ACCEPTED")
<1>0. /\ TypeOK /\ works \in [Works -> Work]
      /\ Trailed(w, works[w])
      /\ \A v \in Works : works[v].stage \in Stages
  BY DEF IInv, TypeOK, TrailInv, Work
<1>1. Kept(w) => Good(w)
  BY <1>0 DEF Trailed
<1>2. works' = works => Kept(w)
  OBVIOUS
<1>3. ASSUME NEW v \in Works, NEW stage \in Stages, works' = [works EXCEPT ![v] = Closed(v, stage)],
             stage \in {"REJECTED", "CANCELLED", "EXPIRED"} \/ stage = works[v].stage,
             works[v].stage # "ACCEPTED" \/ stage = works[v].stage
      PROVE  Good(w)
  <2>1. CASE v # w
    BY <1>0, <1>1, <1>3, <2>1
  <2>2. CASE v = w
    <3>1. works'[w] = Closed(w, stage)
      BY <1>0, <1>3, <2>2
    <3>2. /\ works'[w].stage = stage
          /\ works'[w].scopeDigest = works[w].scopeDigest
          /\ works'[w].execution = works[w].execution
          /\ works'[w].artifact = works[w].artifact
          /\ works'[w].acceptance = works[w].acceptance
      BY <1>0, <3>1, ClosedKeepsPapers
    <3> QED
      BY <1>0, <1>3, <2>2, <3>2 DEF Trailed
  <2> QED
    BY <2>1, <2>2
<1>4. CASE AgentStep
  <2>1. PICK v \in Works :
           \/ DiscoverWork(v) \/ ScopeAssignment(v) \/ AcceptAssignment(v) \/ BeginWork(v)
           \/ \E content \in Packets : DeliverArtifact(v, content)
           \/ IssueInvoice(v) \/ CancelWork(v) \/ CloseCommitment(v)
           \/ \E a \in AttemptIds, amount \in Amounts : BeginSpend(v, a, amount)
           \/ \E a \in AttemptIds : BeginRefund(v, a)
    BY <1>4 DEF AgentStep
  <2>2. CASE DiscoverWork(v)
    BY <1>0, <2>2 DEF DiscoverWork, Trailed, Work
  <2>3. CASE ScopeAssignment(v)
    BY <1>0, <2>3 DEF ScopeAssignment, Trailed, Work
  <2>4. CASE AcceptAssignment(v)
    BY <1>0, <2>4 DEF AcceptAssignment, Trailed, Work
  <2>5. CASE BeginWork(v)
    BY <1>0, <2>5 DEF BeginWork, Trailed, Work
  <2>6. CASE \E content \in Packets : DeliverArtifact(v, content)
    BY <1>0, <2>6 DEF DeliverArtifact, Trailed, Work
  <2>7. CASE CancelWork(v)
    BY <1>3, <2>7 DEF CancelWork, Stages, Unfinished
  <2>8. CASE CloseCommitment(v)
    BY <1>0, <1>3, <2>8 DEF CloseCommitment
  <2>9. CASE \/ IssueInvoice(v)
             \/ \E a \in AttemptIds, amount \in Amounts : BeginSpend(v, a, amount)
             \/ \E a \in AttemptIds : BeginRefund(v, a)
    BY <1>1, <1>2, <2>9 DEF IssueInvoice, BeginSpend, BeginRefund
  <2> QED
    BY <2>1, <2>2, <2>3, <2>4, <2>5, <2>6, <2>7, <2>8, <2>9
<1>5. CASE CustomerStep
  <2>1. PICK c \in Customers, v \in Works :
           \/ \E artifact \in Packets, digest \in ScopeDigests, revision \in Revisions : AcceptDelivery(c, v, artifact, digest, revision)
           \/ RejectDelivery(c, v)
           \/ \E amount \in Amounts : RequestRefund(c, v, amount)
           \/ DisputeInvoice(c, v) \/ ResolveDispute(c, v)
    BY <1>5 DEF CustomerStep
  <2>2. CASE \E artifact \in Packets, digest \in ScopeDigests, revision \in Revisions : AcceptDelivery(c, v, artifact, digest, revision)
    <3>1. PICK artifact, digest, revision : AcceptDelivery(c, v, artifact, digest, revision)
      BY <2>2
    <3>2. /\ works[v].stage = "DELIVERED" /\ CustomerOf(v) = c
          /\ artifact = works[v].artifact /\ digest = works[v].scopeDigest
          /\ revision = Listing[v].criteriaRevision
          /\ works' = [works EXCEPT ![v].stage = "ACCEPTED",
                         ![v].acceptance = [customer |-> c, artifact |-> artifact, scope |-> digest, revision |-> revision]]
      BY <3>1 DEF AcceptDelivery, DeliveryBound
    <3> QED
      BY <1>0, <3>2 DEF Trailed, Work
  <2>3. CASE RejectDelivery(c, v)
    BY <1>3, <2>3 DEF RejectDelivery, Stages
  <2>4. CASE \/ \E amount \in Amounts : RequestRefund(c, v, amount)
             \/ DisputeInvoice(c, v) \/ ResolveDispute(c, v)
    BY <1>1, <1>2, <2>4 DEF RequestRefund, DisputeInvoice, ResolveDispute
  <2> QED
    BY <2>1, <2>2, <2>3, <2>4
<1>6. CASE OperatorStep
  <2>1. CASE \E v \in Works : ExpireWork(v)
    BY <1>3, <2>1 DEF ExpireWork, Stages, Unfinished
  <2>2. CASE (\E s \in Scopes : RevokeScope(s)) \/ (\E t \in Ticks : AdvanceClock(t))
    BY <1>1, <1>2, <2>2 DEF RevokeScope, AdvanceClock
  <2> QED
    BY <1>6, <2>1, <2>2 DEF OperatorStep
<1>7. CASE RailStep
  <2>1. CASE \E o \in Observations, a \in AttemptIds : ObserveSpend(a, o)
    BY <1>0, <1>1, <2>1 DEF ObserveSpend, Work
  <2>2. CASE works' = works
    BY <1>1, <1>2, <2>2
  <2> QED
    BY <1>7, <2>1, <2>2 DEF RailStep, ObserveEarning, ObserveRefund, RepeatObservation, vars
<1>8. CASE UNCHANGED vars
  BY <1>1, <1>2, <1>8 DEF vars
<1> QED
  BY <1>4, <1>5, <1>6, <1>7, <1>8 DEF Apply

\* An invoice is new only when the assignment is accepted, and names its artifact; it
\* names the same one ever after.
LEMMA StepKeepsInvoice ==
  ASSUME IInv, [Apply]_vars, NEW w \in Works, invoices'[w].status # "ABSENT"
  PROVE  \/ invoices[w].status # "ABSENT" /\ invoices'[w].artifact = invoices[w].artifact
         \/ works[w].stage = "ACCEPTED" /\ invoices'[w].artifact = works[w].artifact
<1>0. invoices \in [Works -> Invoice]
  BY DEF IInv, TypeOK
<1>1. CASE \E v \in Works : IssueInvoice(v)
  BY <1>0, <1>1 DEF IssueInvoice, NoInvoice, Invoice
<1>2. CASE \E c \in Customers, v \in Works : DisputeInvoice(c, v) \/ ResolveDispute(c, v)
  BY <1>0, <1>2 DEF DisputeInvoice, ResolveDispute, Invoice
<1>3. CASE \E o \in Observations, v \in Works, p \in PaymentIds : ObserveEarning(v, p, o)
  BY <1>0, <1>3 DEF ObserveEarning, Invoice
<1>4. CASE invoices' = invoices
  BY <1>4
<1>5. \/ invoices' = invoices
      \/ \E v \in Works : IssueInvoice(v)
      \/ \E c \in Customers, v \in Works : DisputeInvoice(c, v) \/ ResolveDispute(c, v)
      \/ \E o \in Observations, v \in Works, p \in PaymentIds : ObserveEarning(v, p, o)
  <2>1. CASE AgentStep
    BY <2>1 DEF AgentStep, DiscoverWork, ScopeAssignment, AcceptAssignment, BeginWork, DeliverArtifact,
                CancelWork, CloseCommitment, BeginSpend, BeginRefund
  <2>2. CASE CustomerStep
    BY <2>2 DEF CustomerStep, AcceptDelivery, RejectDelivery, RequestRefund
  <2>3. CASE OperatorStep
    BY <2>3 DEF OperatorStep, RevokeScope, AdvanceClock, ExpireWork
  <2>4. CASE RailStep
    BY <2>4 DEF RailStep, ObserveSpend, ObserveRefund, RepeatObservation, vars
  <2> QED
    BY <2>1, <2>2, <2>3, <2>4 DEF Apply, vars
<1> QED
  BY <1>1, <1>2, <1>3, <1>4, <1>5

LEMMA ApplyKeepsTrail ==
  ASSUME IInv, TrailInv, [Apply]_vars
  PROVE  TrailInv'
<1>1. \A w \in Works : Trailed(w, works'[w])
  BY StepKeepsTrail
<1>2. ASSUME NEW w \in Works, invoices'[w].status # "ABSENT"
      PROVE  /\ works'[w].stage = "ACCEPTED" /\ invoices'[w].artifact = Packet(w)
             /\ works'[w].acceptance =
                  [customer |-> CustomerOf(w), artifact |-> Packet(w), scope |-> ScopeDigest(w),
                  revision |-> Listing[w].criteriaRevision]
  <2>1. works[w].stage = "ACCEPTED" /\ invoices'[w].artifact = Packet(w)
    BY <1>2, StepKeepsInvoice DEF TrailInv, InvoiceBindsAcceptedDelivery, Trailed
  <2>2. works'[w].stage = "ACCEPTED"
    BY <2>1, StepKeepsTrail
  <2> QED
    BY <1>1, <2>1, <2>2 DEF Trailed
<1>3. InvoiceBindsAcceptedDelivery'
  BY <1>2 DEF InvoiceBindsAcceptedDelivery, CustomerOf, Packet, ScopeDigest
<1> QED
  BY <1>1, <1>3 DEF TrailInv, Trailed, CustomerOf, Packet, ScopeDigest

\* An invoice is issued only for a delivery its own customer accepted, by the hash of the
\* artifact made for it and under the scope agreed, whatever else happens and in
\* whatever order (engine.ts:279-297, 316-323).
THEOREM InvoicesAreAccepted == SpecApply => []InvoiceBindsAcceptedDelivery
<1>1. Init => TrailInv
  BY InitTrail
<1>2. IInv /\ TrailInv /\ [Apply]_vars => TrailInv'
  BY ApplyKeepsTrail
<1>3. TrailInv => InvoiceBindsAcceptedDelivery
  BY DEF TrailInv
<1> QED
  BY <1>1, <1>2, <1>3, InductiveInvariant, PTL DEF SpecApply

-----------------------------------------------------------------------------
(***************************************************************************)
(* The receipts.                                                           *)
(***************************************************************************)
LEMMA HistoryIsReceipts ==
  ASSUME HistoryInv
  PROVE  ReceiptsAreHistory
BY DEF HistoryInv, ReceiptsAreHistory, HistoryOf, About, AttemptTypes, PaymentTypes

\* A history of no receipts.
LEMMA EmptyHistory ==
  ASSUME NEW remembered, NEW id, NEW current, NEW types, current.sequence = 0,
         About(remembered, id, types) = {}
  PROVE  HistoryOf(remembered, id, current, types)
BY FS_EmptySet DEF HistoryOf

LEMMA InitHistory ==
  ASSUME Init
  PROVE  HistoryInv
<1>1. receipts \in [ReceiptIds -> RailDigests \cup {None}] /\ \A r \in ReceiptIds : receipts[r] = None
  BY DEF Init
<1>2. \A id, types : About(receipts, id, types) = {}
  BY <1>1 DEF About
<1>3. /\ \A a \in AttemptIds : attempts[a].sequence = 0
      /\ \A p \in PaymentIds : payments[p].sequence = 0
  BY DEF Init, NoAttempt, NoPayment
<1> QED
  BY <1>1, <1>2, <1>3, EmptyHistory DEF HistoryInv

LEMMA AboutIsFinite ==
  ASSUME NEW remembered, NEW id, NEW types
  PROVE  /\ IsFiniteSet(About(remembered, id, types))
         /\ Cardinality(About(remembered, id, types)) \in Nat
<1>1. About(remembered, id, types) \subseteq ReceiptIds
  BY DEF About
<1>2. IsFiniteSet(About(remembered, id, types))
  BY <1>1, ConfigAssumption, FS_Subset DEF ConfigAssumption
<1> QED
  BY <1>2, FS_CardinalityType

\* A receipt about something else leaves a history as it was.
LEMMA HistoryStands ==
  ASSUME NEW before, NEW after, NEW r \in ReceiptIds, NEW d,
         before[r] = None, after[r] = d, d # None, \A s \in ReceiptIds \ {r} : after[s] = before[s],
         NEW id, NEW current, NEW types,
         ~(d.subject = id /\ d.type \in types),
         HistoryOf(before, id, current, types)
  PROVE  HistoryOf(after, id, current, types)
<1>1. About(after, id, types) = About(before, id, types)
  BY DEF About
<1>2. \A s \in About(before, id, types) : after[s] = before[s]
  BY DEF About
<1> QED
  BY <1>1, <1>2 DEF HistoryOf

\* A receipt about the next sequence number of something still open makes its history longer.
LEMMA HistoryGrows ==
  ASSUME NEW before, NEW after, NEW r \in ReceiptIds, NEW d,
         before[r] = None, after[r] = d, d # None, \A s \in ReceiptIds \ {r} : after[s] = before[s],
         NEW id, NEW current, NEW next, NEW types,
         d.subject = id, d.type \in types,
         current.sequence \in Nat,
         next.sequence = current.sequence + 1,
         next.sequence = d.sequence, next.amount = d.amount, next.status = d.status,
         current.sequence = 0 \/ (current.amount = next.amount /\ current.status \notin Terminal),
         HistoryOf(before, id, current, types)
  PROVE  HistoryOf(after, id, next, types)
<1> DEFINE old == About(before, id, types)
           new == About(after, id, types)
<1>1. new = old \cup {r} /\ r \notin old
  <2>1. new = old \cup {r}
    BY DEF About
  <2>2. r \notin old
    BY DEF About
  <2> QED
    BY <2>1, <2>2
<1>2. /\ \A s \in old : after[s] = before[s]
      /\ after[r] = d
  BY DEF About
<1>3. IsFiniteSet(old) /\ Cardinality(old) = current.sequence
  BY AboutIsFinite DEF HistoryOf
<1>4. Cardinality(new) = next.sequence
  BY <1>1, <1>3, FS_AddElement
<1>5. current.sequence = 0 => old = {}
  BY <1>3, FS_EmptySet
<1>6. \A s \in old :
        /\ before[s].sequence \in 1 .. current.sequence
        /\ before[s].amount = current.amount
        /\ IF before[s].sequence = current.sequence
           THEN before[s].status = current.status
           ELSE before[s].status \notin Terminal
  BY DEF HistoryOf
<1>7. \A r1, r2 \in old : before[r1].sequence = before[r2].sequence => r1 = r2
  BY DEF HistoryOf
<1> HIDE DEF old, new
<1>8. ASSUME NEW s \in new
      PROVE  /\ after[s].sequence \in 1 .. next.sequence
             /\ after[s].amount = next.amount
             /\ IF after[s].sequence = next.sequence
                THEN after[s].status = next.status
                ELSE after[s].status \notin Terminal
  <2>1. CASE s = r
    BY <1>2, <2>1
  <2>2. CASE s \in old
    <3>1. /\ before[s].sequence \in 1 .. current.sequence
          /\ before[s].amount = next.amount
          /\ before[s].status \notin Terminal
      BY <1>5, <1>6, <2>2
    <3> QED
      BY <1>2, <2>2, <3>1
  <2> QED
    BY <1>1, <2>1, <2>2
<1>9. ASSUME NEW r1 \in new, NEW r2 \in new, after[r1].sequence = after[r2].sequence
      PROVE  r1 = r2
  <2>1. \A s \in old : after[s].sequence # after[r].sequence
    <3>1. ASSUME NEW s \in old
          PROVE  after[s].sequence \in 1 .. current.sequence
      BY <1>2, <1>6
    <3> QED
      BY <1>2, <3>1
  <2> QED
    BY <1>1, <1>2, <1>7, <1>9, <2>1
<1> QED
  BY <1>4, <1>8, <1>9 DEF HistoryOf, new

\* The invariant after a step, spelt out.
LEMMA HistoryNext ==
  ASSUME receipts' \in [ReceiptIds -> RailDigests \cup {None}],
         \A a \in AttemptIds : /\ attempts'[a].status = "ABSENT" => attempts'[a].sequence = 0
                               /\ HistoryOf(receipts', a, attempts'[a], AttemptTypes),
         \A p \in PaymentIds : /\ payments'[p].status = "ABSENT" => payments'[p].sequence = 0
                               /\ HistoryOf(receipts', p, payments'[p], PaymentTypes)
  PROVE  HistoryInv'
BY Zenon DEF HistoryInv, HistoryOf, About, AttemptTypes, PaymentTypes

\* A new attempt takes the place of one that was never observed.
LEMMA BeginKeepsHistory ==
  ASSUME HistoryInv, NEW a \in AttemptIds, attempts[a].status = "ABSENT",
         \A b \in AttemptIds \ {a} : attempts'[b] = attempts[b],
         attempts'[a].sequence = 0, UNCHANGED <<payments, receipts>>
  PROVE  HistoryInv'
<1>1. attempts[a].sequence = 0 /\ HistoryOf(receipts, a, attempts[a], AttemptTypes)
  BY DEF HistoryInv
<1>2. About(receipts, a, AttemptTypes) = {}
  <2>1. Cardinality(About(receipts, a, AttemptTypes)) = 0
    BY <1>1 DEF HistoryOf
  <2> QED
    BY <2>1, AboutIsFinite, FS_EmptySet
<1>3. HistoryOf(receipts, a, attempts'[a], AttemptTypes)
  BY <1>2, EmptyHistory
<1>4. \A b \in AttemptIds : /\ attempts'[b].status = "ABSENT" => attempts'[b].sequence = 0
                            /\ HistoryOf(receipts, b, attempts'[b], AttemptTypes)
  BY <1>3 DEF HistoryInv
<1> QED
  BY <1>4, HistoryNext DEF HistoryInv

\* What an observation is remembered by.
LEMMA DigestType ==
  ASSUME NEW o \in Observations, NEW subject \in AttemptIds \cup PaymentIds,
         NEW invoice \in Works \cup {None}, NEW type \in AttemptTypes \cup PaymentTypes
  PROVE  /\ Digest(type, subject, invoice, o) \in RailDigests
         /\ Digest(type, subject, invoice, o).type = type
         /\ Digest(type, subject, invoice, o).subject = subject
         /\ Digest(type, subject, invoice, o).sequence = o.sequence
         /\ Digest(type, subject, invoice, o).amount = o.amount
         /\ Digest(type, subject, invoice, o).status = o.status
BY DEF Digest, RailDigests, Observations, AttemptTypes, PaymentTypes

\* An observation of an attempt adds a receipt to the history of that attempt alone.
LEMMA AttemptObservationKeepsHistory ==
  ASSUME TypeOK, HistoryInv, NEW a \in AttemptIds, NEW o \in Observations, NEW type \in AttemptTypes,
         Unseen(o), Ordered(attempts[a], o), attempts[a].amount = o.amount,
         attempts' = [attempts EXCEPT ![a].sequence = o.sequence, ![a].status = o.status],
         Remember(o, Digest(type, a, None, o)), UNCHANGED payments
  PROVE  HistoryInv'
<1> DEFINE d == Digest(type, a, None, o)
<1>1. /\ d \in RailDigests
      /\ d.type = type /\ d.subject = a
      /\ d.sequence = o.sequence /\ d.amount = o.amount /\ d.status = o.status
  BY DigestType
<1>2. /\ receipts \in [ReceiptIds -> RailDigests \cup {None}]
      /\ o.receipt \in ReceiptIds /\ receipts[o.receipt] = None
      /\ receipts' = [receipts EXCEPT ![o.receipt] = d]
      /\ receipts'[o.receipt] = d
      /\ \A s \in ReceiptIds \ {o.receipt} : receipts'[s] = receipts[s]
  BY DEF HistoryInv, Unseen, Remember, Observations
<1>a. d # None
  BY <1>1, NoneAssumption DEF NoneAssumption
<1> HIDE DEF d
<1>3. /\ attempts[a] \in Attempt /\ attempts \in [AttemptIds -> Attempt]
      /\ o.status \in Statuses
  BY DEF TypeOK, Observations
<1>4. /\ attempts'[a].sequence = o.sequence /\ attempts'[a].status = o.status
      /\ attempts'[a].amount = attempts[a].amount
      /\ \A b \in AttemptIds \ {a} : attempts'[b] = attempts[b]
  BY <1>3 DEF Attempt
<1>5. /\ attempts[a].sequence \in Nat /\ o.sequence = attempts[a].sequence + 1
      /\ attempts[a].status \notin Terminal
  BY <1>3 DEF Ordered, Attempt
<1>6. HistoryOf(receipts', a, attempts'[a], AttemptTypes)
  <2>1. HistoryOf(receipts, a, attempts[a], AttemptTypes)
    BY DEF HistoryInv
  <2> QED
    BY <1>1, <1>2, <1>a, <1>4, <1>5, <2>1, HistoryGrows
<1>7. \A b \in AttemptIds \ {a} : HistoryOf(receipts', b, attempts'[b], AttemptTypes)
  <2> SUFFICES ASSUME NEW b \in AttemptIds \ {a}
               PROVE  HistoryOf(receipts', b, attempts[b], AttemptTypes)
    BY <1>4
  <2>1. HistoryOf(receipts, b, attempts[b], AttemptTypes)
    BY DEF HistoryInv
  <2>2. ~(d.subject = b /\ d.type \in AttemptTypes)
    BY <1>1
  <2> QED
    BY <1>2, <1>a, <2>1, <2>2, HistoryStands
<1>8. \A p \in PaymentIds : HistoryOf(receipts', p, payments[p], PaymentTypes)
  <2> SUFFICES ASSUME NEW p \in PaymentIds
               PROVE  HistoryOf(receipts', p, payments[p], PaymentTypes)
    OBVIOUS
  <2>1. HistoryOf(receipts, p, payments[p], PaymentTypes)
    BY DEF HistoryInv
  <2>2. d.type \notin PaymentTypes
    BY <1>1 DEF AttemptTypes, PaymentTypes
  <2> QED
    BY <1>1, <1>2, <1>a, <2>1, <2>2, HistoryStands
<1>9. receipts' \in [ReceiptIds -> RailDigests \cup {None}]
  BY <1>1, <1>2
<1>10. /\ \A b \in AttemptIds : attempts'[b].status = "ABSENT" => attempts'[b].sequence = 0
       /\ \A p \in PaymentIds : payments'[p].status = "ABSENT" => payments'[p].sequence = 0
  BY <1>3, <1>4 DEF HistoryInv, Statuses
<1> QED
  BY <1>6, <1>7, <1>8, <1>9, <1>10, HistoryNext

\* An observation of a payment adds a receipt to the history of that payment alone.
LEMMA PaymentObservationKeepsHistory ==
  ASSUME TypeOK, HistoryInv, NEW w \in Works, NEW p \in PaymentIds, NEW o \in Observations,
         ObserveEarning(w, p, o)
  PROVE  HistoryInv'
<1> DEFINE d == Digest("observe_earning", p, w, o)
           new == [invoice |-> w, amount |-> o.amount, status |-> o.status, sequence |-> o.sequence]
<1>1. /\ d \in RailDigests
      /\ d.type \in PaymentTypes /\ d.subject = p
      /\ d.sequence = o.sequence /\ d.amount = o.amount /\ d.status = o.status
  BY DigestType DEF PaymentTypes
<1>2. /\ receipts \in [ReceiptIds -> RailDigests \cup {None}]
      /\ o.receipt \in ReceiptIds /\ receipts[o.receipt] = None
      /\ receipts' = [receipts EXCEPT ![o.receipt] = d]
      /\ receipts'[o.receipt] = d
      /\ \A s \in ReceiptIds \ {o.receipt} : receipts'[s] = receipts[s]
  BY DEF HistoryInv, ObserveEarning, Unseen, Remember, Observations
<1>a. d # None
  BY <1>1, NoneAssumption DEF NoneAssumption
<1> HIDE DEF d
<1>3. /\ payments[p] \in Payment /\ payments \in [PaymentIds -> Payment]
      /\ o.status \in Statuses
  BY DEF TypeOK, Observations
<1>4. /\ payments'[p].sequence = o.sequence /\ payments'[p].status = o.status
      /\ payments'[p].amount = o.amount
      /\ \A q \in PaymentIds \ {p} : payments'[q] = payments[q]
      /\ UNCHANGED attempts
  BY <1>3 DEF ObserveEarning
<1>5. payments[p].status = "ABSENT" => payments[p].sequence = 0
  BY DEF HistoryInv
<1>6. /\ payments[p].sequence \in Nat /\ o.sequence = payments[p].sequence + 1
      /\ payments[p].sequence = 0 \/ (payments[p].amount = o.amount /\ payments[p].status \notin Terminal)
  <2>1. payments[p].sequence \in Nat
    BY <1>3 DEF Payment
  <2>2. PaymentAdmitted(w, p, o)
    BY DEF ObserveEarning
  <2> QED
    BY <1>5, <2>1, <2>2 DEF PaymentAdmitted, Ordered
<1>7. HistoryOf(receipts', p, payments'[p], PaymentTypes)
  <2>1. HistoryOf(receipts, p, payments[p], PaymentTypes)
    BY DEF HistoryInv
  <2> QED
    BY <1>1, <1>2, <1>a, <1>4, <1>6, <2>1, HistoryGrows
<1>8. \A q \in PaymentIds \ {p} : HistoryOf(receipts', q, payments'[q], PaymentTypes)
  <2> SUFFICES ASSUME NEW q \in PaymentIds \ {p}
               PROVE  HistoryOf(receipts', q, payments[q], PaymentTypes)
    BY <1>4
  <2>1. HistoryOf(receipts, q, payments[q], PaymentTypes)
    BY DEF HistoryInv
  <2>2. ~(d.subject = q /\ d.type \in PaymentTypes)
    BY <1>1
  <2> QED
    BY <1>2, <1>a, <2>1, <2>2, HistoryStands
<1>9. \A a \in AttemptIds : HistoryOf(receipts', a, attempts[a], AttemptTypes)
  <2> SUFFICES ASSUME NEW a \in AttemptIds
               PROVE  HistoryOf(receipts', a, attempts[a], AttemptTypes)
    OBVIOUS
  <2>1. HistoryOf(receipts, a, attempts[a], AttemptTypes)
    BY DEF HistoryInv
  <2>2. d.type \notin AttemptTypes
    BY <1>1 DEF AttemptTypes, PaymentTypes
  <2> QED
    BY <1>1, <1>2, <1>a, <2>1, <2>2, HistoryStands
<1>10. receipts' \in [ReceiptIds -> RailDigests \cup {None}]
  BY <1>1, <1>2
<1>11. /\ \A a \in AttemptIds : attempts'[a].status = "ABSENT" => attempts'[a].sequence = 0
       /\ \A q \in PaymentIds : payments'[q].status = "ABSENT" => payments'[q].sequence = 0
  BY <1>3, <1>4 DEF HistoryInv, Statuses
<1> QED
  BY <1>4, <1>7, <1>8, <1>9, <1>10, <1>11, HistoryNext

LEMMA ApplyKeepsHistory ==
  ASSUME IInv, HistoryInv, [Apply]_vars
  PROVE  HistoryInv'
<1>0. TypeOK
  BY DEF IInv
<1>1. CASE UNCHANGED <<attempts, payments, receipts>>
  BY <1>1, HistoryNext DEF HistoryInv
<1>2. ASSUME NEW w \in Works, NEW a \in AttemptIds,
             (\E amount \in Amounts : BeginSpend(w, a, amount)) \/ BeginRefund(w, a)
      PROVE  HistoryInv'
  <2>1. /\ attempts[a].status = "ABSENT"
        /\ \A b \in AttemptIds \ {a} : attempts'[b] = attempts[b]
        /\ attempts'[a].sequence = 0
        /\ UNCHANGED <<payments, receipts>>
    BY <1>0, <1>2 DEF BeginSpend, BeginRefund, TypeOK
  <2> QED
    BY <2>1, BeginKeepsHistory
<1>3. ASSUME NEW a \in AttemptIds, NEW o \in Observations, ObserveSpend(a, o)
      PROVE  HistoryInv'
  BY <1>0, <1>3, AttemptObservationKeepsHistory DEF ObserveSpend, AttemptTypes
<1>4. ASSUME NEW a \in AttemptIds, NEW o \in Observations, ObserveRefund(a, o)
      PROVE  HistoryInv'
  BY <1>0, <1>4, AttemptObservationKeepsHistory DEF ObserveRefund, AttemptTypes
<1>5. ASSUME NEW w \in Works, NEW p \in PaymentIds, NEW o \in Observations, ObserveEarning(w, p, o)
      PROVE  HistoryInv'
  BY <1>0, <1>5, PaymentObservationKeepsHistory
<1>6. CASE AgentStep
  <2>1. CASE \E w \in Works, a \in AttemptIds :
               (\E amount \in Amounts : BeginSpend(w, a, amount)) \/ BeginRefund(w, a)
    BY <1>2, <2>1
  <2>2. CASE UNCHANGED <<attempts, payments, receipts>>
    BY <1>1, <2>2
  <2> QED
    BY <1>6, <2>1, <2>2
       DEF AgentStep, DiscoverWork, ScopeAssignment, AcceptAssignment, BeginWork, DeliverArtifact,
           IssueInvoice, CancelWork, CloseCommitment
<1>7. CASE CustomerStep
  BY <1>1, <1>7 DEF CustomerStep, AcceptDelivery, RejectDelivery, RequestRefund, DisputeInvoice, ResolveDispute
<1>8. CASE OperatorStep
  BY <1>1, <1>8 DEF OperatorStep, RevokeScope, AdvanceClock, ExpireWork
<1>9. CASE RailStep
  BY <1>1, <1>3, <1>4, <1>5, <1>9 DEF RailStep, RepeatObservation, vars
<1> QED
  BY <1>1, <1>6, <1>7, <1>8, <1>9 DEF Apply, vars

\* The receipts remembered are the whole history of every payment and attempt, one for
\* each sequence number it has reached, however the rail repeats, reorders or reuses
\* its receipts (engine.ts:220-234, 354-358, 408-421).
THEOREM ReceiptsTellAll == SpecApply => []ReceiptsAreHistory
<1>1. Init => HistoryInv
  BY InitHistory
<1>2. IInv /\ HistoryInv /\ [Apply]_vars => HistoryInv'
  BY ApplyKeepsHistory
<1>3. HistoryInv => ReceiptsAreHistory
  BY HistoryIsReceipts
<1> QED
  BY <1>1, <1>2, <1>3, InductiveInvariant, PTL DEF SpecApply
-----------------------------------------------------------------------------
(***************************************************************************)
(* Proofs that the agent-work ledger keeps its books: what the rail        *)
(* settles is what the totals say, nothing is spent, paid or refunded      *)
(* beyond what was agreed, and only a customer brings about a shortfall.   *)
(* The sums over attempts and payments are tied, by induction over the     *)
(* steps, to sums over assignments, which the treasury is made of.         *)
(***************************************************************************)

\* An entry that does not exist carries nothing, no refund exceeds what was settled, and
\* a refund in flight is bound to its attempt.
BindingInv ==
  /\ \A w \in Works :
       /\ invoices[w].status = "ABSENT" => invoices[w].settledAmount = 0 /\ ~invoices[w].dispute
       /\ obligations[w].status = "ABSENT" => obligations[w].amount = 0
       /\ obligations[w].status = "IN_FLIGHT" => obligations[w].attempt \in AttemptIds
       /\ obligations[w].amount <= invoices[w].settledAmount
  /\ RefundBinding

\* What was settled on each invoice, what each assignment has in flight, and the refunds
\* that have reached a status: sums over assignments for the sums over attempts and payments.
SettledAmounts == [w \in Works |-> invoices[w].settledAmount]

InFlights == [w \in Works |-> InFlight(w)]

RefundTable(status) ==
  [w \in Works |-> IF obligations[w].status = status THEN obligations[w].amount ELSE 0]

EarningInv ==
  /\ settledEarnings = TotalOf(PaymentTable(Works, {"SETTLED"}))
  /\ settledEarnings = TotalOf(SettledAmounts)
  /\ \A w \in Works : invoices[w].settledAmount = TotalOf(PaymentTable({w}, {"SETTLED"}))
  /\ NeverOverpaid

SpendInv ==
  /\ settledSpend = TotalOf(AttemptTable("SPEND", Works, {"SETTLED"}))
  /\ TotalOf(AttemptTable("SPEND", Works, Unsettled)) = TotalOf(InFlights)

RefundInv ==
  /\ settledRefunds = TotalOf(AttemptTable("REFUND", Works, {"SETTLED"}))
  /\ settledRefunds = TotalOf(RefundTable("SETTLED"))
  /\ TotalOf(AttemptTable("REFUND", Works, Unsettled)) = TotalOf(RefundTable("IN_FLIGHT"))

\* What an assignment has spent, has in flight and still holds is within its ceiling.
CeilingInv ==
  /\ \A a \in AttemptIds :
       attempts[a].kind = "SPEND" /\ attempts[a].status # "ABSENT" =>
         works[attempts[a].target].commitment # "ABSENT"
  /\ \A w \in Works :
       TotalOf(AttemptTable("SPEND", {w}, Unsettled \cup {"SETTLED"})) + works[w].held
         <= Listing[w].costCeiling + InFlight(w)

-----------------------------------------------------------------------------
(***************************************************************************)
(* What one attempt or payment adds to a sum.                              *)
(***************************************************************************)
LEMMA AttemptTableType ==
  ASSUME TypeOK, NEW kind, NEW targets, NEW statuses
  PROVE  /\ AttemptTable(kind, targets, statuses) \in [AttemptIds -> Nat]
         /\ TotalOf(AttemptTable(kind, targets, statuses)) \in Nat
<1>1. AttemptTable(kind, targets, statuses) \in [AttemptIds -> Nat]
  BY DEF TypeOK, Attempt, AttemptTable
<1> QED
  BY <1>1, ConfigAssumption, TotalType DEF ConfigAssumption

LEMMA PaymentTableType ==
  ASSUME TypeOK, NEW targets, NEW statuses
  PROVE  /\ PaymentTable(targets, statuses) \in [PaymentIds -> Nat]
         /\ TotalOf(PaymentTable(targets, statuses)) \in Nat
<1>1. PaymentTable(targets, statuses) \in [PaymentIds -> Nat]
  BY DEF TypeOK, Payment, PaymentTable
<1> QED
  BY <1>1, ConfigAssumption, TotalType DEF ConfigAssumption

\* A sum over attempts changes by the amount of the one that moves into or out of it.
LEMMA AttemptMoves ==
  ASSUME TypeOK, TypeOK', NEW a \in AttemptIds, \A b \in AttemptIds \ {a} : attempts'[b] = attempts[b],
         NEW kind, NEW targets, NEW statuses, "ABSENT" \notin statuses,
         \/ attempts[a].status = "ABSENT"
         \/ /\ attempts'[a].kind = attempts[a].kind
            /\ attempts'[a].target = attempts[a].target
            /\ attempts'[a].amount = attempts[a].amount
  PROVE  LET among == attempts'[a].kind = kind /\ attempts'[a].target \in targets
             amount == attempts'[a].amount
         IN  /\ TotalOf(AttemptTable(kind, targets, statuses))'
                  + (IF among /\ attempts[a].status \in statuses THEN amount ELSE 0)
                = TotalOf(AttemptTable(kind, targets, statuses))
                  + (IF among /\ attempts'[a].status \in statuses THEN amount ELSE 0)
             /\ TotalOf(AttemptTable(kind, targets, statuses)) \in Nat
             /\ TotalOf(AttemptTable(kind, targets, statuses))' \in Nat
<1> DEFINE f == AttemptTable(kind, targets, statuses)
<1>1. f \in [AttemptIds -> Nat] /\ TotalOf(f) \in Nat
  BY AttemptTableType
<1>2. f' \in [AttemptIds -> Nat]
  BY DEF TypeOK, Attempt, AttemptTable
<1>3. TotalOf(f') \in Nat
  BY <1>2, ConfigAssumption, TotalType DEF ConfigAssumption
<1>4. \A b \in AttemptIds \ {a} : f'[b] = f[b]
  BY DEF AttemptTable
<1>5. TotalOf(f') + f[a] = TotalOf(f) + f'[a]
  BY <1>1, <1>2, <1>4, AttemptTableUpdate
<1>6. f[a] = IF attempts[a].kind = kind /\ attempts[a].target \in targets /\ attempts[a].status \in statuses
             THEN attempts[a].amount ELSE 0
  BY DEF AttemptTable
<1>7. f'[a] = IF attempts'[a].kind = kind /\ attempts'[a].target \in targets /\ attempts'[a].status \in statuses
              THEN attempts'[a].amount ELSE 0
  BY DEF AttemptTable
<1> HIDE DEF f
<1> QED
  BY <1>1, <1>3, <1>5, <1>6, <1>7 DEF f

LEMMA PaymentMoves ==
  ASSUME TypeOK, TypeOK', NEW p \in PaymentIds, \A q \in PaymentIds \ {p} : payments'[q] = payments[q],
         NEW targets, NEW statuses, "ABSENT" \notin statuses,
         \/ payments[p].status = "ABSENT"
         \/ payments'[p].invoice = payments[p].invoice /\ payments'[p].amount = payments[p].amount
  PROVE  LET among == payments'[p].invoice \in targets
             amount == payments'[p].amount
         IN  /\ TotalOf(PaymentTable(targets, statuses))'
                  + (IF among /\ payments[p].status \in statuses THEN amount ELSE 0)
                = TotalOf(PaymentTable(targets, statuses))
                  + (IF among /\ payments'[p].status \in statuses THEN amount ELSE 0)
             /\ TotalOf(PaymentTable(targets, statuses)) \in Nat
             /\ TotalOf(PaymentTable(targets, statuses))' \in Nat
<1> DEFINE f == PaymentTable(targets, statuses)
<1>1. f \in [PaymentIds -> Nat] /\ TotalOf(f) \in Nat
  BY PaymentTableType
<1>2. f' \in [PaymentIds -> Nat]
  BY DEF TypeOK, Payment, PaymentTable
<1>3. TotalOf(f') \in Nat
  BY <1>2, ConfigAssumption, TotalType DEF ConfigAssumption
<1>4. \A q \in PaymentIds \ {p} : f'[q] = f[q]
  BY DEF PaymentTable
<1>5. TotalOf(f') + f[p] = TotalOf(f) + f'[p]
  BY <1>1, <1>2, <1>4, ConfigAssumption, TotalUpdate DEF ConfigAssumption
<1>6. f[p] = IF payments[p].invoice \in targets /\ payments[p].status \in statuses
             THEN payments[p].amount ELSE 0
  BY DEF PaymentTable
<1>7. f'[p] = IF payments'[p].invoice \in targets /\ payments'[p].status \in statuses
              THEN payments'[p].amount ELSE 0
  BY DEF PaymentTable
<1> HIDE DEF f
<1> QED
  BY <1>1, <1>3, <1>5, <1>6, <1>7 DEF f

\* What an assignment has in flight is such a sum.
LEMMA InFlightIsTotal ==
  ASSUME NEW w
  PROVE  /\ InFlight(w) = TotalOf(AttemptTable("SPEND", {w}, Unsettled))
         /\ InFlight(w)' = TotalOf(AttemptTable("SPEND", {w}, Unsettled))'
<1>1. InFlightTable(w) = AttemptTable("SPEND", {w}, Unsettled)
  BY DEF InFlightTable, AttemptTable, Pending, Unsettled
<1>2. InFlightTable(w)' = AttemptTable("SPEND", {w}, Unsettled)'
  BY DEF InFlightTable, AttemptTable, Pending, Unsettled
<1> QED
  BY <1>1, <1>2 DEF InFlight

\* The sums over assignments are natural numbers.
LEMMA WorkTablesType ==
  ASSUME TypeOK, NEW status
  PROVE  /\ InFlights \in [Works -> Nat] /\ TotalOf(InFlights) \in Nat
         /\ SettledAmounts \in [Works -> Nat] /\ TotalOf(SettledAmounts) \in Nat
         /\ RefundTable(status) \in [Works -> Nat] /\ TotalOf(RefundTable(status)) \in Nat
         /\ HeldTable \in [Works -> Nat] /\ Commitments \in Nat
         /\ OwedTable \in [Works -> Nat] /\ ObligationTotal \in Nat
<1>1. InFlights \in [Works -> Nat]
  BY InFlightType, ConfigAssumption DEF InFlights
<1>2. /\ SettledAmounts \in [Works -> Nat] /\ RefundTable(status) \in [Works -> Nat]
      /\ HeldTable \in [Works -> Nat] /\ OwedTable \in [Works -> Nat]
  BY DEF SettledAmounts, RefundTable, HeldTable, OwedTable, TypeOK, Invoice, Obligation, Work
<1> QED
  BY <1>1, <1>2, ConfigAssumption, TotalType DEF ConfigAssumption, Commitments, ObligationTotal

-----------------------------------------------------------------------------
\* The steps that money passes through; every other step changes assignments at most.
LEMMA MoneySteps ==
  ASSUME [Apply]_vars
  PROVE  \/ UNCHANGED <<invoices, attempts, obligations, payments, totals>>
         \/ \E w \in Works : IssueInvoice(w)
         \/ \E c \in Customers, w \in Works :
              \/ DisputeInvoice(c, w) \/ ResolveDispute(c, w)
              \/ \E amount \in Amounts : RequestRefund(c, w, amount)
         \/ \E w \in Works, a \in AttemptIds :
              BeginRefund(w, a) \/ \E amount \in Amounts : BeginSpend(w, a, amount)
         \/ \E o \in Observations :
              \/ \E w \in Works, p \in PaymentIds : ObserveEarning(w, p, o)
              \/ \E a \in AttemptIds : ObserveSpend(a, o) \/ ObserveRefund(a, o)
<1>1. CASE AgentStep
  BY <1>1 DEF AgentStep, DiscoverWork, ScopeAssignment, AcceptAssignment, BeginWork, DeliverArtifact,
              CancelWork, CloseCommitment
<1>2. CASE CustomerStep
  BY <1>2 DEF CustomerStep, AcceptDelivery, RejectDelivery
<1>3. CASE OperatorStep
  BY <1>3 DEF OperatorStep, RevokeScope, AdvanceClock, ExpireWork
<1>4. CASE RailStep
  BY <1>4 DEF RailStep, RepeatObservation, vars, totals
<1> QED
  BY <1>1, <1>2, <1>3, <1>4 DEF Apply, vars, totals

\* What an observation of an attempt does to the table of attempts.
LEMMA ObservedAttempt ==
  ASSUME TypeOK, NEW a \in AttemptIds, NEW o \in Observations, Ordered(attempts[a], o),
         attempts[a].status # "ABSENT",
         attempts' = [attempts EXCEPT ![a].sequence = o.sequence, ![a].status = o.status]
  PROVE  /\ attempts'[a].kind = attempts[a].kind
         /\ attempts'[a].target = attempts[a].target
         /\ attempts'[a].amount = attempts[a].amount
         /\ attempts'[a].status = o.status
         /\ attempts[a].status \in Unsettled
         /\ o.status \in Statuses
         /\ \A b \in AttemptIds \ {a} : attempts'[b] = attempts[b]
BY DEF TypeOK, Attempt, Ordered, Observations, Statuses, Unsettled, Terminal

-----------------------------------------------------------------------------
(***************************************************************************)
(* Refunds and their attempts.                                             *)
(***************************************************************************)
LEMMA InitBinding ==
  ASSUME Init
  PROVE  BindingInv
BY DEF Init, BindingInv, RefundBinding, NoInvoice, NoObligation, NoAttempt, Unsettled

\* The steps that change invoices or obligations and no attempt.
LEMMA InvoiceStepsKeepBinding ==
  ASSUME IInv, BindingInv, UNCHANGED attempts,
         \/ \E w \in Works : IssueInvoice(w)
         \/ \E c \in Customers, w \in Works :
              \/ DisputeInvoice(c, w) \/ ResolveDispute(c, w)
              \/ \E amount \in Amounts : RequestRefund(c, w, amount)
         \/ \E o \in Observations, w \in Works, p \in PaymentIds : ObserveEarning(w, p, o)
  PROVE  BindingInv'
<1>0. /\ TypeOK
      /\ invoices \in [Works -> Invoice] /\ obligations \in [Works -> Obligation]
      /\ attempts \in [AttemptIds -> Attempt]
  BY DEF IInv, TypeOK
<1>1. CASE \E w \in Works : IssueInvoice(w)
  <2>1. PICK w \in Works : IssueInvoice(w)
    BY <1>1
  <2>2. /\ invoices[w].status = "ABSENT" /\ UNCHANGED obligations
        /\ invoices'[w].settledAmount = 0 /\ invoices'[w].status = "ISSUED"
        /\ \A v \in Works \ {w} : invoices'[v] = invoices[v]
    BY <1>0, <2>1 DEF IssueInvoice, NoInvoice
  <2> QED
    BY <2>2 DEF BindingInv, RefundBinding
<1>2. CASE \E c \in Customers, w \in Works : DisputeInvoice(c, w) \/ ResolveDispute(c, w)
  BY <1>0, <1>2 DEF BindingInv, RefundBinding, DisputeInvoice, ResolveDispute, Invoice
<1>3. CASE \E c \in Customers, w \in Works, amount \in Amounts : RequestRefund(c, w, amount)
  <2>1. PICK w \in Works, amount \in Amounts :
          /\ obligations[w].status = "ABSENT"
          /\ amount <= invoices[w].settledAmount
          /\ obligations' = [obligations EXCEPT ![w] =
               [status |-> "OPEN", amount |-> amount, attempt |-> None]]
          /\ UNCHANGED invoices
    <3>1. PICK c \in Customers, w \in Works, amount \in Amounts : RequestRefund(c, w, amount)
      BY <1>3
    <3> QED
      BY <3>1 DEF RequestRefund, RefundLimit
  <2> QED
    BY <1>0, <2>1 DEF BindingInv, RefundBinding, Obligation
<1>4. CASE \E o \in Observations, w \in Works, p \in PaymentIds : ObserveEarning(w, p, o)
  <2>1. PICK o \in Observations, w \in Works, p \in PaymentIds : ObserveEarning(w, p, o)
    BY <1>4
  <2>2. PICK earned \in Nat :
          /\ invoices' = [invoices EXCEPT
               ![w].settledAmount = invoices[w].settledAmount + earned,
               ![w].status = InvoiceStatus(invoices[w].settledAmount + earned, Listing[w].reward)]
          /\ invoices[w].status # "ABSENT"
          /\ UNCHANGED obligations
    <3>1. o.amount \in Nat
      BY InputAssumption DEF Observations, InputAssumption
    <3> QED
      BY <2>1, <3>1 DEF ObserveEarning
  <2>3. \A v \in Works : /\ invoices'[v].status = "ABSENT" <=> invoices[v].status = "ABSENT"
                         /\ invoices'[v].dispute = invoices[v].dispute
                         /\ v # w => invoices'[v] = invoices[v]
    BY <1>0, <2>2 DEF Invoice, InvoiceStatus
  <2>4. /\ \A v \in Works : obligations[v].amount \in Nat
        /\ invoices'[w].settledAmount = invoices[w].settledAmount + earned
        /\ invoices[w].settledAmount \in Nat
    BY <1>0, <2>2 DEF Invoice, Obligation
  <2> QED
    BY <1>0, <2>2, <2>3, <2>4 DEF BindingInv, RefundBinding
<1> QED
  BY <1>1, <1>2, <1>3, <1>4

\* The steps that begin or observe an attempt.
LEMMA AttemptStepsKeepBinding ==
  ASSUME IInv, BindingInv, UNCHANGED invoices, NEW a \in AttemptIds,
         \/ \E w \in Works : BeginRefund(w, a) \/ \E amount \in Amounts : BeginSpend(w, a, amount)
         \/ \E o \in Observations : ObserveSpend(a, o) \/ ObserveRefund(a, o)
  PROVE  BindingInv'
<1>0. /\ TypeOK
      /\ invoices \in [Works -> Invoice] /\ obligations \in [Works -> Obligation]
      /\ attempts \in [AttemptIds -> Attempt]
  BY DEF IInv, TypeOK
<1>1. CASE \E w \in Works, amount \in Amounts : BeginSpend(w, a, amount)
  BY <1>0, <1>1 DEF BindingInv, RefundBinding, BeginSpend, Unsettled
<1>2. CASE \E w \in Works : BeginRefund(w, a)
  <2>1. PICK w \in Works : BeginRefund(w, a)
    BY <1>2
  <2>2. /\ obligations[w].status = "OPEN" /\ attempts[a].status = "ABSENT"
        /\ attempts'[a] = [kind |-> "REFUND", target |-> w, amount |-> obligations[w].amount,
                           status |-> "REQUESTED", sequence |-> 0]
        /\ \A b \in AttemptIds \ {a} : attempts'[b] = attempts[b]
        /\ obligations'[w].status = "IN_FLIGHT" /\ obligations'[w].attempt = a
        /\ obligations'[w].amount = obligations[w].amount
        /\ \A v \in Works \ {w} : obligations'[v] = obligations[v]
    BY <1>0, <2>1 DEF BeginRefund, Obligation
  <2> QED
    BY <1>0, <2>2 DEF BindingInv, RefundBinding, Unsettled, IInv, AttemptsHaveTargets
<1>3. CASE \E o \in Observations : ObserveSpend(a, o)
  <2>1. PICK o \in Observations : ObserveSpend(a, o)
    BY <1>3
  <2>2. /\ attempts'[a].kind = "SPEND" /\ attempts[a].kind = "SPEND"
        /\ \A b \in AttemptIds \ {a} : attempts'[b] = attempts[b]
        /\ UNCHANGED obligations
    BY <1>0, <2>1, ObservedAttempt DEF ObserveSpend
  <2> QED
    BY <2>2 DEF BindingInv, RefundBinding
<1>4. CASE \E o \in Observations : ObserveRefund(a, o)
  <2>1. PICK o \in Observations : ObserveRefund(a, o)
    BY <1>4
  <2>2. PICK w \in Works : w = attempts[a].target
    BY <2>1 DEF ObserveRefund, IInv, AttemptsHaveTargets
  <2>3. /\ attempts'[a].kind = "REFUND" /\ attempts'[a].target = w
        /\ attempts'[a].amount = attempts[a].amount /\ attempts'[a].status = o.status
        /\ attempts[a].kind = "REFUND" /\ attempts[a].status \in Unsettled
        /\ o.status \in Statuses
        /\ \A b \in AttemptIds \ {a} : attempts'[b] = attempts[b]
    BY <1>0, <2>1, <2>2, ObservedAttempt DEF ObserveRefund
  <2>4. /\ obligations[w].status = "IN_FLIGHT" /\ obligations[w].attempt = a
        /\ obligations'[w] = AfterRefund(obligations[w], o)
        /\ \A v \in Works \ {w} : obligations'[v] = obligations[v]
    BY <1>0, <2>1, <2>2 DEF ObserveRefund
  <2>5. /\ obligations'[w].amount = obligations[w].amount
        /\ o.status \in Unsettled => obligations'[w] = obligations[w]
        /\ o.status \notin Unsettled => obligations'[w].status \in {"OPEN", "SETTLED"}
    BY <1>0, <2>3, <2>4 DEF AfterRefund, Obligation, Statuses, Unsettled
  <2>6. \A v \in Works : obligations'[v].amount = obligations[v].amount
    BY <2>4, <2>5
  <2>7. \A v \in Works : obligations'[v].status = "ABSENT" => obligations[v].status = "ABSENT"
    BY <2>4, <2>5
  <2>8. RefundBinding'
    <3>1. ASSUME NEW b \in AttemptIds, attempts'[b].kind = "REFUND", attempts'[b].status \in Unsettled
          PROVE  LET r == obligations'[attempts'[b].target]
                 IN  r.status = "IN_FLIGHT" /\ r.attempt = b /\ r.amount = attempts'[b].amount
      <4>1. CASE b = a
        BY <2>3, <2>4, <2>5, <3>1, <4>1 DEF BindingInv, RefundBinding
      <4>2. CASE b # a
        BY <2>3, <2>4, <3>1, <4>2 DEF BindingInv, RefundBinding, IInv, AttemptsHaveTargets, Unsettled
      <4> QED
        BY <4>1, <4>2
    <3>2. ASSUME NEW v \in Works, obligations'[v].status = "IN_FLIGHT"
          PROVE  LET b == attempts'[obligations'[v].attempt]
                 IN  b.kind = "REFUND" /\ b.target = v /\ b.status \in Unsettled
      <4>1. CASE v = w
        BY <2>3, <2>4, <2>5, <3>2, <4>1
      <4>2. CASE v # w
        BY <2>2, <2>3, <2>4, <3>2, <4>2 DEF BindingInv, RefundBinding
      <4> QED
        BY <4>1, <4>2
    <3> QED
      BY <3>1, <3>2 DEF RefundBinding, Unsettled
  <2>9. \A v \in Works : obligations'[v].status = "IN_FLIGHT" => obligations'[v].attempt \in AttemptIds
    BY <2>3, <2>4, <2>5 DEF BindingInv
  <2> QED
    BY <2>6, <2>7, <2>8, <2>9 DEF BindingInv
<1> QED
  BY <1>1, <1>2, <1>3, <1>4

LEMMA ApplyKeepsBinding ==
  ASSUME IInv, BindingInv, [Apply]_vars
  PROVE  BindingInv'
<1>1. CASE UNCHANGED <<invoices, attempts, obligations, payments, totals>>
  BY <1>1 DEF BindingInv, RefundBinding
<1>2. CASE \/ \E w \in Works : IssueInvoice(w)
           \/ \E c \in Customers, w \in Works :
                \/ DisputeInvoice(c, w) \/ ResolveDispute(c, w)
                \/ \E amount \in Amounts : RequestRefund(c, w, amount)
           \/ \E o \in Observations, w \in Works, p \in PaymentIds : ObserveEarning(w, p, o)
  <2>1. UNCHANGED attempts
    BY <1>2 DEF IssueInvoice, DisputeInvoice, ResolveDispute, RequestRefund, ObserveEarning
  <2> QED
    BY <1>2, <2>1, InvoiceStepsKeepBinding
<1>3. ASSUME NEW a \in AttemptIds,
             \/ \E w \in Works : BeginRefund(w, a) \/ \E amount \in Amounts : BeginSpend(w, a, amount)
             \/ \E o \in Observations : ObserveSpend(a, o) \/ ObserveRefund(a, o)
      PROVE  BindingInv'
  <2>1. UNCHANGED invoices
    BY <1>3 DEF BeginRefund, BeginSpend, ObserveSpend, ObserveRefund
  <2> QED
    BY <1>3, <2>1, AttemptStepsKeepBinding
<1> QED
  BY <1>1, <1>2, <1>3, MoneySteps

-----------------------------------------------------------------------------
(***************************************************************************)
(* Payments and what was earned.                                           *)
(***************************************************************************)
LEMMA InitEarning ==
  ASSUME Init
  PROVE  EarningInv
<1>0. TypeOK
  BY InitIInv, ConfigAssumption DEF IInv
<1>1. \A targets, statuses : TotalOf(PaymentTable(targets, statuses)) = 0
  <2> SUFFICES ASSUME NEW targets, NEW statuses
               PROVE  TotalOf(PaymentTable(targets, statuses)) = 0
    OBVIOUS
  <2>1. \A p \in PaymentIds : PaymentTable(targets, statuses)[p] = 0
    BY DEF Init, PaymentTable, NoPayment
  <2>2. PaymentTable(targets, statuses) \in [PaymentIds -> Nat]
    BY <1>0, PaymentTableType
  <2> QED
    BY <2>1, <2>2, TotalZero
<1>2. SettledAmounts \in [Works -> Nat] /\ \A w \in Works : SettledAmounts[w] = 0
  BY DEF Init, SettledAmounts, NoInvoice
<1>3. TotalOf(SettledAmounts) = 0
  BY <1>2, TotalZero
<1>4. \A w \in Works : Listing[w].reward \in Nat
  BY ConfigAssumption DEF ConfigAssumption, Listings
<1>5. settledEarnings = 0 /\ \A w \in Works : invoices[w].settledAmount = 0
  BY DEF Init, NoInvoice
<1> QED
  BY <1>1, <1>3, <1>4, <1>5 DEF EarningInv, NeverOverpaid

\* The payments of an invoice that have not failed take up its room.
LEMMA PaidCovers ==
  ASSUME TypeOK, NEW w \in Works
  PROVE  /\ TotalOf(PaymentTable({w}, {"PENDING", "UNKNOWN", "SETTLED"})) <= TotalOf(PaidTable(w))
         /\ TotalOf(PaidTable(w)) \in Nat
<1> DEFINE f == PaymentTable({w}, {"PENDING", "UNKNOWN", "SETTLED"})
           g == PaidTable(w)
<1>1. f \in [PaymentIds -> Nat]
  BY PaymentTableType
<1>2. g \in [PaymentIds -> Nat]
  BY DEF TypeOK, Payment, PaidTable
<1>3. \A p \in PaymentIds : f[p] <= g[p]
  BY DEF TypeOK, Payment, PaymentTable, PaidTable
<1>4. IsFiniteSet(PaymentIds)
  BY ConfigAssumption DEF ConfigAssumption
<1> HIDE DEF f, g
<1>5. TotalOf(f) <= TotalOf(g)
  BY <1>1, <1>2, <1>3, <1>4, TotalMonotone
<1>6. TotalOf(g) \in Nat
  BY <1>2, <1>4, TotalType
<1> QED
  BY <1>5, <1>6 DEF f, g

\* One invoice's settled amount moves.
LEMMA SettledMoves ==
  ASSUME TypeOK, TypeOK', NEW w \in Works,
         \A v \in Works \ {w} : invoices'[v].settledAmount = invoices[v].settledAmount
  PROVE  /\ TotalOf(SettledAmounts)' + invoices[w].settledAmount
              = TotalOf(SettledAmounts) + invoices'[w].settledAmount
         /\ TotalOf(SettledAmounts) \in Nat /\ TotalOf(SettledAmounts)' \in Nat
<1>1. SettledAmounts \in [Works -> Nat] /\ SettledAmounts' \in [Works -> Nat]
  BY DEF TypeOK, Invoice, SettledAmounts
<1>2. /\ SettledAmounts[w] = invoices[w].settledAmount /\ SettledAmounts'[w] = invoices'[w].settledAmount
      /\ \A v \in Works \ {w} : SettledAmounts'[v] = SettledAmounts[v]
  BY DEF SettledAmounts
<1>3. TotalOf(SettledAmounts') + SettledAmounts[w] = TotalOf(SettledAmounts) + SettledAmounts'[w]
  BY <1>1, <1>2, WorkTableUpdate
<1>4. TotalOf(SettledAmounts) \in Nat /\ TotalOf(SettledAmounts') \in Nat
  BY <1>1, ConfigAssumption, TotalType DEF ConfigAssumption
<1> QED
  BY <1>2, <1>3, <1>4

\* A step that changes no payment and nothing that was settled.
LEMMA EarningStands ==
  ASSUME EarningInv, UNCHANGED <<payments, settledEarnings>>,
         \A w \in Works : invoices'[w].settledAmount = invoices[w].settledAmount
  PROVE  EarningInv'
<1>1. SettledAmounts' = SettledAmounts
  BY DEF SettledAmounts
<1> QED
  BY <1>1 DEF EarningInv, NeverOverpaid, PaymentTable

\* What an admitted observation does to the table of payments.
LEMMA ObservedPayment ==
  ASSUME TypeOK, NEW w \in Works, NEW p \in PaymentIds, NEW o \in Observations, ObserveEarning(w, p, o)
  PROVE  /\ payments'[p].invoice = w /\ payments'[p].amount = o.amount /\ payments'[p].status = o.status
         /\ \A q \in PaymentIds \ {p} : payments'[q] = payments[q]
         /\ payments[p].status \in {"ABSENT", "PENDING", "UNKNOWN"}
         /\ \/ payments[p].status = "ABSENT"
            \/ payments'[p].invoice = payments[p].invoice /\ payments'[p].amount = payments[p].amount
         /\ o.amount \in Nat /\ o.status \in Statuses
         /\ settledEarnings' = settledEarnings + (IF o.status = "SETTLED" THEN o.amount ELSE 0)
         /\ invoices'[w].settledAmount =
              invoices[w].settledAmount + (IF o.status = "SETTLED" THEN o.amount ELSE 0)
         /\ \A v \in Works \ {w} : invoices'[v] = invoices[v]
<1>1. o.amount \in Nat /\ o.status \in Statuses
  BY InputAssumption DEF Observations, InputAssumption
<1>2. /\ payments \in [PaymentIds -> Payment] /\ payments[p].status \in {"ABSENT"} \cup Statuses
      /\ invoices \in [Works -> Invoice]
  BY DEF TypeOK, Payment
<1>3. /\ payments'[p].invoice = w /\ payments'[p].amount = o.amount /\ payments'[p].status = o.status
      /\ \A q \in PaymentIds \ {p} : payments'[q] = payments[q]
  BY <1>2 DEF ObserveEarning
<1>4. \/ payments[p].status = "ABSENT"
      \/ /\ payments[p].status \notin Terminal
         /\ payments[p].invoice = w /\ payments[p].amount = o.amount
  BY DEF ObserveEarning, PaymentAdmitted, Ordered
<1>5. /\ settledEarnings' = settledEarnings + (IF o.status = "SETTLED" THEN o.amount ELSE 0)
      /\ invoices'[w].settledAmount =
           invoices[w].settledAmount + (IF o.status = "SETTLED" THEN o.amount ELSE 0)
      /\ \A v \in Works \ {w} : invoices'[v] = invoices[v]
  BY <1>2 DEF ObserveEarning, Invoice
<1> QED
  BY <1>1, <1>2, <1>3, <1>4, <1>5 DEF Statuses, Terminal

LEMMA ObservationKeepsEarning ==
  ASSUME IInv, IInv', EarningInv, NEW w \in Works, NEW p \in PaymentIds, NEW o \in Observations,
         ObserveEarning(w, p, o)
  PROVE  EarningInv'
<1>0. TypeOK /\ TypeOK'
  BY DEF IInv
<1> DEFINE earned == IF o.status = "SETTLED" THEN o.amount ELSE 0
           Room == {"PENDING", "UNKNOWN", "SETTLED"}
<1>1. /\ payments'[p].invoice = w /\ payments'[p].amount = o.amount /\ payments'[p].status = o.status
      /\ \A q \in PaymentIds \ {p} : payments'[q] = payments[q]
      /\ payments[p].status \in {"ABSENT", "PENDING", "UNKNOWN"}
      /\ \/ payments[p].status = "ABSENT"
         \/ payments'[p].invoice = payments[p].invoice /\ payments'[p].amount = payments[p].amount
      /\ o.amount \in Nat /\ o.status \in Statuses
      /\ settledEarnings' = settledEarnings + earned
      /\ invoices'[w].settledAmount = invoices[w].settledAmount + earned
      /\ \A v \in Works \ {w} : invoices'[v] = invoices[v]
  BY <1>0, ObservedPayment
<1>2. earned \in Nat
  BY <1>1
<1>3. ASSUME NEW targets, NEW statuses, "ABSENT" \notin statuses
      PROVE  /\ TotalOf(PaymentTable(targets, statuses))'
                  + (IF w \in targets /\ payments[p].status \in statuses THEN o.amount ELSE 0)
                = TotalOf(PaymentTable(targets, statuses))
                  + (IF w \in targets /\ o.status \in statuses THEN o.amount ELSE 0)
             /\ TotalOf(PaymentTable(targets, statuses)) \in Nat
             /\ TotalOf(PaymentTable(targets, statuses))' \in Nat
  BY <1>0, <1>1, <1>3, PaymentMoves
<1>4. ASSUME NEW targets
      PROVE  TotalOf(PaymentTable(targets, {"SETTLED"}))' =
               TotalOf(PaymentTable(targets, {"SETTLED"})) + (IF w \in targets THEN earned ELSE 0)
  BY <1>1, <1>3
<1>5. settledEarnings' = TotalOf(PaymentTable(Works, {"SETTLED"}))'
  BY <1>1, <1>4 DEF EarningInv
<1>6. settledEarnings' = TotalOf(SettledAmounts)'
  <2>1. /\ TotalOf(SettledAmounts)' + invoices[w].settledAmount
             = TotalOf(SettledAmounts) + invoices'[w].settledAmount
        /\ TotalOf(SettledAmounts) \in Nat /\ TotalOf(SettledAmounts)' \in Nat
    BY <1>0, <1>1, SettledMoves
  <2>2. invoices[w].settledAmount \in Nat
    BY <1>0 DEF TypeOK, Invoice
  <2> QED
    BY <1>1, <1>2, <2>1, <2>2 DEF EarningInv
<1>7. ASSUME NEW v \in Works
      PROVE  invoices'[v].settledAmount = TotalOf(PaymentTable({v}, {"SETTLED"}))'
  <2>1. invoices[v].settledAmount = TotalOf(PaymentTable({v}, {"SETTLED"}))
    BY DEF EarningInv
  <2>2. invoices[v].settledAmount \in Nat
    BY <1>0 DEF TypeOK, Invoice
  <2>3. TotalOf(PaymentTable({v}, {"SETTLED"}))' =
          TotalOf(PaymentTable({v}, {"SETTLED"})) + (IF v = w THEN earned ELSE 0)
    BY <1>4
  <2> QED
    BY <1>1, <1>2, <2>1, <2>2, <2>3
<1>8. ASSUME NEW v \in Works
      PROVE  TotalOf(PaymentTable({v}, Room))' <= Listing[v].reward
  <2>1. /\ TotalOf(PaymentTable({v}, Room))'
             + (IF v = w /\ payments[p].status \in Room THEN o.amount ELSE 0)
           = TotalOf(PaymentTable({v}, Room)) + (IF v = w /\ o.status \in Room THEN o.amount ELSE 0)
        /\ TotalOf(PaymentTable({v}, Room)) \in Nat
        /\ TotalOf(PaymentTable({v}, Room))' \in Nat
    BY <1>3
  <2>2. TotalOf(PaymentTable({v}, Room)) <= Listing[v].reward
    BY DEF EarningInv, NeverOverpaid
  <2>3. Listing[v].reward \in Nat
    BY ConfigAssumption DEF ConfigAssumption, Listings
  <2>4. CASE v = w /\ payments[p].status = "ABSENT"
    <3>1. TotalOf(PaidTable(w)) + o.amount <= Listing[w].reward
      BY <2>4 DEF ObserveEarning, PaymentAdmitted
    <3>2. TotalOf(PaymentTable({w}, Room)) <= TotalOf(PaidTable(w)) /\ TotalOf(PaidTable(w)) \in Nat
      BY <1>0, PaidCovers
    <3> HIDE DEF Room
    <3> QED
      BY <1>1, <2>1, <2>3, <2>4, <3>1, <3>2
  <2>5. CASE ~(v = w /\ payments[p].status = "ABSENT")
    <3>1. v = w => payments[p].status \in Room
      BY <1>1, <2>5
    <3> HIDE DEF Room
    <3> QED
      BY <1>1, <2>1, <2>2, <2>3, <3>1
  <2> QED
    BY <2>4, <2>5
<1> QED
  BY <1>5, <1>6, <1>7, <1>8 DEF EarningInv, NeverOverpaid

LEMMA ApplyKeepsEarning ==
  ASSUME IInv, IInv', BindingInv, EarningInv, [Apply]_vars
  PROVE  EarningInv'
<1>0. invoices \in [Works -> Invoice]
  BY DEF IInv, TypeOK
<1>1. CASE UNCHANGED <<invoices, attempts, obligations, payments, totals>>
  BY <1>1, EarningStands DEF totals
<1>2. CASE \E w \in Works : IssueInvoice(w)
  <2>1. /\ UNCHANGED <<payments, settledEarnings>>
        /\ \A w \in Works : invoices'[w].settledAmount = invoices[w].settledAmount
    BY <1>0, <1>2 DEF IssueInvoice, NoInvoice, BindingInv, totals
  <2> QED
    BY <2>1, EarningStands
<1>3. CASE \E c \in Customers, w \in Works : DisputeInvoice(c, w) \/ ResolveDispute(c, w)
  <2>1. /\ UNCHANGED <<payments, settledEarnings>>
        /\ \A w \in Works : invoices'[w].settledAmount = invoices[w].settledAmount
    BY <1>0, <1>3 DEF DisputeInvoice, ResolveDispute, Invoice, totals
  <2> QED
    BY <2>1, EarningStands
<1>4. CASE \/ \E c \in Customers, w \in Works, amount \in Amounts : RequestRefund(c, w, amount)
           \/ \E w \in Works, a \in AttemptIds :
                BeginRefund(w, a) \/ \E amount \in Amounts : BeginSpend(w, a, amount)
           \/ \E o \in Observations, a \in AttemptIds : ObserveSpend(a, o) \/ ObserveRefund(a, o)
  <2>1. UNCHANGED <<invoices, payments, settledEarnings>>
    BY <1>4 DEF RequestRefund, BeginRefund, BeginSpend, ObserveSpend, ObserveRefund, totals
  <2> QED
    BY <2>1, EarningStands
<1>5. CASE \E o \in Observations, w \in Works, p \in PaymentIds : ObserveEarning(w, p, o)
  BY <1>5, ObservationKeepsEarning
<1> QED
  BY <1>1, <1>2, <1>3, <1>4, <1>5, MoneySteps

-----------------------------------------------------------------------------
(***************************************************************************)
(* Spending.                                                               *)
(***************************************************************************)
\* Nothing is recorded of attempts at first.
LEMMA InitAttemptTotals ==
  ASSUME Init, NEW kind, NEW targets, NEW statuses
  PROVE  TotalOf(AttemptTable(kind, targets, statuses)) = 0
<1>0. TypeOK
  BY InitIInv, ConfigAssumption DEF IInv
<1>1. \A a \in AttemptIds : AttemptTable(kind, targets, statuses)[a] = 0
  BY DEF Init, AttemptTable, NoAttempt
<1>2. AttemptTable(kind, targets, statuses) \in [AttemptIds -> Nat]
  BY <1>0, AttemptTableType
<1> QED
  BY <1>1, <1>2, TotalZero

LEMMA InitSpend ==
  ASSUME Init
  PROVE  SpendInv
<1>1. \A w \in Works : InFlight(w) = 0
  BY InFlightIsTotal, InitAttemptTotals
<1>2. InFlights \in [Works -> Nat] /\ \A w \in Works : InFlights[w] = 0
  BY <1>1 DEF InFlights
<1>3. TotalOf(InFlights) = 0
  BY <1>2, TotalZero
<1>4. settledSpend = 0
  BY DEF Init
<1> QED
  BY <1>3, <1>4, InitAttemptTotals DEF SpendInv

\* What all assignments have in flight goes with what each of them has.
LEMMA InFlightsFollow ==
  ASSUME TypeOK, TypeOK', NEW a \in AttemptIds, \A b \in AttemptIds \ {a} : attempts'[b] = attempts[b],
         NEW w \in Works, attempts'[a].target = w,
         \/ attempts[a].status = "ABSENT"
         \/ /\ attempts'[a].kind = attempts[a].kind
            /\ attempts'[a].target = attempts[a].target
            /\ attempts'[a].amount = attempts[a].amount,
         TotalOf(AttemptTable("SPEND", Works, Unsettled)) = TotalOf(InFlights)
  PROVE  TotalOf(AttemptTable("SPEND", Works, Unsettled))' = TotalOf(InFlights)'
<1> DEFINE out == IF attempts'[a].kind = "SPEND" /\ attempts[a].status \in Unsettled
                  THEN attempts'[a].amount ELSE 0
           in == IF attempts'[a].kind = "SPEND" /\ attempts'[a].status \in Unsettled
                 THEN attempts'[a].amount ELSE 0
<1>1. "ABSENT" \notin Unsettled /\ out \in Nat /\ in \in Nat
  BY DEF Unsettled, TypeOK, Attempt
<1>2. ASSUME NEW targets
      PROVE  /\ TotalOf(AttemptTable("SPEND", targets, Unsettled))' + (IF w \in targets THEN out ELSE 0)
                  = TotalOf(AttemptTable("SPEND", targets, Unsettled)) + (IF w \in targets THEN in ELSE 0)
             /\ TotalOf(AttemptTable("SPEND", targets, Unsettled)) \in Nat
             /\ TotalOf(AttemptTable("SPEND", targets, Unsettled))' \in Nat
  <2>1. /\ TotalOf(AttemptTable("SPEND", targets, Unsettled))'
             + (IF /\ attempts'[a].kind = "SPEND" /\ attempts'[a].target \in targets
                   /\ attempts[a].status \in Unsettled THEN attempts'[a].amount ELSE 0)
           = TotalOf(AttemptTable("SPEND", targets, Unsettled))
             + (IF /\ attempts'[a].kind = "SPEND" /\ attempts'[a].target \in targets
                   /\ attempts'[a].status \in Unsettled THEN attempts'[a].amount ELSE 0)
        /\ TotalOf(AttemptTable("SPEND", targets, Unsettled)) \in Nat
        /\ TotalOf(AttemptTable("SPEND", targets, Unsettled))' \in Nat
    BY <1>1, AttemptMoves
  <2> QED
    BY <2>1
<1> HIDE DEF out, in
<1>3. \A v \in Works \ {w} : InFlight(v)' = InFlight(v)
  <2> SUFFICES ASSUME NEW v \in Works \ {w}
               PROVE  InFlight(v)' = InFlight(v)
    OBVIOUS
  <2>1. TotalOf(AttemptTable("SPEND", {v}, Unsettled))' = TotalOf(AttemptTable("SPEND", {v}, Unsettled))
    BY <1>2
  <2> QED
    BY <2>1, InFlightIsTotal
<1>4. InFlight(w)' + out = InFlight(w) + in /\ InFlight(w) \in Nat /\ InFlight(w)' \in Nat
  <2>1. /\ TotalOf(AttemptTable("SPEND", {w}, Unsettled))' + out
             = TotalOf(AttemptTable("SPEND", {w}, Unsettled)) + in
        /\ TotalOf(AttemptTable("SPEND", {w}, Unsettled)) \in Nat
        /\ TotalOf(AttemptTable("SPEND", {w}, Unsettled))' \in Nat
    BY <1>2
  <2> QED
    BY <2>1, InFlightIsTotal
<1>5. /\ InFlights \in [Works -> Nat] /\ InFlights' \in [Works -> Nat]
      /\ InFlights[w] = InFlight(w) /\ InFlights'[w] = InFlight(w)'
      /\ \A v \in Works \ {w} : InFlights'[v] = InFlights[v]
  <2>1. InFlights \in [Works -> Nat]
    BY WorkTablesType
  <2>2. InFlights' \in [Works -> Nat]
    BY InFlightTypeNext, ConfigAssumption DEF InFlights
  <2> QED
    BY <1>3, <2>1, <2>2 DEF InFlights
<1>6. TotalOf(InFlights') + InFlights[w] = TotalOf(InFlights) + InFlights'[w]
  BY <1>5, WorkTableUpdate
<1>7. TotalOf(InFlights) \in Nat /\ TotalOf(InFlights') \in Nat
  BY <1>5, ConfigAssumption, TotalType DEF ConfigAssumption
<1>8. /\ TotalOf(AttemptTable("SPEND", Works, Unsettled))' + out
           = TotalOf(AttemptTable("SPEND", Works, Unsettled)) + in
      /\ TotalOf(AttemptTable("SPEND", Works, Unsettled))' \in Nat
  BY <1>2
<1> QED
  BY <1>1, <1>4, <1>5, <1>6, <1>7, <1>8

\* What a begun or observed attempt does to the table of attempts.
LEMMA AttemptStep ==
  ASSUME IInv, NEW a \in AttemptIds,
         \/ \E w \in Works : BeginRefund(w, a) \/ \E amount \in Amounts : BeginSpend(w, a, amount)
         \/ \E o \in Observations : ObserveSpend(a, o) \/ ObserveRefund(a, o)
  PROVE  /\ attempts'[a].target \in Works
         /\ \A b \in AttemptIds \ {a} : attempts'[b] = attempts[b]
         /\ \/ attempts[a].status = "ABSENT" /\ attempts'[a].status = "REQUESTED"
            \/ /\ attempts'[a].kind = attempts[a].kind
               /\ attempts'[a].target = attempts[a].target
               /\ attempts'[a].amount = attempts[a].amount
               /\ attempts[a].status \in Unsettled
               /\ attempts'[a].status \in Statuses
<1>0. TypeOK /\ attempts \in [AttemptIds -> Attempt]
  BY DEF IInv, TypeOK
<1>1. CASE \E w \in Works : BeginRefund(w, a) \/ \E amount \in Amounts : BeginSpend(w, a, amount)
  BY <1>0, <1>1 DEF BeginRefund, BeginSpend
<1>2. CASE \E o \in Observations : ObserveSpend(a, o) \/ ObserveRefund(a, o)
  <2>1. PICK o \in Observations :
           /\ Ordered(attempts[a], o) /\ attempts[a].status # "ABSENT"
           /\ attempts' = [attempts EXCEPT ![a].sequence = o.sequence, ![a].status = o.status]
    BY <1>2 DEF ObserveSpend, ObserveRefund
  <2> QED
    BY <1>0, <2>1, ObservedAttempt DEF IInv, AttemptsHaveTargets
<1> QED
  BY <1>1, <1>2

LEMMA SpendStands ==
  ASSUME SpendInv, UNCHANGED <<attempts, settledSpend>>
  PROVE  SpendInv'
<1>1. InFlights' = InFlights
  BY DEF InFlights, InFlight, InFlightTable, Pending
<1> QED
  BY <1>1 DEF SpendInv, AttemptTable

LEMMA AttemptStepsKeepSpend ==
  ASSUME IInv, IInv', SpendInv, NEW a \in AttemptIds,
         \/ \E w \in Works : BeginRefund(w, a) \/ \E amount \in Amounts : BeginSpend(w, a, amount)
         \/ \E o \in Observations : ObserveSpend(a, o) \/ ObserveRefund(a, o)
  PROVE  SpendInv'
<1>0. TypeOK /\ TypeOK'
  BY DEF IInv
<1>1. /\ attempts'[a].target \in Works
      /\ \A b \in AttemptIds \ {a} : attempts'[b] = attempts[b]
      /\ \/ attempts[a].status = "ABSENT" /\ attempts'[a].status = "REQUESTED"
         \/ /\ attempts'[a].kind = attempts[a].kind
            /\ attempts'[a].target = attempts[a].target
            /\ attempts'[a].amount = attempts[a].amount
            /\ attempts[a].status \in Unsettled
            /\ attempts'[a].status \in Statuses
  BY AttemptStep
<1>2. TotalOf(AttemptTable("SPEND", Works, Unsettled))' = TotalOf(InFlights)'
  BY <1>0, <1>1, InFlightsFollow DEF SpendInv
<1>3. LET among == attempts'[a].kind = "SPEND" /\ attempts'[a].target \in Works
          amount == attempts'[a].amount
      IN  /\ TotalOf(AttemptTable("SPEND", Works, {"SETTLED"}))'
               + (IF among /\ attempts[a].status \in {"SETTLED"} THEN amount ELSE 0)
             = TotalOf(AttemptTable("SPEND", Works, {"SETTLED"}))
               + (IF among /\ attempts'[a].status \in {"SETTLED"} THEN amount ELSE 0)
          /\ TotalOf(AttemptTable("SPEND", Works, {"SETTLED"})) \in Nat
          /\ TotalOf(AttemptTable("SPEND", Works, {"SETTLED"}))' \in Nat
  BY <1>0, <1>1, AttemptMoves
<1>4. TotalOf(AttemptTable("SPEND", Works, {"SETTLED"}))'
        = TotalOf(AttemptTable("SPEND", Works, {"SETTLED"}))
          + (IF attempts'[a].kind = "SPEND" /\ attempts'[a].status = "SETTLED" THEN attempts'[a].amount ELSE 0)
  BY <1>1, <1>3 DEF Unsettled
<1>5. settledSpend' = settledSpend
        + (IF attempts'[a].kind = "SPEND" /\ attempts'[a].status = "SETTLED" THEN attempts'[a].amount ELSE 0)
  <2>0. settledSpend \in Nat /\ attempts \in [AttemptIds -> Attempt]
    BY <1>0 DEF TypeOK
  <2>1. CASE \E w \in Works : BeginRefund(w, a) \/ \E amount \in Amounts : BeginSpend(w, a, amount)
    BY <2>0, <2>1 DEF BeginRefund, BeginSpend, totals
  <2>2. CASE \E o \in Observations : ObserveRefund(a, o)
    <3>1. attempts[a].kind = "REFUND" /\ UNCHANGED settledSpend /\ attempts[a].status # "ABSENT"
      BY <2>2 DEF ObserveRefund
    <3>2. attempts'[a].kind = "REFUND"
      BY <1>1, <2>2, <3>1, ObservedAttempt, <1>0 DEF ObserveRefund
    <3> QED
      BY <2>0, <3>1, <3>2
  <2>3. CASE \E o \in Observations : ObserveSpend(a, o)
    <3>1. PICK o \in Observations : ObserveSpend(a, o)
      BY <2>3
    <3>2. /\ attempts'[a].kind = "SPEND" /\ attempts'[a].amount = o.amount
          /\ attempts'[a].status = o.status
      BY <1>0, <3>1, ObservedAttempt DEF ObserveSpend
    <3> QED
      BY <3>1, <3>2 DEF ObserveSpend
  <2> QED
    BY <2>1, <2>2, <2>3
<1> QED
  BY <1>2, <1>4, <1>5 DEF SpendInv

LEMMA ApplyKeepsSpend ==
  ASSUME IInv, IInv', SpendInv, [Apply]_vars
  PROVE  SpendInv'
<1>1. CASE UNCHANGED <<attempts, settledSpend>>
  BY <1>1, SpendStands
<1>2. CASE \E a \in AttemptIds :
             \/ \E w \in Works : BeginRefund(w, a) \/ \E amount \in Amounts : BeginSpend(w, a, amount)
             \/ \E o \in Observations : ObserveSpend(a, o) \/ ObserveRefund(a, o)
  BY <1>2, AttemptStepsKeepSpend
<1> QED
  BY <1>1, <1>2, MoneySteps
     DEF IssueInvoice, DisputeInvoice, ResolveDispute, RequestRefund, ObserveEarning, totals

-----------------------------------------------------------------------------
(***************************************************************************)
(* Refunds.                                                                *)
(***************************************************************************)
LEMMA InitRefund ==
  ASSUME Init
  PROVE  RefundInv
<1>1. ASSUME NEW status
      PROVE  TotalOf(RefundTable(status)) = 0
  <2>1. RefundTable(status) \in [Works -> Nat] /\ \A w \in Works : RefundTable(status)[w] = 0
    BY DEF Init, RefundTable, NoObligation
  <2> QED
    BY <2>1, TotalZero
<1>2. settledRefunds = 0
  BY DEF Init
<1> QED
  BY <1>1, <1>2, InitAttemptTotals DEF RefundInv

\* One obligation moves.
LEMMA RefundMoves ==
  ASSUME TypeOK, TypeOK', NEW w \in Works, NEW status,
         \A v \in Works \ {w} : obligations'[v] = obligations[v]
  PROVE  /\ TotalOf(RefundTable(status))'
              + (IF obligations[w].status = status THEN obligations[w].amount ELSE 0)
            = TotalOf(RefundTable(status))
              + (IF obligations'[w].status = status THEN obligations'[w].amount ELSE 0)
         /\ TotalOf(RefundTable(status)) \in Nat /\ TotalOf(RefundTable(status))' \in Nat
<1> DEFINE f == RefundTable(status)
<1>1. f \in [Works -> Nat] /\ f' \in [Works -> Nat]
  BY DEF TypeOK, Obligation, RefundTable
<1>2. \A v \in Works \ {w} : f'[v] = f[v]
  BY DEF RefundTable
<1>3. f[w] = IF obligations[w].status = status THEN obligations[w].amount ELSE 0
  BY DEF RefundTable
<1>4. f'[w] = IF obligations'[w].status = status THEN obligations'[w].amount ELSE 0
  BY DEF RefundTable
<1> HIDE DEF f
<1>5. TotalOf(f') + f[w] = TotalOf(f) + f'[w]
  BY <1>1, <1>2, WorkTableUpdate
<1>6. TotalOf(f) \in Nat /\ TotalOf(f') \in Nat
  BY <1>1, ConfigAssumption, TotalType DEF ConfigAssumption
<1> QED
  BY <1>3, <1>4, <1>5, <1>6 DEF f

\* A step that changes no attempt and no obligation that is in flight or settled.
LEMMA RefundStands ==
  ASSUME RefundInv, UNCHANGED <<attempts, settledRefunds>>,
         \A w \in Works : \/ obligations'[w] = obligations[w]
                          \/ {obligations[w].status, obligations'[w].status} \subseteq {"ABSENT", "OPEN"}
  PROVE  RefundInv'
<1>1. RefundTable("SETTLED")' = RefundTable("SETTLED")
  BY DEF RefundTable
<1>2. RefundTable("IN_FLIGHT")' = RefundTable("IN_FLIGHT")
  BY DEF RefundTable
<1> QED
  BY <1>1, <1>2 DEF RefundInv, AttemptTable

\* How the sums over refund attempts move when one attempt does.
LEMMA RefundAttemptMoves ==
  ASSUME TypeOK, TypeOK', NEW a \in AttemptIds, \A b \in AttemptIds \ {a} : attempts'[b] = attempts[b],
         NEW statuses, "ABSENT" \notin statuses,
         attempts'[a].kind = "REFUND", attempts'[a].target \in Works,
         \/ attempts[a].status = "ABSENT"
         \/ /\ attempts'[a].kind = attempts[a].kind
            /\ attempts'[a].target = attempts[a].target
            /\ attempts'[a].amount = attempts[a].amount
  PROVE  /\ TotalOf(AttemptTable("REFUND", Works, statuses))'
              + (IF attempts[a].status \in statuses THEN attempts'[a].amount ELSE 0)
            = TotalOf(AttemptTable("REFUND", Works, statuses))
              + (IF attempts'[a].status \in statuses THEN attempts'[a].amount ELSE 0)
         /\ TotalOf(AttemptTable("REFUND", Works, statuses)) \in Nat
         /\ TotalOf(AttemptTable("REFUND", Works, statuses))' \in Nat
<1>1. LET among == attempts'[a].kind = "REFUND" /\ attempts'[a].target \in Works
          amount == attempts'[a].amount
      IN  /\ TotalOf(AttemptTable("REFUND", Works, statuses))'
               + (IF among /\ attempts[a].status \in statuses THEN amount ELSE 0)
             = TotalOf(AttemptTable("REFUND", Works, statuses))
               + (IF among /\ attempts'[a].status \in statuses THEN amount ELSE 0)
          /\ TotalOf(AttemptTable("REFUND", Works, statuses)) \in Nat
          /\ TotalOf(AttemptTable("REFUND", Works, statuses))' \in Nat
  BY AttemptMoves
<1> QED
  BY <1>1

\* A step of a spend attempt is no matter for refunds.
LEMMA SpendStepsKeepRefund ==
  ASSUME IInv, IInv', RefundInv, NEW a \in AttemptIds,
         \/ \E w \in Works, amount \in Amounts : BeginSpend(w, a, amount)
         \/ \E o \in Observations : ObserveSpend(a, o)
  PROVE  RefundInv'
<1>0. TypeOK /\ TypeOK' /\ attempts \in [AttemptIds -> Attempt]
  BY DEF IInv, TypeOK
<1>1. /\ attempts'[a].target \in Works
      /\ \A b \in AttemptIds \ {a} : attempts'[b] = attempts[b]
      /\ \/ attempts[a].status = "ABSENT" /\ attempts'[a].status = "REQUESTED"
         \/ /\ attempts'[a].kind = attempts[a].kind
            /\ attempts'[a].target = attempts[a].target
            /\ attempts'[a].amount = attempts[a].amount
            /\ attempts[a].status \in Unsettled
            /\ attempts'[a].status \in Statuses
  BY AttemptStep
<1>2. attempts'[a].kind = "SPEND" /\ UNCHANGED <<obligations, settledRefunds>>
  <2>1. CASE \E w \in Works, amount \in Amounts : BeginSpend(w, a, amount)
    BY <1>0, <2>1 DEF BeginSpend, totals
  <2>2. CASE \E o \in Observations : ObserveSpend(a, o)
    <3>1. PICK o \in Observations : ObserveSpend(a, o)
      BY <2>2
    <3>2. attempts'[a].kind = "SPEND"
      BY <1>0, <3>1, ObservedAttempt DEF ObserveSpend
    <3> QED
      BY <3>1, <3>2 DEF ObserveSpend
  <2> QED
    BY <2>1, <2>2
<1>3. ASSUME NEW statuses, "ABSENT" \notin statuses
      PROVE  TotalOf(AttemptTable("REFUND", Works, statuses))' = TotalOf(AttemptTable("REFUND", Works, statuses))
  <2>1. LET among == attempts'[a].kind = "REFUND" /\ attempts'[a].target \in Works
            amount == attempts'[a].amount
        IN  /\ TotalOf(AttemptTable("REFUND", Works, statuses))'
                 + (IF among /\ attempts[a].status \in statuses THEN amount ELSE 0)
               = TotalOf(AttemptTable("REFUND", Works, statuses))
                 + (IF among /\ attempts'[a].status \in statuses THEN amount ELSE 0)
            /\ TotalOf(AttemptTable("REFUND", Works, statuses)) \in Nat
            /\ TotalOf(AttemptTable("REFUND", Works, statuses))' \in Nat
    BY <1>0, <1>1, <1>3, AttemptMoves
  <2> QED
    BY <1>2, <2>1
<1>4. "ABSENT" \notin Unsettled
  BY DEF Unsettled
<1>5. \A status : RefundTable(status)' = RefundTable(status)
  BY <1>2 DEF RefundTable
<1> QED
  BY <1>2, <1>3, <1>4, <1>5 DEF RefundInv

LEMMA BeginRefundKeepsRefund ==
  ASSUME IInv, IInv', RefundInv, NEW w \in Works, NEW a \in AttemptIds, BeginRefund(w, a)
  PROVE  RefundInv'
<1>0. /\ TypeOK /\ TypeOK' /\ attempts \in [AttemptIds -> Attempt]
      /\ obligations \in [Works -> Obligation] /\ obligations[w].amount \in Nat
  BY DEF IInv, TypeOK, Obligation
<1>1. /\ attempts[a].status = "ABSENT" /\ obligations[w].status = "OPEN"
      /\ attempts'[a].kind = "REFUND" /\ attempts'[a].target = w
      /\ attempts'[a].amount = obligations[w].amount /\ attempts'[a].status = "REQUESTED"
      /\ \A b \in AttemptIds \ {a} : attempts'[b] = attempts[b]
      /\ obligations'[w].status = "IN_FLIGHT" /\ obligations'[w].amount = obligations[w].amount
      /\ \A v \in Works \ {w} : obligations'[v] = obligations[v]
      /\ UNCHANGED settledRefunds
  BY <1>0 DEF BeginRefund, Obligation, totals
<1>2. ASSUME NEW statuses, "ABSENT" \notin statuses
      PROVE  /\ TotalOf(AttemptTable("REFUND", Works, statuses))'
                  + (IF "ABSENT" \in statuses THEN obligations[w].amount ELSE 0)
                = TotalOf(AttemptTable("REFUND", Works, statuses))
                  + (IF "REQUESTED" \in statuses THEN obligations[w].amount ELSE 0)
             /\ TotalOf(AttemptTable("REFUND", Works, statuses)) \in Nat
             /\ TotalOf(AttemptTable("REFUND", Works, statuses))' \in Nat
  BY <1>0, <1>1, <1>2, RefundAttemptMoves
<1>3. /\ TotalOf(AttemptTable("REFUND", Works, {"SETTLED"}))' = TotalOf(AttemptTable("REFUND", Works, {"SETTLED"}))
      /\ TotalOf(AttemptTable("REFUND", Works, Unsettled))'
           = TotalOf(AttemptTable("REFUND", Works, Unsettled)) + obligations[w].amount
  BY <1>2 DEF Unsettled
<1>4. ASSUME NEW status
      PROVE  /\ TotalOf(RefundTable(status))'
                  + (IF "OPEN" = status THEN obligations[w].amount ELSE 0)
                = TotalOf(RefundTable(status))
                  + (IF "IN_FLIGHT" = status THEN obligations[w].amount ELSE 0)
             /\ TotalOf(RefundTable(status)) \in Nat /\ TotalOf(RefundTable(status))' \in Nat
  BY <1>0, <1>1, RefundMoves
<1>5. /\ TotalOf(RefundTable("SETTLED"))' = TotalOf(RefundTable("SETTLED"))
      /\ TotalOf(RefundTable("IN_FLIGHT"))' = TotalOf(RefundTable("IN_FLIGHT")) + obligations[w].amount
  BY <1>0, <1>4
<1> QED
  BY <1>1, <1>3, <1>5 DEF RefundInv

LEMMA ObserveRefundKeepsRefund ==
  ASSUME IInv, IInv', BindingInv, RefundInv, NEW a \in AttemptIds, NEW o \in Observations, ObserveRefund(a, o)
  PROVE  RefundInv'
<1>0. /\ TypeOK /\ TypeOK' /\ attempts \in [AttemptIds -> Attempt]
      /\ obligations \in [Works -> Obligation]
  BY DEF IInv, TypeOK
<1>1. PICK w \in Works : w = attempts[a].target
  BY DEF ObserveRefund, IInv, AttemptsHaveTargets
<1>2. /\ attempts'[a].kind = "REFUND" /\ attempts'[a].target = w
      /\ attempts[a].kind = "REFUND" /\ attempts[a].target = w
      /\ attempts'[a].amount = attempts[a].amount /\ attempts'[a].status = o.status
      /\ attempts[a].status \in Unsettled /\ o.status \in Statuses
      /\ \A b \in AttemptIds \ {a} : attempts'[b] = attempts[b]
  BY <1>0, <1>1, ObservedAttempt DEF ObserveRefund
<1>3. /\ obligations[w].status = "IN_FLIGHT"
      /\ obligations'[w] = AfterRefund(obligations[w], o)
      /\ \A v \in Works \ {w} : obligations'[v] = obligations[v]
  BY <1>0, <1>1 DEF ObserveRefund
<1>4. PICK amount \in Nat : amount = obligations[w].amount
  BY <1>0 DEF Obligation
<1>5. attempts[a].amount = amount /\ o.amount = amount
  BY <1>1, <1>2, <1>4 DEF BindingInv, RefundBinding, ObserveRefund
<1>6. /\ obligations'[w].amount = amount
      /\ obligations'[w].status = IF o.status = "SETTLED" THEN "SETTLED"
                                  ELSE IF o.status = "FAILED" THEN "OPEN" ELSE "IN_FLIGHT"
  BY <1>0, <1>3, <1>4 DEF AfterRefund, Obligation
<1>7. settledRefunds' = settledRefunds + (IF o.status = "SETTLED" THEN amount ELSE 0)
  BY <1>5 DEF ObserveRefund
<1>8. ASSUME NEW statuses, "ABSENT" \notin statuses
      PROVE  /\ TotalOf(AttemptTable("REFUND", Works, statuses))'
                  + (IF attempts[a].status \in statuses THEN amount ELSE 0)
                = TotalOf(AttemptTable("REFUND", Works, statuses))
                  + (IF o.status \in statuses THEN amount ELSE 0)
             /\ TotalOf(AttemptTable("REFUND", Works, statuses)) \in Nat
             /\ TotalOf(AttemptTable("REFUND", Works, statuses))' \in Nat
  BY <1>0, <1>2, <1>5, <1>8, RefundAttemptMoves
<1>9. /\ TotalOf(AttemptTable("REFUND", Works, {"SETTLED"}))'
           = TotalOf(AttemptTable("REFUND", Works, {"SETTLED"})) + (IF o.status = "SETTLED" THEN amount ELSE 0)
      /\ TotalOf(AttemptTable("REFUND", Works, Unsettled))' + amount
           = TotalOf(AttemptTable("REFUND", Works, Unsettled)) + (IF o.status \in Unsettled THEN amount ELSE 0)
      /\ TotalOf(AttemptTable("REFUND", Works, Unsettled)) \in Nat
      /\ TotalOf(AttemptTable("REFUND", Works, Unsettled))' \in Nat
  BY <1>2, <1>8 DEF Unsettled
<1>10. ASSUME NEW status
       PROVE  /\ TotalOf(RefundTable(status))' + (IF "IN_FLIGHT" = status THEN amount ELSE 0)
                 = TotalOf(RefundTable(status)) + (IF obligations'[w].status = status THEN amount ELSE 0)
              /\ TotalOf(RefundTable(status)) \in Nat /\ TotalOf(RefundTable(status))' \in Nat
  BY <1>0, <1>3, <1>4, <1>6, RefundMoves
<1>11. /\ TotalOf(RefundTable("SETTLED"))'
            = TotalOf(RefundTable("SETTLED")) + (IF o.status = "SETTLED" THEN amount ELSE 0)
       /\ TotalOf(RefundTable("IN_FLIGHT"))' + amount
            = TotalOf(RefundTable("IN_FLIGHT")) + (IF o.status \in Unsettled THEN amount ELSE 0)
       /\ TotalOf(RefundTable("IN_FLIGHT")) \in Nat /\ TotalOf(RefundTable("IN_FLIGHT"))' \in Nat
  BY <1>2, <1>6, <1>10 DEF Unsettled, Statuses
<1> QED
  BY <1>4, <1>7, <1>9, <1>11 DEF RefundInv

LEMMA ApplyKeepsRefund ==
  ASSUME IInv, IInv', BindingInv, RefundInv, [Apply]_vars
  PROVE  RefundInv'
<1>0. obligations \in [Works -> Obligation]
  BY DEF IInv, TypeOK
<1>1. CASE UNCHANGED <<attempts, obligations, settledRefunds>>
  BY <1>1, RefundStands
<1>2. CASE \E c \in Customers, w \in Works, amount \in Amounts : RequestRefund(c, w, amount)
  <2>1. /\ UNCHANGED <<attempts, settledRefunds>>
        /\ \A w \in Works : \/ obligations'[w] = obligations[w]
                            \/ {obligations[w].status, obligations'[w].status} \subseteq {"ABSENT", "OPEN"}
    BY <1>0, <1>2 DEF RequestRefund, totals
  <2> QED
    BY <2>1, RefundStands
<1>3. CASE \E a \in AttemptIds : \/ \E w \in Works, amount \in Amounts : BeginSpend(w, a, amount)
                                 \/ \E o \in Observations : ObserveSpend(a, o)
  BY <1>3, SpendStepsKeepRefund
<1>4. CASE \E w \in Works, a \in AttemptIds : BeginRefund(w, a)
  BY <1>4, BeginRefundKeepsRefund
<1>5. CASE \E a \in AttemptIds, o \in Observations : ObserveRefund(a, o)
  BY <1>5, ObserveRefundKeepsRefund
<1> QED
  BY <1>1, <1>2, <1>3, <1>4, <1>5, MoneySteps
     DEF IssueInvoice, DisputeInvoice, ResolveDispute, ObserveEarning, totals

-----------------------------------------------------------------------------
(***************************************************************************)
(* Ceilings.                                                               *)
(***************************************************************************)
\* What an assignment has spent and has in flight.
Used(w) == TotalOf(AttemptTable("SPEND", {w}, Unsettled \cup {"SETTLED"}))

LEMMA UsedType ==
  ASSUME TypeOK, NEW w \in Works
  PROVE  /\ Used(w) \in Nat /\ InFlight(w) \in Nat /\ works[w].held \in Nat
         /\ Listing[w].costCeiling \in Nat
<1>1. Used(w) \in Nat
  BY AttemptTableType DEF Used
<1>2. InFlight(w) \in Nat
  BY ConfigAssumption, InFlightType
<1> QED
  BY <1>1, <1>2, ConfigAssumption DEF ConfigAssumption, Listings, TypeOK, Work

\* An assignment that was never agreed has nothing in flight and has spent nothing.
LEMMA NothingUsed ==
  ASSUME IInv, CeilingInv, NEW w \in Works, works[w].commitment = "ABSENT"
  PROVE  Used(w) = 0
<1> DEFINE f == AttemptTable("SPEND", {w}, Unsettled \cup {"SETTLED"})
<1>1. f \in [AttemptIds -> Nat]
  BY AttemptTableType DEF IInv
<1>2. \A a \in AttemptIds : f[a] = 0
  BY DEF CeilingInv, AttemptTable, Unsettled
<1> HIDE DEF f
<1>3. TotalOf(f) = 0
  BY <1>1, <1>2, TotalZero
<1> QED
  BY <1>3 DEF f, Used

LEMMA InitCeiling ==
  ASSUME Init
  PROVE  CeilingInv
<1>1. IInv
  BY InitIInv, ConfigAssumption
<1>2. ASSUME NEW w \in Works
      PROVE  Used(w) + works[w].held <= Listing[w].costCeiling + InFlight(w)
  <2>1. Used(w) = 0 /\ works[w].held = 0
    BY InitAttemptTotals DEF Used, Init, NoWork
  <2> QED
    BY <1>1, <2>1, UsedType DEF IInv
<1>3. \A a \in AttemptIds : attempts[a].status = "ABSENT"
  BY DEF Init, NoAttempt
<1> QED
  BY <1>2, <1>3 DEF CeilingInv, Used

\* A step that leaves the attempts alone: a reservation is given back, or made for the
\* whole ceiling where nothing has been spent.
LEMMA WorkStepKeepsCeiling ==
  ASSUME IInv, IInv', CeilingInv, UNCHANGED attempts,
         \A w \in Works :
           /\ works'[w].commitment = "ABSENT" => works[w].commitment = "ABSENT"
           /\ \/ works'[w].held <= works[w].held
              \/ works'[w].held = Listing[w].costCeiling /\ works[w].commitment = "ABSENT"
  PROVE  CeilingInv'
<1>1. ASSUME NEW w \in Works
      PROVE  Used(w)' + works'[w].held <= Listing[w].costCeiling + InFlight(w)'
  <2>1. Used(w)' = Used(w) /\ InFlight(w)' = InFlight(w)
    BY InFlightStable DEF Used, AttemptTable
  <2>2. /\ Used(w) \in Nat /\ InFlight(w) \in Nat /\ works[w].held \in Nat
        /\ Listing[w].costCeiling \in Nat
    BY UsedType DEF IInv
  <2>3. works'[w].held \in Nat
    BY DEF IInv, TypeOK, Work
  <2>4. CASE works'[w].held <= works[w].held
    <3>1. Used(w) + works[w].held <= Listing[w].costCeiling + InFlight(w)
      BY DEF CeilingInv, Used
    <3> QED
      BY <2>1, <2>2, <2>3, <2>4, <3>1
  <2>5. CASE works'[w].held = Listing[w].costCeiling /\ works[w].commitment = "ABSENT"
    BY <2>1, <2>2, <2>5, NothingUsed
  <2> QED
    BY <2>4, <2>5
<1>2. \A a \in AttemptIds :
        attempts'[a].kind = "SPEND" /\ attempts'[a].status # "ABSENT" =>
          works'[attempts'[a].target].commitment # "ABSENT"
  BY DEF CeilingInv, IInv, AttemptsHaveTargets
<1> QED
  BY <1>1, <1>2 DEF CeilingInv, Used

\* What a begun or observed attempt adds to and takes from an assignment.
LEMMA UsedMoves ==
  ASSUME IInv, IInv', NEW v \in Works, NEW a \in AttemptIds,
         \/ \E w \in Works : BeginRefund(w, a) \/ \E amount \in Amounts : BeginSpend(w, a, amount)
         \/ \E o \in Observations : ObserveSpend(a, o) \/ ObserveRefund(a, o)
  PROVE  LET m == IF attempts'[a].kind = "SPEND" /\ attempts'[a].target = v
                  THEN attempts'[a].amount ELSE 0
             old == IF attempts[a].status \in Unsettled THEN m ELSE 0
         IN  /\ Used(v)' + old = Used(v) + (IF attempts'[a].status = "FAILED" THEN 0 ELSE m)
             /\ InFlight(v)' + old = InFlight(v) + (IF attempts'[a].status \in Unsettled THEN m ELSE 0)
             /\ Used(v)' \in Nat /\ InFlight(v)' \in Nat /\ m \in Nat
<1> DEFINE m == IF attempts'[a].kind = "SPEND" /\ attempts'[a].target = v
                THEN attempts'[a].amount ELSE 0
<1>0. TypeOK /\ TypeOK'
  BY DEF IInv
<1>1. /\ attempts'[a].target \in Works
      /\ \A b \in AttemptIds \ {a} : attempts'[b] = attempts[b]
      /\ \/ attempts[a].status = "ABSENT" /\ attempts'[a].status = "REQUESTED"
         \/ /\ attempts'[a].kind = attempts[a].kind
            /\ attempts'[a].target = attempts[a].target
            /\ attempts'[a].amount = attempts[a].amount
            /\ attempts[a].status \in Unsettled
            /\ attempts'[a].status \in Statuses
  BY AttemptStep
<1>2. ASSUME NEW statuses, "ABSENT" \notin statuses
      PROVE  /\ TotalOf(AttemptTable("SPEND", {v}, statuses))'
                  + (IF attempts[a].status \in statuses THEN m ELSE 0)
                = TotalOf(AttemptTable("SPEND", {v}, statuses))
                  + (IF attempts'[a].status \in statuses THEN m ELSE 0)
             /\ TotalOf(AttemptTable("SPEND", {v}, statuses))' \in Nat
  <2>1. LET among == attempts'[a].kind = "SPEND" /\ attempts'[a].target \in {v}
            amount == attempts'[a].amount
        IN  /\ TotalOf(AttemptTable("SPEND", {v}, statuses))'
                 + (IF among /\ attempts[a].status \in statuses THEN amount ELSE 0)
               = TotalOf(AttemptTable("SPEND", {v}, statuses))
                 + (IF among /\ attempts'[a].status \in statuses THEN amount ELSE 0)
            /\ TotalOf(AttemptTable("SPEND", {v}, statuses)) \in Nat
            /\ TotalOf(AttemptTable("SPEND", {v}, statuses))' \in Nat
    BY <1>0, <1>1, <1>2, AttemptMoves
  <2> QED
    BY <2>1
<1>3. m \in Nat
  BY <1>0 DEF TypeOK, Attempt
<1> HIDE DEF m
<1>4. /\ Used(v)' + (IF attempts[a].status \in Unsettled \cup {"SETTLED"} THEN m ELSE 0)
           = Used(v) + (IF attempts'[a].status \in Unsettled \cup {"SETTLED"} THEN m ELSE 0)
      /\ Used(v)' \in Nat
  <2>1. "ABSENT" \notin Unsettled \cup {"SETTLED"}
    BY DEF Unsettled
  <2> QED
    BY <1>2, <2>1 DEF Used
<1>5. /\ InFlight(v)' + (IF attempts[a].status \in Unsettled THEN m ELSE 0)
           = InFlight(v) + (IF attempts'[a].status \in Unsettled THEN m ELSE 0)
      /\ InFlight(v)' \in Nat
  <2>1. "ABSENT" \notin Unsettled
    BY DEF Unsettled
  <2>2. /\ TotalOf(AttemptTable("SPEND", {v}, Unsettled))' + (IF attempts[a].status \in Unsettled THEN m ELSE 0)
             = TotalOf(AttemptTable("SPEND", {v}, Unsettled)) + (IF attempts'[a].status \in Unsettled THEN m ELSE 0)
        /\ TotalOf(AttemptTable("SPEND", {v}, Unsettled))' \in Nat
    BY <1>2, <2>1
  <2> QED
    BY <2>2, InFlightIsTotal
<1>6. /\ attempts[a].status \in Unsettled \cup {"SETTLED"} <=> attempts[a].status \in Unsettled
      /\ attempts'[a].status \in Unsettled \cup {"SETTLED"} <=> attempts'[a].status # "FAILED"
  BY <1>1 DEF Unsettled, Statuses
<1>7. Used(v)' + (IF attempts[a].status \in Unsettled THEN m ELSE 0)
        = Used(v) + (IF attempts'[a].status = "FAILED" THEN 0 ELSE m)
  BY <1>4, <1>6
<1> QED
  BY <1>3, <1>4, <1>5, <1>7 DEF m

LEMMA AttemptStepsKeepCeiling ==
  ASSUME IInv, IInv', CeilingInv, NEW a \in AttemptIds,
         \/ \E w \in Works : BeginRefund(w, a) \/ \E amount \in Amounts : BeginSpend(w, a, amount)
         \/ \E o \in Observations : ObserveSpend(a, o) \/ ObserveRefund(a, o)
  PROVE  CeilingInv'
<1>0. /\ TypeOK /\ TypeOK' /\ attempts \in [AttemptIds -> Attempt] /\ works \in [Works -> Work]
  BY DEF IInv, TypeOK
<1>1. /\ attempts'[a].target \in Works
      /\ \A b \in AttemptIds \ {a} : attempts'[b] = attempts[b]
      /\ \/ attempts[a].status = "ABSENT" /\ attempts'[a].status = "REQUESTED"
         \/ /\ attempts'[a].kind = attempts[a].kind
            /\ attempts'[a].target = attempts[a].target
            /\ attempts'[a].amount = attempts[a].amount
            /\ attempts[a].status \in Unsettled
            /\ attempts'[a].status \in Statuses
  BY AttemptStep
<1>2. /\ \A v \in Works : works'[v].commitment = works[v].commitment
      /\ \A v \in Works :
           works'[v].held = works[v].held -
             (IF /\ attempts'[a].kind = "SPEND" /\ attempts'[a].target = v
                 /\ attempts'[a].status = "SETTLED"
                    \/ (attempts'[a].status = "FAILED" /\ works[v].commitment = "CLOSED")
              THEN attempts'[a].amount ELSE 0)
      /\ attempts'[a].kind = "SPEND" => works[attempts'[a].target].commitment # "ABSENT"
  <2>0. \A v \in Works : works[v].held \in Nat
    BY <1>0 DEF Work
  <2>1. CASE \E w \in Works, amount \in Amounts : BeginSpend(w, a, amount)
    BY <1>0, <2>0, <2>1 DEF BeginSpend
  <2>2. CASE \E w \in Works : BeginRefund(w, a)
    BY <1>0, <2>0, <2>2 DEF BeginRefund
  <2>3. CASE \E o \in Observations : ObserveRefund(a, o)
    <3>1. PICK o \in Observations : ObserveRefund(a, o)
      BY <2>3
    <3>2. attempts'[a].kind = "REFUND" /\ UNCHANGED works
      BY <1>0, <3>1, ObservedAttempt DEF ObserveRefund
    <3> QED
      BY <2>0, <3>2
  <2>4. CASE \E o \in Observations : ObserveSpend(a, o)
    <3>1. PICK o \in Observations : ObserveSpend(a, o)
      BY <2>4
    <3>2. PICK w \in Works : w = attempts[a].target
      BY <3>1 DEF ObserveSpend, IInv, AttemptsHaveTargets
    <3>3. /\ attempts'[a].kind = "SPEND" /\ attempts'[a].target = w
          /\ attempts'[a].status = o.status /\ attempts'[a].amount = o.amount
      BY <1>0, <3>1, <3>2, ObservedAttempt DEF ObserveSpend
    <3>4. /\ works'[w].held = works[w].held - Released(w, o)
          /\ works'[w].commitment = works[w].commitment
          /\ works[w].commitment # "ABSENT"
          /\ \A v \in Works \ {w} : works'[v] = works[v]
      BY <1>0, <3>1, <3>2 DEF ObserveSpend, Work
    <3> QED
      BY <2>0, <3>3, <3>4 DEF Released
  <2> QED
    BY <2>1, <2>2, <2>3, <2>4
<1>3. ASSUME NEW v \in Works
      PROVE  Used(v)' + works'[v].held <= Listing[v].costCeiling + InFlight(v)'
  <2> DEFINE m == IF attempts'[a].kind = "SPEND" /\ attempts'[a].target = v
                  THEN attempts'[a].amount ELSE 0
             old == IF attempts[a].status \in Unsettled THEN m ELSE 0
  <2>1. /\ Used(v)' + old = Used(v) + (IF attempts'[a].status = "FAILED" THEN 0 ELSE m)
        /\ InFlight(v)' + old = InFlight(v) + (IF attempts'[a].status \in Unsettled THEN m ELSE 0)
        /\ Used(v)' \in Nat /\ InFlight(v)' \in Nat /\ m \in Nat
    BY UsedMoves
  <2>2. works'[v].held = works[v].held -
          (IF attempts'[a].status = "SETTLED"
              \/ (attempts'[a].status = "FAILED" /\ works[v].commitment = "CLOSED")
           THEN m ELSE 0)
    <3>1. works'[v].held = works[v].held -
             (IF /\ attempts'[a].kind = "SPEND" /\ attempts'[a].target = v
                 /\ attempts'[a].status = "SETTLED"
                    \/ (attempts'[a].status = "FAILED" /\ works[v].commitment = "CLOSED")
              THEN attempts'[a].amount ELSE 0)
      BY <1>2
    <3> QED
      BY <3>1
  <2>3. /\ Used(v) \in Nat /\ InFlight(v) \in Nat /\ works[v].held \in Nat
        /\ Listing[v].costCeiling \in Nat
    BY <1>0, UsedType
  <2>4. Used(v) + works[v].held <= Listing[v].costCeiling + InFlight(v)
    BY DEF CeilingInv, Used
  <2>5. old \in Nat
    BY <2>1
  <2>6. attempts'[a].status \in Unsettled \cup {"SETTLED", "FAILED"}
    BY <1>1 DEF Unsettled, Statuses
  <2>7. works'[v].held \in Nat
    BY <1>0 DEF TypeOK, Work
  <2> HIDE DEF m, old
  <2>8. CASE attempts'[a].status \in Unsettled
    BY <2>1, <2>2, <2>3, <2>4, <2>5, <2>7, <2>8 DEF Unsettled
  <2>9. CASE attempts'[a].status = "SETTLED"
    BY <2>1, <2>2, <2>3, <2>4, <2>5, <2>7, <2>9 DEF Unsettled
  <2>10. CASE attempts'[a].status = "FAILED"
    BY <2>1, <2>2, <2>3, <2>4, <2>5, <2>7, <2>10 DEF Unsettled
  <2> QED
    BY <2>6, <2>8, <2>9, <2>10
<1>4. \A b \in AttemptIds :
        attempts'[b].kind = "SPEND" /\ attempts'[b].status # "ABSENT" =>
          works'[attempts'[b].target].commitment # "ABSENT"
  <2>1. attempts'[a].kind = "SPEND" => works'[attempts'[a].target].commitment # "ABSENT"
    BY <1>1, <1>2
  <2>2. ASSUME NEW b \in AttemptIds \ {a}, attempts[b].kind = "SPEND", attempts[b].status # "ABSENT"
        PROVE  works'[attempts[b].target].commitment # "ABSENT"
    BY <1>2, <2>2 DEF CeilingInv, IInv, AttemptsHaveTargets
  <2> QED
    BY <1>1, <2>1, <2>2
<1> QED
  BY <1>3, <1>4 DEF CeilingInv, Used

\* Commands that change neither the reservation of an assignment nor an attempt.
LEMMA ReservationStands ==
  ASSUME IInv, IInv', CeilingInv, UNCHANGED attempts,
         \A w \in Works : /\ works'[w].commitment = works[w].commitment
                          /\ works'[w].held = works[w].held
  PROVE  CeilingInv'
<1>1. \A w \in Works : works[w].held \in Nat
  BY DEF IInv, TypeOK, Work
<1> QED
  BY <1>1, WorkStepKeepsCeiling

LEMMA CloseKeepsCeiling ==
  ASSUME IInv, IInv', CeilingInv, UNCHANGED attempts, NEW w \in Works, NEW stage \in Stages,
         works' = [works EXCEPT ![w] = Closed(w, stage)]
  PROVE  CeilingInv'
<1> DEFINE c == Closed(w, stage)
<1>1. c.held = InFlight(w) /\ (c.commitment = "ABSENT" <=> works[w].commitment = "ABSENT")
  BY ConfigAssumption, ClosedFacts
<1>2. works'[w] = c /\ \A v \in Works \ {w} : works'[v] = works[v]
  BY DEF IInv, TypeOK
<1> HIDE DEF c
<1>3. InFlight(w) <= works[w].held
  BY DEF IInv, HeldCoversInFlight
<1>4. \A v \in Works : works[v].held \in Nat
  BY DEF IInv, TypeOK, Work
<1>5. \A v \in Works : /\ works'[v].commitment = "ABSENT" => works[v].commitment = "ABSENT"
                       /\ works'[v].held <= works[v].held
  BY <1>1, <1>2, <1>3, <1>4
<1> QED
  BY <1>5, WorkStepKeepsCeiling

LEMMA ApplyKeepsCeiling ==
  ASSUME IInv, IInv', CeilingInv, [Apply]_vars
  PROVE  CeilingInv'
<1>0. works \in [Works -> Work] /\ \A v \in Works : works[v].stage \in Stages
  BY DEF IInv, TypeOK, Work
<1>1. ASSUME NEW a \in AttemptIds,
             \/ \E w \in Works : BeginRefund(w, a) \/ \E amount \in Amounts : BeginSpend(w, a, amount)
             \/ \E o \in Observations : ObserveSpend(a, o) \/ ObserveRefund(a, o)
      PROVE  CeilingInv'
  BY <1>1, AttemptStepsKeepCeiling
<1>2. CASE UNCHANGED <<works, attempts>>
  BY <1>2, ReservationStands
<1>3. CASE AgentStep
  <2>1. PICK w \in Works :
           \/ DiscoverWork(w) \/ ScopeAssignment(w) \/ AcceptAssignment(w) \/ BeginWork(w)
           \/ \E content \in Packets : DeliverArtifact(w, content)
           \/ IssueInvoice(w) \/ CancelWork(w) \/ CloseCommitment(w)
           \/ \E a \in AttemptIds, amount \in Amounts : BeginSpend(w, a, amount)
           \/ \E a \in AttemptIds : BeginRefund(w, a)
    BY <1>3 DEF AgentStep
  <2>2. CASE DiscoverWork(w) \/ ScopeAssignment(w) \/ BeginWork(w)
    BY <1>0, <2>2, ReservationStands DEF DiscoverWork, ScopeAssignment, BeginWork, Work
  <2>3. CASE \E content \in Packets : DeliverArtifact(w, content)
    BY <1>0, <2>3, ReservationStands DEF DeliverArtifact, Work
  <2>4. CASE AcceptAssignment(w)
    <3>1. works[w].commitment = "ABSENT"
      BY <2>4 DEF AcceptAssignment, IInv, CommitmentFollowsStage
    <3>2. /\ UNCHANGED attempts
          /\ works'[w].held = Listing[w].costCeiling /\ works'[w].commitment = "OPEN"
          /\ \A v \in Works \ {w} : works'[v] = works[v]
      BY <1>0, <2>4 DEF AcceptAssignment, Work
    <3>3. \A v \in Works : works[v].held \in Nat
      BY <1>0 DEF Work
    <3>4. \A v \in Works :
            /\ works'[v].commitment = "ABSENT" => works[v].commitment = "ABSENT"
            /\ \/ works'[v].held <= works[v].held
               \/ works'[v].held = Listing[v].costCeiling /\ works[v].commitment = "ABSENT"
      BY <3>1, <3>2, <3>3
    <3> QED
      BY <3>2, <3>4, WorkStepKeepsCeiling
  <2>5. CASE CancelWork(w)
    BY <2>5, CloseKeepsCeiling DEF CancelWork, Stages
  <2>6. CASE CloseCommitment(w)
    BY <1>0, <2>6, CloseKeepsCeiling DEF CloseCommitment
  <2>7. CASE IssueInvoice(w)
    BY <1>2, <2>7 DEF IssueInvoice
  <2> QED
    BY <1>1, <2>1, <2>2, <2>3, <2>4, <2>5, <2>6, <2>7
<1>4. CASE CustomerStep
  <2>1. PICK c \in Customers, w \in Works :
           \/ \E artifact \in Packets, digest \in ScopeDigests, revision \in Revisions : AcceptDelivery(c, w, artifact, digest, revision)
           \/ RejectDelivery(c, w)
           \/ \E amount \in Amounts : RequestRefund(c, w, amount)
           \/ DisputeInvoice(c, w) \/ ResolveDispute(c, w)
    BY <1>4 DEF CustomerStep
  <2>2. CASE \E artifact \in Packets, digest \in ScopeDigests, revision \in Revisions : AcceptDelivery(c, w, artifact, digest, revision)
    BY <1>0, <2>2, ReservationStands DEF AcceptDelivery, Work
  <2>3. CASE RejectDelivery(c, w)
    BY <2>3, CloseKeepsCeiling DEF RejectDelivery, Stages
  <2> QED
    BY <1>2, <2>1, <2>2, <2>3 DEF RequestRefund, DisputeInvoice, ResolveDispute
<1>5. CASE OperatorStep
  <2>1. CASE \E w \in Works : ExpireWork(w)
    BY <2>1, CloseKeepsCeiling DEF ExpireWork, Stages
  <2> QED
    BY <1>2, <1>5, <2>1 DEF OperatorStep, RevokeScope, AdvanceClock
<1>6. CASE RailStep
  BY <1>1, <1>2, <1>6 DEF RailStep, ObserveEarning, RepeatObservation, vars
<1> QED
  BY <1>2, <1>3, <1>4, <1>5, <1>6 DEF Apply, vars

\* What was spent and is in flight is within the ceiling, since the reservation covers
\* what is in flight.
LEMMA CeilingBoundsSpending ==
  ASSUME IInv, CeilingInv
  PROVE  SpendWithinCeiling
<1> SUFFICES ASSUME NEW w \in Works
             PROVE  Used(w) <= Listing[w].costCeiling
  BY DEF SpendWithinCeiling, Used
<1>1. /\ Used(w) \in Nat /\ InFlight(w) \in Nat /\ works[w].held \in Nat
      /\ Listing[w].costCeiling \in Nat
  BY UsedType DEF IInv
<1>2. Used(w) + works[w].held <= Listing[w].costCeiling + InFlight(w)
  BY DEF CeilingInv, Used
<1>3. InFlight(w) <= works[w].held
  BY DEF IInv, HeldCoversInFlight
<1> QED
  BY <1>1, <1>2, <1>3

-----------------------------------------------------------------------------
(***************************************************************************)
(* The reserve.                                                            *)
(***************************************************************************)
LEMMA InitReserve ==
  ASSUME Init
  PROVE  ReserveUntouched
<1>1. settledEarnings = 0 /\ settledSpend = 0 /\ settledRefunds = 0
  BY DEF Init
<1> QED
  BY <1>1, InitAttemptTotals, ConfigAssumption DEF ReserveUntouched, ConfigAssumption

\* Whatever the rail has been handed was set aside before, spending in reservations and
\* refunds in obligations: so it is after a step that keeps the invariants.
LEMMA HandedIsSetAside ==
  ASSUME IInv', SpendInv', RefundInv'
  PROVE  /\ TotalOf(AttemptTable("SPEND", Works, Unsettled))' <= Commitments'
         /\ TotalOf(AttemptTable("REFUND", Works, Unsettled))' <= ObligationTotal'
<1>0. TypeOK' /\ IsFiniteSet(Works)
  BY ConfigAssumption DEF IInv, ConfigAssumption
<1> DEFINE flights == InFlights'
           held == HeldTable'
           refunds == RefundTable("IN_FLIGHT")'
           owed == OwedTable'
<1>1. flights \in [Works -> Nat]
  BY <1>0, InFlightTypeNext, ConfigAssumption DEF InFlights
<1>2. held \in [Works -> Nat] /\ refunds \in [Works -> Nat] /\ owed \in [Works -> Nat]
  BY <1>0 DEF HeldTable, RefundTable, OwedTable, TypeOK, Work, Obligation
<1>3. \A w \in Works : flights[w] <= held[w]
  <2>1. ASSUME NEW w \in Works
        PROVE  InFlight(w)' <= works'[w].held
    <3>1. InFlight(w)' \in Nat /\ HeldCoversInFlight'
      BY <1>0, InFlightTypeNext, ConfigAssumption DEF IInv
    <3> QED
      BY <3>1, InFlightIsTotal DEF HeldCoversInFlight, InFlight, InFlightTable, Pending
  <2> QED
    BY <2>1 DEF InFlights, HeldTable
<1>4. \A w \in Works : refunds[w] <= owed[w]
  BY <1>0 DEF RefundTable, OwedTable, TypeOK, Obligation
<1> HIDE DEF flights, held, refunds, owed
<1>5. TotalOf(flights) <= TotalOf(held)
  BY <1>0, <1>1, <1>2, <1>3, TotalMonotone
<1>6. TotalOf(refunds) <= TotalOf(owed)
  BY <1>0, <1>2, <1>4, TotalMonotone
<1> QED
  BY <1>5, <1>6 DEF SpendInv, RefundInv, Commitments, ObligationTotal, flights, held, refunds, owed

\* Beginning an attempt changes no balance of the treasury.
LEMMA BeginKeepsBalances ==
  ASSUME IInv, NEW w \in Works, NEW a \in AttemptIds,
         BeginRefund(w, a) \/ \E amount \in Amounts : BeginSpend(w, a, amount)
  PROVE  /\ Commitments' = Commitments
         /\ ObligationTotal' = ObligationTotal
         /\ UNCHANGED totals
         /\ Funded
<1>0. obligations \in [Works -> Obligation]
  BY DEF IInv, TypeOK
<1>1. UNCHANGED <<works, totals>> /\ Funded
  BY DEF BeginRefund, BeginSpend
<1>2. HeldTable' = HeldTable
  BY <1>1 DEF HeldTable
<1>3. \A v \in Works : /\ obligations'[v].amount = obligations[v].amount
                       /\ obligations'[v].status = "SETTLED" <=> obligations[v].status = "SETTLED"
  BY <1>0 DEF BeginRefund, BeginSpend, Obligation
<1>4. OwedTable' = OwedTable
  BY <1>3 DEF OwedTable
<1> QED
  BY <1>1, <1>2, <1>4 DEF Commitments, ObligationTotal

\* The balances of the treasury are of the right kind.
LEMMA TreasuryType ==
  ASSUME TypeOK
  PROVE  /\ Commitments \in Nat /\ ObligationTotal \in Nat /\ DisputeReserves \in Nat
         /\ settledEarnings \in Nat /\ settledSpend \in Nat /\ settledRefunds \in Nat
         /\ Opening \in Nat /\ Reserve \in Nat
<1>1. DisputeTable \in [Works -> Nat]
  BY DEF DisputeTable, TypeOK, Invoice, Obligation
<1>2. DisputeReserves \in Nat
  BY <1>1, ConfigAssumption, TotalType DEF ConfigAssumption, DisputeReserves
<1> QED
  BY <1>2, WorkTablesType, ConfigAssumption DEF ConfigAssumption, TypeOK

LEMMA BeginKeepsReserve ==
  ASSUME IInv, IInv', SpendInv', RefundInv', NEW w \in Works, NEW a \in AttemptIds,
         BeginRefund(w, a) \/ \E amount \in Amounts : BeginSpend(w, a, amount)
  PROVE  ReserveUntouched'
<1>0. TypeOK /\ TypeOK'
  BY DEF IInv
<1>1. /\ Commitments' = Commitments /\ ObligationTotal' = ObligationTotal
      /\ UNCHANGED totals /\ Funded
  BY BeginKeepsBalances
<1>2. /\ TotalOf(AttemptTable("SPEND", Works, Unsettled))' <= Commitments'
      /\ TotalOf(AttemptTable("REFUND", Works, Unsettled))' <= ObligationTotal'
  BY HandedIsSetAside
<1>3. /\ Commitments \in Nat /\ ObligationTotal \in Nat /\ DisputeReserves \in Nat
      /\ settledEarnings \in Nat /\ settledSpend \in Nat /\ settledRefunds \in Nat
      /\ Opening \in Nat /\ Reserve \in Nat
  BY <1>0, TreasuryType
<1>4. Opening + settledEarnings - settledSpend - settledRefunds
        - Reserve - Commitments - ObligationTotal - DisputeReserves >= 0
  BY <1>1 DEF Funded, Available
<1>5. PICK us \in Nat, ur \in Nat :
         /\ us = TotalOf(AttemptTable("SPEND", Works, Unsettled))'
         /\ ur = TotalOf(AttemptTable("REFUND", Works, Unsettled))'
  <2>1. AttemptTable("SPEND", Works, Unsettled)' \in [AttemptIds -> Nat]
    BY <1>0 DEF AttemptTable, TypeOK, Attempt
  <2>2. AttemptTable("REFUND", Works, Unsettled)' \in [AttemptIds -> Nat]
    BY <1>0 DEF AttemptTable, TypeOK, Attempt
  <2> QED
    BY <2>1, <2>2, ConfigAssumption, TotalType DEF ConfigAssumption
<1>6. us <= Commitments /\ ur <= ObligationTotal
  BY <1>1, <1>2, <1>5
<1>7. Opening + settledEarnings - settledSpend - settledRefunds - us - ur >= Reserve
  BY <1>3, <1>4, <1>5, <1>6
<1> QED
  BY <1>1, <1>5, <1>7 DEF ReserveUntouched, totals

\* What is settled and what may yet be is never more after an observation of an attempt.
LEMMA ObservationSettlesWhatWasHanded ==
  ASSUME IInv, IInv', NEW a \in AttemptIds, NEW kind,
         \E o \in Observations : ObserveSpend(a, o) \/ ObserveRefund(a, o)
  PROVE  /\ TotalOf(AttemptTable(kind, Works, {"SETTLED"}))' + TotalOf(AttemptTable(kind, Works, Unsettled))'
              <= TotalOf(AttemptTable(kind, Works, {"SETTLED"})) + TotalOf(AttemptTable(kind, Works, Unsettled))
         /\ TotalOf(AttemptTable(kind, Works, {"SETTLED"}))' \in Nat
         /\ TotalOf(AttemptTable(kind, Works, {"SETTLED"})) \in Nat
         /\ TotalOf(AttemptTable(kind, Works, Unsettled))' \in Nat
         /\ TotalOf(AttemptTable(kind, Works, Unsettled)) \in Nat
<1>0. TypeOK /\ TypeOK'
  BY DEF IInv
<1>1. /\ attempts'[a].target \in Works
      /\ \A b \in AttemptIds \ {a} : attempts'[b] = attempts[b]
      /\ attempts'[a].kind = attempts[a].kind
      /\ attempts'[a].target = attempts[a].target
      /\ attempts'[a].amount = attempts[a].amount
      /\ attempts[a].status \in Unsettled
      /\ attempts'[a].status \in Statuses
  <2>1. attempts[a].status # "ABSENT"
    BY DEF ObserveSpend, ObserveRefund
  <2> QED
    BY <2>1, AttemptStep
<1> DEFINE m == IF attempts'[a].kind = kind /\ attempts'[a].target \in Works
                THEN attempts'[a].amount ELSE 0
<1>2. m \in Nat
  BY <1>0 DEF TypeOK, Attempt
<1>3. ASSUME NEW statuses, "ABSENT" \notin statuses
      PROVE  /\ TotalOf(AttemptTable(kind, Works, statuses))'
                  + (IF attempts[a].status \in statuses THEN m ELSE 0)
                = TotalOf(AttemptTable(kind, Works, statuses))
                  + (IF attempts'[a].status \in statuses THEN m ELSE 0)
             /\ TotalOf(AttemptTable(kind, Works, statuses)) \in Nat
             /\ TotalOf(AttemptTable(kind, Works, statuses))' \in Nat
  <2>1. LET among == attempts'[a].kind = kind /\ attempts'[a].target \in Works
            amount == attempts'[a].amount
        IN  /\ TotalOf(AttemptTable(kind, Works, statuses))'
                 + (IF among /\ attempts[a].status \in statuses THEN amount ELSE 0)
               = TotalOf(AttemptTable(kind, Works, statuses))
                 + (IF among /\ attempts'[a].status \in statuses THEN amount ELSE 0)
            /\ TotalOf(AttemptTable(kind, Works, statuses)) \in Nat
            /\ TotalOf(AttemptTable(kind, Works, statuses))' \in Nat
    BY <1>0, <1>1, <1>3, AttemptMoves
  <2> QED
    BY <2>1
<1> HIDE DEF m
<1>4. /\ TotalOf(AttemptTable(kind, Works, {"SETTLED"}))'
           = TotalOf(AttemptTable(kind, Works, {"SETTLED"})) + (IF attempts'[a].status = "SETTLED" THEN m ELSE 0)
      /\ TotalOf(AttemptTable(kind, Works, {"SETTLED"})) \in Nat
      /\ TotalOf(AttemptTable(kind, Works, {"SETTLED"}))' \in Nat
  <2>1. attempts[a].status # "SETTLED"
    BY <1>1 DEF Unsettled
  <2> QED
    BY <1>2, <1>3, <2>1
<1>5. /\ TotalOf(AttemptTable(kind, Works, Unsettled))' + m
           = TotalOf(AttemptTable(kind, Works, Unsettled)) + (IF attempts'[a].status \in Unsettled THEN m ELSE 0)
      /\ TotalOf(AttemptTable(kind, Works, Unsettled)) \in Nat
      /\ TotalOf(AttemptTable(kind, Works, Unsettled))' \in Nat
  <2>1. "ABSENT" \notin Unsettled
    BY DEF Unsettled
  <2> QED
    BY <1>1, <1>2, <1>3, <2>1
<1>6. ~(attempts'[a].status = "SETTLED" /\ attempts'[a].status \in Unsettled)
  BY DEF Unsettled
<1> QED
  BY <1>2, <1>4, <1>5, <1>6

LEMMA ObserveKeepsReserve ==
  ASSUME IInv, IInv', SpendInv, SpendInv', RefundInv, RefundInv', ReserveUntouched, NEW a \in AttemptIds,
         \E o \in Observations : ObserveSpend(a, o) \/ ObserveRefund(a, o)
  PROVE  ReserveUntouched'
<1>1. ASSUME NEW kind
      PROVE  /\ TotalOf(AttemptTable(kind, Works, {"SETTLED"}))' + TotalOf(AttemptTable(kind, Works, Unsettled))'
                  <= TotalOf(AttemptTable(kind, Works, {"SETTLED"})) + TotalOf(AttemptTable(kind, Works, Unsettled))
             /\ TotalOf(AttemptTable(kind, Works, {"SETTLED"}))' \in Nat
             /\ TotalOf(AttemptTable(kind, Works, {"SETTLED"})) \in Nat
             /\ TotalOf(AttemptTable(kind, Works, Unsettled))' \in Nat
             /\ TotalOf(AttemptTable(kind, Works, Unsettled)) \in Nat
  BY ObservationSettlesWhatWasHanded
<1>2. /\ settledSpend' + TotalOf(AttemptTable("SPEND", Works, Unsettled))'
           <= settledSpend + TotalOf(AttemptTable("SPEND", Works, Unsettled))
      /\ settledSpend \in Nat /\ settledSpend' \in Nat
      /\ TotalOf(AttemptTable("SPEND", Works, Unsettled)) \in Nat
      /\ TotalOf(AttemptTable("SPEND", Works, Unsettled))' \in Nat
  BY <1>1 DEF SpendInv
<1>3. /\ settledRefunds' + TotalOf(AttemptTable("REFUND", Works, Unsettled))'
           <= settledRefunds + TotalOf(AttemptTable("REFUND", Works, Unsettled))
      /\ settledRefunds \in Nat /\ settledRefunds' \in Nat
      /\ TotalOf(AttemptTable("REFUND", Works, Unsettled)) \in Nat
      /\ TotalOf(AttemptTable("REFUND", Works, Unsettled))' \in Nat
  BY <1>1 DEF RefundInv
<1>4. settledEarnings' = settledEarnings
  BY DEF ObserveSpend, ObserveRefund
<1>5. settledEarnings \in Nat /\ Opening \in Nat /\ Reserve \in Nat
  BY TreasuryType DEF IInv
<1>6. Opening + settledEarnings - settledSpend - settledRefunds
        - TotalOf(AttemptTable("SPEND", Works, Unsettled))
        - TotalOf(AttemptTable("REFUND", Works, Unsettled)) >= Reserve
  BY DEF ReserveUntouched
<1>7. Opening + settledEarnings' - settledSpend' - settledRefunds'
        - TotalOf(AttemptTable("SPEND", Works, Unsettled))'
        - TotalOf(AttemptTable("REFUND", Works, Unsettled))' >= Reserve
  BY <1>2, <1>3, <1>4, <1>5, <1>6
<1> QED
  BY <1>7 DEF ReserveUntouched

LEMMA ApplyKeepsReserve ==
  ASSUME IInv, IInv', SpendInv, SpendInv', RefundInv, RefundInv', ReserveUntouched, [Apply]_vars
  PROVE  ReserveUntouched'
<1>1. CASE UNCHANGED <<attempts, totals>>
  BY <1>1 DEF ReserveUntouched, AttemptTable, totals
<1>2. CASE \E o \in Observations, w \in Works, p \in PaymentIds : ObserveEarning(w, p, o)
  <2>1. PICK o \in Observations, w \in Works, p \in PaymentIds : ObserveEarning(w, p, o)
    BY <1>2
  <2>2. UNCHANGED <<attempts, settledSpend, settledRefunds>>
    BY <2>1 DEF ObserveEarning
  <2>3. settledEarnings' >= settledEarnings
    <3>1. o.amount \in Nat
      BY InputAssumption DEF Observations, InputAssumption
    <3> QED
      BY <2>1, <3>1 DEF ObserveEarning, IInv, TypeOK
  <2>4. /\ settledEarnings \in Nat /\ settledEarnings' \in Nat
        /\ settledSpend \in Nat /\ settledRefunds \in Nat /\ Opening \in Nat /\ Reserve \in Nat
    BY ConfigAssumption DEF IInv, TypeOK, ConfigAssumption
  <2>5. /\ AttemptTable("SPEND", Works, Unsettled)' = AttemptTable("SPEND", Works, Unsettled)
        /\ AttemptTable("REFUND", Works, Unsettled)' = AttemptTable("REFUND", Works, Unsettled)
    BY <2>2 DEF AttemptTable
  <2>6. /\ TotalOf(AttemptTable("SPEND", Works, Unsettled)) \in Nat
        /\ TotalOf(AttemptTable("REFUND", Works, Unsettled)) \in Nat
    BY AttemptTableType DEF IInv
  <2> QED
    BY <2>2, <2>3, <2>4, <2>5, <2>6 DEF ReserveUntouched
<1>3. CASE \E w \in Works, a \in AttemptIds :
             BeginRefund(w, a) \/ \E amount \in Amounts : BeginSpend(w, a, amount)
  BY <1>3, BeginKeepsReserve
<1>4. CASE \E a \in AttemptIds, o \in Observations : ObserveSpend(a, o) \/ ObserveRefund(a, o)
  BY <1>4, ObserveKeepsReserve
<1> QED
  BY <1>1, <1>2, <1>3, <1>4, MoneySteps
     DEF IssueInvoice, DisputeInvoice, ResolveDispute, RequestRefund

-----------------------------------------------------------------------------
(***************************************************************************)
(* The inductive invariant of the books, and what follows from it.         *)
(***************************************************************************)
LInv ==
  /\ IInv
  /\ BindingInv
  /\ EarningInv
  /\ SpendInv
  /\ RefundInv
  /\ CeilingInv
  /\ ReserveUntouched

LEMMA BooksAreKept == SpecApply => []LInv
<1>1. Init => LInv
  BY InitIInv, InitBinding, InitEarning, InitSpend, InitRefund, InitCeiling, InitReserve,
     ConfigAssumption DEF LInv
<1>2. ASSUME LInv, [Apply]_vars
      PROVE  LInv'
  <2>1. IInv'
    BY <1>2, ApplyKeepsIInv, ConfigAssumption, InputAssumption DEF LInv
  <2>2. BindingInv'
    BY <1>2, ApplyKeepsBinding DEF LInv
  <2>3. EarningInv'
    BY <1>2, <2>1, ApplyKeepsEarning DEF LInv
  <2>4. SpendInv'
    BY <1>2, <2>1, ApplyKeepsSpend DEF LInv
  <2>5. RefundInv'
    BY <1>2, <2>1, ApplyKeepsRefund DEF LInv
  <2>6. CeilingInv'
    BY <1>2, <2>1, ApplyKeepsCeiling DEF LInv
  <2>7. ReserveUntouched'
    BY <1>2, <2>1, <2>4, <2>5, ApplyKeepsReserve DEF LInv
  <2> QED
    BY <2>1, <2>2, <2>3, <2>4, <2>5, <2>6, <2>7 DEF LInv
<1> QED
  BY <1>1, <1>2, PTL DEF SpecApply

\* Whatever the rail answers and in whatever order, what an assignment has spent and has
\* in flight stays within its cost ceiling (engine.ts:259-267, 324-335, 402-414).
THEOREM CeilingsHold == SpecApply => []SpendWithinCeiling
<1>1. LInv => SpendWithinCeiling
  BY CeilingBoundsSpending DEF LInv
<1> QED
  BY <1>1, BooksAreKept, PTL

\* The running totals are the sums of what the rail settled: nothing settled is lost and
\* nothing is counted twice (engine.ts:356, 413, 418).
THEOREM TotalsAreTrue == SpecApply => []TotalsMatchRail
<1>1. LInv => TotalsMatchRail
  BY DEF LInv, EarningInv, SpendInv, RefundInv, TotalsMatchRail
<1> QED
  BY <1>1, BooksAreKept, PTL

\* An invoice is never paid beyond its amount, counting payments still on their way and
\* freeing the room of failed ones (engine.ts:346-347).
THEOREM InvoicesAreNotOverpaid == SpecApply => []NeverOverpaid
<1>1. LInv => NeverOverpaid
  BY DEF LInv, EarningInv
<1> QED
  BY <1>1, BooksAreKept, PTL

\* An obligation is in flight exactly while one unsettled attempt of its amount is bound
\* to it (engine.ts:394-401, 415-421).
THEOREM RefundsAreBound == SpecApply => []RefundBinding
<1>1. LInv => RefundBinding
  BY DEF LInv, BindingInv
<1> QED
  BY <1>1, BooksAreKept, PTL

\* Even if the rail settles everything it has been handed, the credits left are at least
\* the reserve, shortfall or not (engine.ts:330, 396).
THEOREM ReserveIsKept == SpecApply => []ReserveUntouched
<1>1. LInv => ReserveUntouched
  BY DEF LInv
<1> QED
  BY <1>1, BooksAreKept, PTL

-----------------------------------------------------------------------------
(***************************************************************************)
(* What is available.                                                      *)
(***************************************************************************)
\* What each invoice contributes: what was settled less its refund, or nothing in a dispute.
NetTable ==
  [w \in Works |-> IF invoices[w].dispute THEN 0 ELSE invoices[w].settledAmount - obligations[w].amount]

\* What is available is what the undisputed invoices contribute to the opening credits,
\* less the reserve, the spending and the reservations.
NetForm == Available = Opening - Reserve - settledSpend - Commitments + TotalOf(NetTable)

LEMMA NetType ==
  ASSUME TypeOK, BindingInv
  PROVE  NetTable \in [Works -> Nat] /\ TotalOf(NetTable) \in Nat
<1>1. ASSUME NEW w \in Works, ~invoices[w].dispute
      PROVE  invoices[w].settledAmount - obligations[w].amount \in Nat
  <2>1. obligations[w].amount \in Nat /\ invoices[w].settledAmount \in Nat
    BY DEF TypeOK, Invoice, Obligation
  <2> QED
    BY <2>1 DEF BindingInv
<1>2. NetTable \in [Works -> Nat]
  BY <1>1 DEF NetTable
<1> QED
  BY <1>2, ConfigAssumption, TotalType DEF ConfigAssumption

LEMMA ClosedForm ==
  ASSUME LInv
  PROVE  AvailableClosedForm /\ NetForm
<1> DEFINE settled == SettledAmounts
           refunded == RefundTable("SETTLED")
           open == OwedTable
           asked == [w \in Works |-> obligations[w].amount]
           disputed == DisputeTable
           kept == [w \in Works |-> IF invoices[w].dispute THEN 0 ELSE invoices[w].settledAmount]
           owed == [w \in Works |-> IF invoices[w].dispute THEN 0 ELSE obligations[w].amount]
           both == [w \in Works |-> settled[w] + owed[w]]
           rest == [w \in Works |-> kept[w] + asked[w]]
           net == NetTable
<1>0. TypeOK /\ BindingInv /\ IsFiniteSet(Works)
  BY ConfigAssumption DEF LInv, IInv, ConfigAssumption
<1>1. \A w \in Works : /\ invoices[w].settledAmount \in Nat /\ obligations[w].amount \in Nat
                       /\ obligations[w].amount <= invoices[w].settledAmount
                       /\ invoices[w].dispute \in BOOLEAN
  BY <1>0 DEF TypeOK, Invoice, Obligation, BindingInv
<1>2. /\ settled \in [Works -> Nat] /\ refunded \in [Works -> Nat] /\ open \in [Works -> Nat]
      /\ asked \in [Works -> Nat] /\ disputed \in [Works -> Nat] /\ kept \in [Works -> Nat]
      /\ owed \in [Works -> Nat]
  BY <1>1 DEF SettledAmounts, RefundTable, OwedTable, DisputeTable
<1>3. both \in [Works -> Nat] /\ rest \in [Works -> Nat]
  BY <1>2
<1>4. net \in [Works -> Nat]
  BY <1>0, NetType
<1>5. \A w \in Works : asked[w] = refunded[w] + open[w]
  BY <1>1 DEF RefundTable, OwedTable
<1>6. \A w \in Works : both[w] = settled[w] + owed[w] /\ rest[w] = kept[w] + asked[w]
  OBVIOUS
<1>7. \A w \in Works : both[w] = rest[w] + disputed[w]
  BY <1>1 DEF SettledAmounts, DisputeTable
<1>8. \A w \in Works : kept[w] = net[w] + owed[w]
  BY <1>1 DEF NetTable
<1> HIDE DEF settled, refunded, open, asked, disputed, kept, owed, both, rest, net
<1>9. TotalOf(asked) = TotalOf(refunded) + TotalOf(open)
  BY <1>0, <1>2, <1>5, TotalSum
<1>10. TotalOf(both) = TotalOf(settled) + TotalOf(owed)
  BY <1>0, <1>2, <1>3, <1>6, TotalSum
<1>11. TotalOf(rest) = TotalOf(kept) + TotalOf(asked)
  BY <1>0, <1>2, <1>3, <1>6, TotalSum
<1>12. TotalOf(both) = TotalOf(rest) + TotalOf(disputed)
  BY <1>0, <1>2, <1>3, <1>7, TotalSum
<1>13. TotalOf(kept) = TotalOf(net) + TotalOf(owed)
  BY <1>0, <1>2, <1>4, <1>8, TotalSum
<1>14. /\ TotalOf(settled) \in Nat /\ TotalOf(refunded) \in Nat /\ TotalOf(open) \in Nat
       /\ TotalOf(asked) \in Nat /\ TotalOf(disputed) \in Nat /\ TotalOf(kept) \in Nat
       /\ TotalOf(owed) \in Nat /\ TotalOf(net) \in Nat
  BY <1>0, <1>2, <1>4, TotalType
<1>15. /\ settledEarnings = TotalOf(settled)
       /\ settledRefunds = TotalOf(refunded)
       /\ ObligationTotal = TotalOf(open)
       /\ DisputeReserves = TotalOf(disputed)
  BY DEF LInv, EarningInv, RefundInv, ObligationTotal, DisputeReserves, settled, refunded, open, disputed
<1>16. Commitments \in Nat /\ settledSpend \in Nat /\ Opening \in Nat /\ Reserve \in Nat
  BY <1>0, TreasuryType
<1>17. Available = Opening + TotalOf(settled) - settledSpend - TotalOf(refunded)
                     - Reserve - Commitments - TotalOf(open) - TotalOf(disputed)
  BY <1>15 DEF Available
<1>18. Available = Opening - Reserve - settledSpend - Commitments + TotalOf(kept) - TotalOf(owed)
  BY <1>9, <1>10, <1>11, <1>12, <1>14, <1>16, <1>17
<1>19. Available = Opening - Reserve - settledSpend - Commitments + TotalOf(net)
  BY <1>13, <1>14, <1>16, <1>18
<1>20. AvailableClosedForm
  BY <1>18 DEF AvailableClosedForm, kept, owed
<1>21. NetForm
  BY <1>19 DEF NetForm, net
<1> QED
  BY <1>20, <1>21

\* A step that spends and reserves no more together, and takes nothing from what any
\* invoice contributes, leaves at least as much available.
LEMMA AvailableGrows ==
  ASSUME TypeOK, TypeOK', BindingInv, BindingInv', NetForm, NetForm',
         settledSpend' + Commitments' <= settledSpend + Commitments,
         \A w \in Works : NetTable[w] <= NetTable'[w]
  PROVE  Available' >= Available
<1>1. /\ NetTable \in [Works -> Nat] /\ TotalOf(NetTable) \in Nat
  BY NetType
<1>2. NetTable' \in [Works -> Nat]
  <2>1. ASSUME NEW w \in Works, ~invoices'[w].dispute
        PROVE  invoices'[w].settledAmount - obligations'[w].amount \in Nat
    <3>1. obligations'[w].amount \in Nat /\ invoices'[w].settledAmount \in Nat
      BY DEF TypeOK, Invoice, Obligation
    <3> QED
      BY <3>1 DEF BindingInv
  <2> QED
    BY <2>1 DEF NetTable
<1>3. TotalOf(NetTable') \in Nat /\ TotalOf(NetTable) <= TotalOf(NetTable')
  BY <1>1, <1>2, ConfigAssumption, TotalType, TotalMonotone DEF ConfigAssumption
<1>4. HeldTable \in [Works -> Nat] /\ HeldTable' \in [Works -> Nat]
  BY DEF HeldTable, TypeOK, Work
<1>5. Commitments \in Nat /\ Commitments' \in Nat
  BY <1>4, ConfigAssumption, TotalType DEF Commitments, ConfigAssumption
<1>6. settledSpend \in Nat /\ settledSpend' \in Nat /\ Opening \in Nat /\ Reserve \in Nat
  BY ConfigAssumption DEF TypeOK, ConfigAssumption
<1>7. /\ Available = Opening - Reserve - settledSpend - Commitments + TotalOf(NetTable)
      /\ Available' = Opening - Reserve - settledSpend' - Commitments' + TotalOf(NetTable')
  BY DEF NetForm
<1>8. PICK n0 \in Nat, n1 \in Nat : n0 = TotalOf(NetTable) /\ n1 = TotalOf(NetTable')
  BY <1>1, <1>3
<1>9. PICK c0 \in Nat, c1 \in Nat : c0 = Commitments /\ c1 = Commitments'
  BY <1>5
<1>10. PICK s0 \in Nat, s1 \in Nat : s0 = settledSpend /\ s1 = settledSpend'
  BY <1>6
<1>11. Opening - Reserve - s1 - c1 + n1 >= Opening - Reserve - s0 - c0 + n0
  <2>1. n0 <= n1 /\ s1 + c1 <= s0 + c0
    BY <1>3, <1>8, <1>9, <1>10
  <2> QED
    BY <1>6, <2>1
<1> QED
  BY <1>7, <1>8, <1>9, <1>10, <1>11

\* No command but a customer's request or dispute takes anything from what an invoice
\* contributes.
LEMMA NetGrows ==
  ASSUME IInv, BindingInv, [Apply]_vars,
         \A w \in Works : /\ ~(obligations[w].status = "ABSENT" /\ obligations'[w].status = "OPEN")
                          /\ ~(~invoices[w].dispute /\ invoices'[w].dispute)
  PROVE  \A w \in Works : NetTable[w] <= NetTable'[w]
<1>0. /\ TypeOK /\ invoices \in [Works -> Invoice] /\ obligations \in [Works -> Obligation]
  BY DEF IInv, TypeOK
<1>1. \A w \in Works : /\ invoices[w].settledAmount \in Nat /\ obligations[w].amount \in Nat
                       /\ obligations[w].amount <= invoices[w].settledAmount
                       /\ invoices[w].dispute \in BOOLEAN
  BY <1>0 DEF Invoice, Obligation, BindingInv
<1>2. ASSUME \A w \in Works : obligations'[w].amount = obligations[w].amount,
             \A w \in Works : invoices'[w].settledAmount \in Nat
                              /\ invoices[w].settledAmount <= invoices'[w].settledAmount
      PROVE  \A w \in Works : NetTable[w] <= NetTable'[w]
  <2> SUFFICES ASSUME NEW w \in Works
               PROVE  NetTable[w] <= NetTable'[w]
    OBVIOUS
  <2>1. NetTable[w] = IF invoices[w].dispute THEN 0 ELSE invoices[w].settledAmount - obligations[w].amount
    BY DEF NetTable
  <2>2. NetTable'[w] = IF invoices'[w].dispute THEN 0 ELSE invoices'[w].settledAmount - obligations'[w].amount
    BY DEF NetTable
  <2>3. invoices'[w].dispute => invoices[w].dispute
    OBVIOUS
  <2> QED
    BY <1>1, <1>2, <2>1, <2>2, <2>3
<1>3. CASE UNCHANGED <<invoices, obligations>>
  BY <1>1, <1>2, <1>3
<1>4. CASE \E w \in Works : IssueInvoice(w)
  <2>1. PICK w \in Works : IssueInvoice(w)
    BY <1>4
  <2>2. /\ UNCHANGED obligations
        /\ invoices[w].settledAmount = 0 /\ invoices'[w].settledAmount = 0
        /\ \A v \in Works \ {w} : invoices'[v] = invoices[v]
    BY <1>0, <2>1 DEF IssueInvoice, NoInvoice, BindingInv
  <2> QED
    BY <1>1, <1>2, <2>2
<1>5. CASE \E c \in Customers, w \in Works : DisputeInvoice(c, w) \/ ResolveDispute(c, w)
  <2>1. /\ UNCHANGED obligations
        /\ \A v \in Works : invoices'[v].settledAmount = invoices[v].settledAmount
    BY <1>0, <1>5 DEF DisputeInvoice, ResolveDispute, Invoice
  <2> QED
    BY <1>1, <1>2, <2>1
<1>6. CASE \E c \in Customers, w \in Works, amount \in Amounts : RequestRefund(c, w, amount)
  <2>1. PICK w \in Works : obligations[w].status = "ABSENT" /\ obligations'[w].status = "OPEN"
    BY <1>0, <1>6 DEF RequestRefund
  <2> QED
    BY <2>1
<1>7. CASE \E w \in Works, a \in AttemptIds : BeginRefund(w, a)
  <2>1. /\ UNCHANGED invoices
        /\ \A v \in Works : obligations'[v].amount = obligations[v].amount
    BY <1>0, <1>7 DEF BeginRefund, Obligation
  <2> QED
    BY <1>1, <1>2, <2>1
<1>8. CASE \E a \in AttemptIds, o \in Observations : ObserveRefund(a, o)
  <2>1. PICK a \in AttemptIds, o \in Observations : ObserveRefund(a, o)
    BY <1>8
  <2>2. PICK w \in Works : w = attempts[a].target
    BY <2>1 DEF ObserveRefund, IInv, AttemptsHaveTargets
  <2>3. /\ UNCHANGED invoices
        /\ obligations'[w] = AfterRefund(obligations[w], o)
        /\ \A v \in Works \ {w} : obligations'[v] = obligations[v]
    BY <1>0, <2>1, <2>2 DEF ObserveRefund
  <2>4. AfterRefund(obligations[w], o).amount = obligations[w].amount
    BY <1>0 DEF AfterRefund, Obligation
  <2> QED
    BY <1>1, <1>2, <2>3, <2>4
<1>9. CASE \E o \in Observations, w \in Works, p \in PaymentIds : ObserveEarning(w, p, o)
  <2>1. PICK o \in Observations, w \in Works, p \in PaymentIds : ObserveEarning(w, p, o)
    BY <1>9
  <2>2. /\ o.amount \in Nat
        /\ invoices'[w].settledAmount =
             invoices[w].settledAmount + (IF o.status = "SETTLED" THEN o.amount ELSE 0)
        /\ \A v \in Works \ {w} : invoices'[v] = invoices[v]
    BY <1>0, <2>1, ObservedPayment
  <2>3. UNCHANGED obligations
    BY <2>1 DEF ObserveEarning
  <2> QED
    BY <1>1, <1>2, <2>2, <2>3
<1> QED
  BY <1>3, <1>4, <1>5, <1>6, <1>7, <1>8, <1>9, MoneySteps DEF BeginSpend, ObserveSpend

\* Changing one reservation by no more than is spent from it.
LEMMA OneReservation ==
  ASSUME TypeOK, TypeOK', NEW w \in Works,
         \A v \in Works \ {w} : works'[v].held = works[v].held,
         settledSpend' + works'[w].held <= settledSpend + works[w].held
  PROVE  settledSpend' + Commitments' <= settledSpend + Commitments
<1>1. /\ Commitments' + works[w].held = Commitments + works'[w].held
      /\ Commitments \in Nat /\ Commitments' \in Nat
  BY CommitmentsUpdate
<1>2. PICK s0 \in Nat, s1 \in Nat : s0 = settledSpend /\ s1 = settledSpend'
  BY DEF TypeOK
<1>3. PICK h0 \in Nat, h1 \in Nat : h0 = works[w].held /\ h1 = works'[w].held
  BY DEF TypeOK, Work
<1>4. PICK c0 \in Nat, c1 \in Nat : c0 = Commitments /\ c1 = Commitments'
  BY <1>1
<1>5. c1 + h0 = c0 + h1 /\ s1 + h1 <= s0 + h0
  BY <1>1, <1>2, <1>3, <1>4
<1>6. s1 + c1 <= s0 + c0
  BY <1>5
<1> QED
  BY <1>2, <1>4, <1>6

LEMMA SameReservations ==
  ASSUME TypeOK, UNCHANGED settledSpend, \A v \in Works : works'[v].held = works[v].held
  PROVE  settledSpend' + Commitments' <= settledSpend + Commitments
<1>1. HeldTable' = HeldTable
  BY DEF HeldTable
<1>2. settledSpend \in Nat /\ Commitments \in Nat
  BY TreasuryType
<1> QED
  BY <1>1, <1>2 DEF Commitments

LEMMA CloseReserves ==
  ASSUME IInv, IInv', NEW w \in Works, NEW stage \in Stages,
         works' = [works EXCEPT ![w] = Closed(w, stage)], UNCHANGED settledSpend
  PROVE  settledSpend' + Commitments' <= settledSpend + Commitments
<1>1. TypeOK /\ TypeOK' /\ works \in [Works -> Work]
  BY DEF IInv, TypeOK
<1>2. Closed(w, stage).held = InFlight(w)
  BY ConfigAssumption, ClosedFacts
<1>3. /\ works'[w].held = InFlight(w)
      /\ \A v \in Works \ {w} : works'[v].held = works[v].held
  BY <1>1, <1>2
<1>4. InFlight(w) <= works[w].held /\ works[w].held \in Nat /\ works'[w].held \in Nat /\ settledSpend \in Nat
  BY <1>1 DEF IInv, HeldCoversInFlight, TypeOK, Work
<1>5. settledSpend' + works'[w].held <= settledSpend + works[w].held
  BY <1>3, <1>4
<1> QED
  BY <1>1, <1>3, <1>5, OneReservation

LEMMA ObserveSpendReserves ==
  ASSUME IInv, IInv', NEW a \in AttemptIds, NEW o \in Observations, ObserveSpend(a, o)
  PROVE  settledSpend' + Commitments' <= settledSpend + Commitments
<1>1. TypeOK /\ TypeOK' /\ works \in [Works -> Work] /\ o.amount \in Nat
  BY InputAssumption DEF IInv, TypeOK, Observations, InputAssumption
<1>2. PICK w \in Works : w = attempts[a].target
  BY DEF ObserveSpend, IInv, AttemptsHaveTargets
<1>3. /\ works'[w].held = works[w].held - Released(w, o)
      /\ \A v \in Works \ {w} : works'[v].held = works[v].held
      /\ settledSpend' = settledSpend + (IF o.status = "SETTLED" THEN o.amount ELSE 0)
  BY <1>1, <1>2 DEF ObserveSpend, Work
<1>4. works[w].held \in Nat /\ works'[w].held \in Nat /\ settledSpend \in Nat
  BY <1>1 DEF TypeOK, Work
<1>5. settledSpend' + works'[w].held <= settledSpend + works[w].held
  BY <1>1, <1>3, <1>4 DEF Released
<1> QED
  BY <1>1, <1>3, <1>5, OneReservation

\* No step but the acceptance of an assignment spends and reserves more together.
LEMMA ReservationsCover ==
  ASSUME IInv, IInv', [Apply]_vars, \A w \in Works : ~AcceptAssignment(w)
  PROVE  settledSpend' + Commitments' <= settledSpend + Commitments
<1>0. TypeOK /\ TypeOK' /\ works \in [Works -> Work] /\ \A v \in Works : works[v].stage \in Stages
  BY DEF IInv, TypeOK, Work
<1>1. CASE UNCHANGED <<works, settledSpend>>
  BY <1>0, <1>1, SameReservations
<1>2. CASE AgentStep
  <2>1. PICK w \in Works :
           \/ DiscoverWork(w) \/ ScopeAssignment(w) \/ AcceptAssignment(w) \/ BeginWork(w)
           \/ \E content \in Packets : DeliverArtifact(w, content)
           \/ IssueInvoice(w) \/ CancelWork(w) \/ CloseCommitment(w)
           \/ \E a \in AttemptIds, amount \in Amounts : BeginSpend(w, a, amount)
           \/ \E a \in AttemptIds : BeginRefund(w, a)
    BY <1>2 DEF AgentStep
  <2>2. CASE DiscoverWork(w) \/ ScopeAssignment(w) \/ BeginWork(w)
    BY <1>0, <2>2, SameReservations DEF DiscoverWork, ScopeAssignment, BeginWork, Work, totals
  <2>3. CASE \E content \in Packets : DeliverArtifact(w, content)
    BY <1>0, <2>3, SameReservations DEF DeliverArtifact, Work, totals
  <2>4. CASE CancelWork(w)
    BY <2>4, CloseReserves DEF CancelWork, Stages, totals
  <2>5. CASE CloseCommitment(w)
    BY <1>0, <2>5, CloseReserves DEF CloseCommitment, totals
  <2>6. CASE \/ IssueInvoice(w)
             \/ \E a \in AttemptIds, amount \in Amounts : BeginSpend(w, a, amount)
             \/ \E a \in AttemptIds : BeginRefund(w, a)
    BY <1>1, <2>6 DEF IssueInvoice, BeginSpend, BeginRefund, totals
  <2> QED
    BY <2>1, <2>2, <2>3, <2>4, <2>5, <2>6
<1>3. CASE CustomerStep
  <2>1. PICK c \in Customers, w \in Works :
           \/ \E artifact \in Packets, digest \in ScopeDigests, revision \in Revisions : AcceptDelivery(c, w, artifact, digest, revision)
           \/ RejectDelivery(c, w)
           \/ \E amount \in Amounts : RequestRefund(c, w, amount)
           \/ DisputeInvoice(c, w) \/ ResolveDispute(c, w)
    BY <1>3 DEF CustomerStep
  <2>2. CASE \E artifact \in Packets, digest \in ScopeDigests, revision \in Revisions : AcceptDelivery(c, w, artifact, digest, revision)
    BY <1>0, <2>2, SameReservations DEF AcceptDelivery, Work, totals
  <2>3. CASE RejectDelivery(c, w)
    BY <2>3, CloseReserves DEF RejectDelivery, Stages, totals
  <2> QED
    BY <1>1, <2>1, <2>2, <2>3 DEF RequestRefund, DisputeInvoice, ResolveDispute, totals
<1>4. CASE OperatorStep
  <2>1. CASE \E w \in Works : ExpireWork(w)
    BY <2>1, CloseReserves DEF ExpireWork, Stages, totals
  <2> QED
    BY <1>1, <1>4, <2>1 DEF OperatorStep, RevokeScope, AdvanceClock, totals
<1>5. CASE RailStep
  <2>1. CASE \E o \in Observations, a \in AttemptIds : ObserveSpend(a, o)
    BY <2>1, ObserveSpendReserves
  <2> QED
    BY <1>1, <1>5, <2>1 DEF RailStep, ObserveEarning, ObserveRefund, RepeatObservation, vars
<1> QED
  BY <1>1, <1>2, <1>3, <1>4, <1>5 DEF Apply, vars

\* An assignment is accepted only while what is available covers its ceiling.
LEMMA AcceptIsFunded ==
  ASSUME IInv, IInv', BindingInv, NetForm, NetForm', NEW w \in Works, AcceptAssignment(w)
  PROVE  Available' >= 0
<1>0. TypeOK /\ TypeOK' /\ works \in [Works -> Work]
  BY DEF IInv, TypeOK
<1>1. /\ works'[w].held = Listing[w].costCeiling
      /\ \A v \in Works \ {w} : works'[v].held = works[v].held
      /\ UNCHANGED <<invoices, obligations, settledSpend>>
      /\ Available >= Listing[w].costCeiling
  BY <1>0 DEF AcceptAssignment, Affordable, Work, totals
<1>2. works[w].held = 0 /\ Listing[w].costCeiling \in Nat
  BY ConfigAssumption DEF AcceptAssignment, IInv, CommitmentFollowsStage, ConfigAssumption, Listings
<1>3. /\ Commitments' + works[w].held = Commitments + works'[w].held
      /\ Commitments \in Nat /\ Commitments' \in Nat
  BY <1>0, <1>1, CommitmentsUpdate
<1>4. NetTable' = NetTable
  BY <1>1 DEF NetTable
<1>5. /\ Available = Opening - Reserve - settledSpend - Commitments + TotalOf(NetTable)
      /\ Available' = Opening - Reserve - settledSpend - Commitments' + TotalOf(NetTable)
  BY <1>1, <1>4 DEF NetForm
<1>6. settledSpend \in Nat /\ Opening \in Nat /\ Reserve \in Nat /\ TotalOf(NetTable) \in Nat
  BY <1>0, TreasuryType, NetType
<1>7. PICK c1 \in Nat : c1 = Commitments'
  BY <1>3
<1>8. c1 = Commitments + Listing[w].costCeiling
  BY <1>1, <1>2, <1>3, <1>7
<1>9. Opening - Reserve - settledSpend - c1 + TotalOf(NetTable) >= 0
  BY <1>1, <1>2, <1>3, <1>5, <1>6, <1>8
<1> QED
  BY <1>5, <1>7, <1>9

\* What is available is, at all times, the closed form: a disputed invoice contributes
\* nothing, an undisputed one what was settled on it less its refund, and a refund counts
\* once from the request on (engine.ts:92-98, 374).
THEOREM AvailableIsClosedForm == SpecApply => []AvailableClosedForm
<1>1. LInv => AvailableClosedForm
  BY ClosedForm
<1> QED
  BY <1>1, BooksAreKept, PTL

\* Only a customer's refund request or dispute takes what is available below zero: no
\* command of the agent or the operator and no answer of the rail does
\* (engine.ts:263, 330, 366, 396).
THEOREM ShortfallsComeFromCustomers == SpecApply => OnlyCustomersCauseShortfall
<1> DEFINE Caused == \E w \in Works :
                       \/ obligations[w].status = "ABSENT" /\ obligations'[w].status = "OPEN"
                       \/ ~invoices[w].dispute /\ invoices'[w].dispute
<1>1. LInv => NetForm
  BY ClosedForm
<1>2. ASSUME LInv, LInv', NetForm, NetForm', [Apply]_vars
      PROVE  Available >= 0 /\ Available' < 0 => Caused
  <2> SUFFICES ASSUME Available >= 0, ~Caused
               PROVE  ~(Available' < 0)
    OBVIOUS
  <2>0. IInv /\ IInv' /\ BindingInv /\ BindingInv' /\ TypeOK /\ TypeOK'
    BY <1>2 DEF LInv, IInv
  <2>1. Available \in Int /\ Available' \in Int
    <3>1. Available \in Int
      BY <2>0, TreasuryType DEF Available
    <3>2. HeldTable' \in [Works -> Nat] /\ NetTable' \in [Works -> Int]
      BY <2>0 DEF HeldTable, NetTable, TypeOK, Work, Invoice, Obligation
    <3>3. NetTable' \in [Works -> Nat]
      <4>1. ASSUME NEW w \in Works, ~invoices'[w].dispute
            PROVE  invoices'[w].settledAmount - obligations'[w].amount \in Nat
        <5>1. obligations'[w].amount \in Nat /\ invoices'[w].settledAmount \in Nat
          BY <2>0 DEF TypeOK, Invoice, Obligation
        <5> QED
          BY <2>0, <5>1 DEF BindingInv
      <4> QED
        BY <4>1 DEF NetTable
    <3>4. TotalOf(HeldTable') \in Nat /\ TotalOf(NetTable') \in Nat
      BY <3>2, <3>3, ConfigAssumption, TotalType DEF ConfigAssumption
    <3>5. settledSpend' \in Nat /\ Opening \in Nat /\ Reserve \in Nat
      BY <2>0, ConfigAssumption DEF TypeOK, ConfigAssumption
    <3> QED
      BY <1>2, <3>1, <3>4, <3>5 DEF NetForm, Commitments
  <2>2. CASE \E w \in Works : AcceptAssignment(w)
    <3>1. Available' >= 0
      BY <1>2, <2>0, <2>2, AcceptIsFunded
    <3> QED
      BY <2>1, <3>1
  <2>3. CASE \A w \in Works : ~AcceptAssignment(w)
    <3>1. settledSpend' + Commitments' <= settledSpend + Commitments
      BY <1>2, <2>0, <2>3, ReservationsCover
    <3>2. \A w \in Works : NetTable[w] <= NetTable'[w]
      BY <1>2, <2>0, NetGrows
    <3>3. Available' >= Available
      BY <1>2, <2>0, <3>1, <3>2, AvailableGrows
    <3> QED
      BY <2>1, <3>3
  <2> QED
    BY <2>2, <2>3
<1>3. LInv /\ LInv' /\ NetForm /\ NetForm' /\ [Apply]_vars
        => [Available >= 0 /\ Available' < 0 => Caused]_vars
  BY <1>2
<1> QED
  BY <1>1, <1>3, BooksAreKept, PTL DEF SpecApply, OnlyCustomersCauseShortfall

\* An observation never leaves less available than there was: whatever the rail reports
\* was set aside before (engine.ts:341-360, 402-423).
THEOREM NewsIsFunded == SpecApply => ObservationsAreFunded
<1>1. LInv => NetForm
  BY ClosedForm
<1>2. ASSUME LInv, LInv', NetForm, NetForm', [Apply]_vars, receipts' # receipts
      PROVE  Available' >= Available
  <2>0. /\ IInv /\ IInv' /\ BindingInv /\ BindingInv' /\ TypeOK /\ TypeOK'
        /\ invoices \in [Works -> Invoice] /\ obligations \in [Works -> Obligation]
    BY <1>2 DEF LInv, IInv, TypeOK
  <2>1. \E o \in Observations :
          \/ \E w \in Works, p \in PaymentIds : ObserveEarning(w, p, o)
          \/ \E a \in AttemptIds : ObserveSpend(a, o) \/ ObserveRefund(a, o)
    <3>1. CASE AgentStep
      BY <1>2, <3>1
         DEF AgentStep, DiscoverWork, ScopeAssignment, AcceptAssignment, BeginWork, DeliverArtifact,
             IssueInvoice, CancelWork, CloseCommitment, BeginSpend, BeginRefund
    <3>2. CASE CustomerStep
      BY <1>2, <3>2
         DEF CustomerStep, AcceptDelivery, RejectDelivery, RequestRefund, DisputeInvoice, ResolveDispute
    <3>3. CASE OperatorStep
      BY <1>2, <3>3 DEF OperatorStep, RevokeScope, AdvanceClock, ExpireWork
    <3>4. CASE RailStep
      BY <1>2, <3>4 DEF RailStep, RepeatObservation, vars
    <3> QED
      BY <1>2, <3>1, <3>2, <3>3, <3>4 DEF Apply, vars
  <2>2. \A w \in Works : ~AcceptAssignment(w)
    BY <1>2 DEF AcceptAssignment
  <2>3. \A w \in Works : /\ ~(obligations[w].status = "ABSENT" /\ obligations'[w].status = "OPEN")
                         /\ ~(~invoices[w].dispute /\ invoices'[w].dispute)
    <3>1. CASE \E o \in Observations, w \in Works, p \in PaymentIds : ObserveEarning(w, p, o)
      BY <2>0, <3>1 DEF ObserveEarning, Invoice
    <3>2. CASE \E o \in Observations, a \in AttemptIds : ObserveSpend(a, o)
      BY <3>2 DEF ObserveSpend
    <3>3. CASE \E o \in Observations, a \in AttemptIds : ObserveRefund(a, o)
      <4>1. PICK o \in Observations, a \in AttemptIds : ObserveRefund(a, o)
        BY <3>3
      <4>2. /\ UNCHANGED invoices
            /\ obligations[attempts[a].target].status = "IN_FLIGHT"
            /\ \A v \in Works \ {attempts[a].target} : obligations'[v] = obligations[v]
        BY <2>0, <4>1 DEF ObserveRefund
      <4> QED
        BY <4>2
    <3> QED
      BY <2>1, <3>1, <3>2, <3>3
  <2>4. settledSpend' + Commitments' <= settledSpend + Commitments
    BY <1>2, <2>0, <2>2, ReservationsCover
  <2>5. \A w \in Works : NetTable[w] <= NetTable'[w]
    BY <1>2, <2>0, <2>3, NetGrows
  <2> QED
    BY <1>2, <2>0, <2>4, <2>5, AvailableGrows
<1>3. LInv /\ LInv' /\ NetForm /\ NetForm' /\ [Apply]_vars
        => [receipts' # receipts => Available' >= Available]_vars
  BY <1>2
<1> QED
  BY <1>1, <1>3, BooksAreKept, PTL DEF SpecApply, ObservationsAreFunded
=============================================================================
