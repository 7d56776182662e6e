----------------------------- MODULE AgentWork -----------------------------
(***************************************************************************)
(* The offline agent-work ledger: the reducer `Simulation.apply' of        *)
(* prototypes/agent-work/engine.ts, which turns the commands of an agent,  *)
(* its customers, an operator and a payment rail into a ledger of          *)
(* assignments, reservations, invoices, payments, refunds and spending.    *)
(*                                                                         *)
(* There is one action per command.  A command the engine refuses leaves   *)
(* the ledger as it was, so a refusal is a disabled action; what a refusal *)
(* leaves in the audit chain is the subject of module AuditLog.  Commands  *)
(* are queued on one promise chain, so a command is one atomic step.       *)
(*                                                                         *)
(* An invoice is called after its assignment (`invoice_<workId>') and so   *)
(* is a refund obligation after its invoice: all three tables are indexed  *)
(* by the assignment here.                                                 *)
(***************************************************************************)
EXTENDS Integers, FiniteSets, CreditSum

CONSTANTS
  Works,        \* ids of the assignments in the catalog
  Scopes,       \* ids of the configured scopes
  Customers,    \* customers whose ports may be used
  Revisions,    \* criteria revisions that the catalog and an acceptance may name
  Listing,      \* Works -> what the catalog says of an assignment
  Scope,        \* Scopes -> what the operator configured for a scope
  Opening, Reserve, SpendBudget,    \* configured amounts
  AttemptIds,   \* ids an agent may give its spend and refund attempts
  PaymentIds,   \* ids the rail may give payments
  ReceiptIds,   \* ids the rail may give its observations
  Amounts,      \* amounts that commands and observations may carry
  Sequences,    \* sequence numbers that observations may carry
  Ticks,        \* ticks the operator may set the clock to
  None          \* JavaScript's null, and an absent table entry

Listings == [scope : Scopes, reward : Nat \ {0}, costCeiling : Nat,
             deadlineTick : Nat, criteriaRevision : Revisions, packetFits : BOOLEAN]

ScopeConfigs == [customer : Customers, maxCost : Nat, maxReward : Nat \ {0}]

ASSUME ConfigAssumption ==
  /\ IsFiniteSet(Works) /\ IsFiniteSet(AttemptIds) /\ IsFiniteSet(PaymentIds) /\ IsFiniteSet(ReceiptIds)
  /\ Listing \in [Works -> Listings]
  /\ Scope \in [Scopes -> ScopeConfigs]
  /\ Opening \in Nat /\ Reserve \in Nat /\ SpendBudget \in Nat
  /\ Reserve <= Opening

ASSUME InputAssumption ==
  /\ Amounts \subseteq Nat \ {0}
  /\ Sequences \subseteq Nat \ {0}
  /\ Ticks \subseteq Nat

VARIABLES
  tick,             \* the operator's clock
  revokedScopes,    \* scopes the operator has revoked
  works,            \* assignment -> where it stands
  invoices,         \* assignment -> its invoice
  attempts,         \* attempt id -> a spend or refund handed to the rail
  obligations,      \* assignment -> the refund owed on its invoice
  payments,         \* payment id -> a payment observed by the rail
  receipts,         \* receipt id -> the observation it stands for
  settledEarnings, settledSpend, settledRefunds    \* running totals

vars == <<tick, revokedScopes, works, invoices, attempts, obligations,
          payments, receipts, settledEarnings, settledSpend, settledRefunds>>

totals == <<settledEarnings, settledSpend, settledRefunds>>
-----------------------------------------------------------------------------
(***************************************************************************)
(* The tables.  An entry that does not exist has the stage or status       *)
(* "ABSENT" and carries no credit.  Hashes are modelled as collision free: *)
(* a hash is the thing it is computed from.                                *)
(***************************************************************************)
\* The deliverable for an assignment, which embeds its id, and its hash.
Packet(w) == <<"packet", w>>
Packets == {Packet(w) : w \in Works}

\* canonicalHash({listing, scope}).
ScopeDigest(w) == <<"scope", w>>
ScopeDigests == {ScopeDigest(w) : w \in Works}

Stages == {"ABSENT", "DISCOVERED", "SCOPED", "AUTHORIZED", "EXECUTING",
           "DELIVERED", "ACCEPTED", "REJECTED", "CANCELLED", "EXPIRED"}
Unfinished == {"DISCOVERED", "SCOPED", "AUTHORIZED", "EXECUTING", "DELIVERED"}
Spending == {"AUTHORIZED", "EXECUTING", "DELIVERED", "ACCEPTED"}

Acceptances == [customer : Customers, artifact : Packets, scope : ScopeDigests,
                revision : Revisions]

Work == [stage : Stages, scopeDigest : ScopeDigests \cup {None},
         execution : Packets \cup {None}, artifact : Packets \cup {None},
         acceptance : Acceptances \cup {None},
         commitment : {"ABSENT", "OPEN", "CLOSED"}, held : Nat]

Invoice == [status : {"ABSENT", "ISSUED", "PARTIALLY_PAID", "SETTLED"},
            artifact : Packets \cup {None}, settledAmount : Nat, dispute : BOOLEAN]

Statuses == {"PENDING", "UNKNOWN", "SETTLED", "FAILED"}
Terminal == {"SETTLED", "FAILED"}

Attempt == [kind : {"SPEND", "REFUND"}, target : Works \cup {None}, amount : Nat,
            status : {"ABSENT", "REQUESTED"} \cup Statuses, sequence : Nat]

Obligation == [status : {"ABSENT", "OPEN", "IN_FLIGHT", "SETTLED"},
               amount : Nat, attempt : AttemptIds \cup {None}]

Payment == [invoice : Works \cup {None}, amount : Nat,
            status : {"ABSENT"} \cup Statuses, sequence : Nat]

Observations == [receipt : ReceiptIds, sequence : Sequences, amount : Amounts,
                 status : Statuses]

\* What `duplicate' and `remember' hash: the whole command but its request id.
Digest(type, subject, invoice, o) ==
  [type |-> type, subject |-> subject, invoice |-> invoice,
   sequence |-> o.sequence, amount |-> o.amount, status |-> o.status]

RailDigests == [type : {"observe_earning", "observe_spend", "observe_refund"},
                subject : AttemptIds \cup PaymentIds, invoice : Works \cup {None},
                sequence : Sequences, amount : Amounts, status : Statuses]

ASSUME NoneAssumption ==
  /\ None \notin Works \cup Customers \cup AttemptIds \cup PaymentIds
  /\ None \notin RailDigests

NoWork == [stage |-> "ABSENT", scopeDigest |-> None, execution |-> None,
           artifact |-> None, acceptance |-> None, commitment |-> "ABSENT", held |-> 0]
NoInvoice == [status |-> "ABSENT", artifact |-> None, settledAmount |-> 0, dispute |-> FALSE]
NoAttempt == [kind |-> "SPEND", target |-> None, amount |-> 0,
              status |-> "ABSENT", sequence |-> 0]
NoObligation == [status |-> "ABSENT", amount |-> 0, attempt |-> None]
NoPayment == [invoice |-> None, amount |-> 0, status |-> "ABSENT", sequence |-> 0]

Init ==
  /\ tick = 0
  /\ revokedScopes = {}
  /\ works = [w \in Works |-> NoWork]
  /\ invoices = [w \in Works |-> NoInvoice]
  /\ attempts = [a \in AttemptIds |-> NoAttempt]
  /\ obligations = [w \in Works |-> NoObligation]
  /\ payments = [p \in PaymentIds |-> NoPayment]
  /\ receipts = [r \in ReceiptIds |-> None]
  /\ settledEarnings = 0
  /\ settledSpend = 0
  /\ settledRefunds = 0
-----------------------------------------------------------------------------
(***************************************************************************)
(* treasury(): every balance is recomputed from the tables.                *)
(***************************************************************************)
HeldTable == [w \in Works |-> works[w].held]

Commitments == TotalOf(HeldTable)

OwedTable ==
  [w \in Works |-> IF obligations[w].status = "SETTLED" THEN 0 ELSE obligations[w].amount]

ObligationTotal == TotalOf(OwedTable)

\* Mutant: the dispute reserve ignores the refund already owed on the invoice.
DisputeTableDoubleCounting ==
  [w \in Works |-> IF invoices[w].dispute THEN invoices[w].settledAmount ELSE 0]

\* Math.max(0, settledAmount - obligation amount) over the disputed invoices.
DisputeTable ==
  [w \in Works |->
     IF invoices[w].dispute /\ invoices[w].settledAmount >= obligations[w].amount
     THEN invoices[w].settledAmount - obligations[w].amount ELSE 0]

DisputeReserves == TotalOf(DisputeTable)

Available ==
  Opening + settledEarnings - settledSpend - settledRefunds
    - Reserve - Commitments - ObligationTotal - DisputeReserves

DiscretionaryBudgetRemaining == SpendBudget - settledSpend - Commitments

\* Mutant: spending and refunding go on in a shortfall.
AlwaysFunded == TRUE

\* What spending and refunding ask of the treasury: no shortfall.
Funded == Available >= 0

\* The backstop transact() applies to the outcome of every command.
AccountingInvariant ==
  /\ Commitments >= 0
  /\ ObligationTotal >= 0
  /\ DiscretionaryBudgetRemaining >= 0
-----------------------------------------------------------------------------
(***************************************************************************)
(* The guards the commands share.                                          *)
(***************************************************************************)
Active(w) == Listing[w].scope \notin revokedScopes

NotExpired(w) == tick < Listing[w].deadlineTick

CustomerOf(w) == Scope[Listing[w].scope].customer

Pending(a) == attempts[a].status \in {"REQUESTED", "PENDING", "UNKNOWN"}

InFlightTable(w) ==
  [a \in AttemptIds |->
     IF attempts[a].kind = "SPEND" /\ attempts[a].target = w /\ Pending(a)
     THEN attempts[a].amount ELSE 0]
InFlight(w) == TotalOf(InFlightTable(w))

\* Mutant: a reservation still open to new spending counts what is in flight as free.
UnreservedIgnoringInFlight(w) == works[w].held

\* What a reservation still has for a new attempt.
Unreserved(w) == works[w].held - InFlight(w)

\* Mutant: closing forgets the attempts that the rail may still settle.
ClosedForgettingInFlight(w, stage) ==
  IF works[w].commitment = "ABSENT"
  THEN [works[w] EXCEPT !.stage = stage]
  ELSE [works[w] EXCEPT !.stage = stage, !.held = 0, !.commitment = "CLOSED"]

\* close(): what is not in flight is released, and nothing new can start.
Closed(w, stage) ==
  IF works[w].commitment = "ABSENT"
  THEN [works[w] EXCEPT !.stage = stage]
  ELSE [works[w] EXCEPT !.stage = stage, !.held = InFlight(w), !.commitment = "CLOSED"]

\* Mutant: the rail may report a second outcome.
OrderedPastTheEnd(current, o) == o.sequence = current.sequence + 1

\* An observation moves a payment or attempt that is not terminal to the next sequence number.
Ordered(current, o) ==
  /\ current.status \notin Terminal
  /\ o.sequence = current.sequence + 1

Duplicate(o, digest) == receipts[o.receipt] = digest

\* Mutant: receipts are remembered but never looked up.
AlwaysUnseen(o) == TRUE

Unseen(o) == receipts[o.receipt] = None

Remember(o, digest) == receipts' = [receipts EXCEPT ![o.receipt] = digest]
-----------------------------------------------------------------------------
(***************************************************************************)
(* The agent's commands.                                                   *)
(***************************************************************************)
Eligible(w) ==
  /\ Listing[w].reward <= Scope[Listing[w].scope].maxReward
  /\ Listing[w].costCeiling <= Scope[Listing[w].scope].maxCost
  /\ Listing[w].packetFits

DiscoverWork(w) ==
  /\ works[w].stage = "ABSENT"
  /\ Active(w)
  /\ Eligible(w)
  /\ NotExpired(w)
  /\ works' = [works EXCEPT ![w].stage = "DISCOVERED"]
  /\ UNCHANGED <<tick, revokedScopes, invoices, attempts, obligations, payments, receipts, totals>>

ScopeAssignment(w) ==
  /\ Active(w)
  /\ NotExpired(w)
  /\ works[w].stage = "DISCOVERED"
  /\ works' = [works EXCEPT ![w].stage = "SCOPED", ![w].scopeDigest = ScopeDigest(w)]
  /\ UNCHANGED <<tick, revokedScopes, invoices, attempts, obligations, payments, receipts, totals>>

\* Mutant: the reservation is checked against the credits but not against the budget.
AffordableIgnoringBudget(w) == Available >= Listing[w].costCeiling

\* Mutant: the reservation is checked against the budget but not against the credits.
AffordableIgnoringCredits(w) == DiscretionaryBudgetRemaining >= Listing[w].costCeiling

Affordable(w) ==
  /\ Available >= Listing[w].costCeiling
  /\ DiscretionaryBudgetRemaining >= Listing[w].costCeiling

AcceptAssignment(w) ==
  /\ Active(w)
  /\ NotExpired(w)
  /\ works[w].stage = "SCOPED"
  /\ Affordable(w)
  /\ works' = [works EXCEPT ![w].stage = "AUTHORIZED", ![w].commitment = "OPEN",
                            ![w].held = Listing[w].costCeiling]
  /\ UNCHANGED <<tick, revokedScopes, invoices, attempts, obligations, payments, receipts, totals>>

BeginWork(w) ==
  /\ Active(w)
  /\ NotExpired(w)
  /\ works[w].stage = "AUTHORIZED"
  /\ Listing[w].packetFits
  /\ works' = [works EXCEPT ![w].stage = "EXECUTING", ![w].execution = Packet(w)]
  /\ UNCHANGED <<tick, revokedScopes, invoices, attempts, obligations, payments, receipts, totals>>

DeliverArtifact(w, content) ==
  /\ Active(w)
  /\ NotExpired(w)
  /\ works[w].stage = "EXECUTING"
  /\ works[w].execution # None
  /\ content = works[w].execution
  /\ works' = [works EXCEPT ![w].stage = "DELIVERED", ![w].artifact = works[w].execution]
  /\ UNCHANGED <<tick, revokedScopes, invoices, attempts, obligations, payments, receipts, totals>>

IssueInvoice(w) ==
  /\ Active(w)
  /\ NotExpired(w)
  /\ works[w].stage = "ACCEPTED"
  /\ works[w].artifact # None
  /\ works[w].acceptance # None
  /\ invoices[w].status = "ABSENT"
  /\ invoices' = [invoices EXCEPT ![w] =
       [NoInvoice EXCEPT !.status = "ISSUED", !.artifact = works[w].artifact]]
  /\ UNCHANGED <<tick, revokedScopes, works, attempts, obligations, payments, receipts, totals>>

CancelWork(w) ==
  /\ works[w].stage \in Unfinished
  /\ works' = [works EXCEPT ![w] = Closed(w, "CANCELLED")]
  /\ UNCHANGED <<tick, revokedScopes, invoices, attempts, obligations, payments, receipts, totals>>

CloseCommitment(w) ==
  /\ works[w].commitment # "ABSENT"
  /\ works' = [works EXCEPT ![w] = Closed(w, works[w].stage)]
  /\ UNCHANGED <<tick, revokedScopes, invoices, attempts, obligations, payments, receipts, totals>>

BeginSpend(w, a, amount) ==
  /\ Active(w)
  /\ NotExpired(w)
  /\ works[w].stage \in Spending
  /\ ~invoices[w].dispute
  /\ works[w].commitment = "OPEN"
  /\ Funded
  /\ attempts[a].status = "ABSENT"
  /\ Unreserved(w) >= amount
  /\ attempts' = [attempts EXCEPT ![a] =
       [kind |-> "SPEND", target |-> w, amount |-> amount, status |-> "REQUESTED", sequence |-> 0]]
  /\ UNCHANGED <<tick, revokedScopes, works, invoices, obligations, payments, receipts, totals>>

BeginRefund(w, a) ==
  /\ obligations[w].status = "OPEN"
  /\ Funded
  /\ attempts[a].status = "ABSENT"
  /\ attempts' = [attempts EXCEPT ![a] =
       [kind |-> "REFUND", target |-> w, amount |-> obligations[w].amount,
        status |-> "REQUESTED", sequence |-> 0]]
  /\ obligations' = [obligations EXCEPT ![w].status = "IN_FLIGHT", ![w].attempt = a]
  /\ UNCHANGED <<tick, revokedScopes, works, invoices, payments, receipts, totals>>
-----------------------------------------------------------------------------
(***************************************************************************)
(* The customer's commands.                                                *)
(***************************************************************************)
\* Mutant: the customer may accept under other criteria than those of the assignment.
DeliveryBoundByHashes(w, artifact, digest, revision) ==
  artifact = works[w].artifact /\ digest = works[w].scopeDigest

\* The acceptance names the delivered artifact, the scope that was agreed, and the
\* revision of the criteria.
DeliveryBound(w, artifact, digest, revision) ==
  /\ artifact = works[w].artifact
  /\ digest = works[w].scopeDigest
  /\ revision = Listing[w].criteriaRevision

AcceptDelivery(c, w, artifact, digest, revision) ==
  /\ works[w].stage = "DELIVERED"
  /\ CustomerOf(w) = c
  /\ works[w].artifact # None
  /\ NotExpired(w)
  /\ DeliveryBound(w, artifact, digest, revision)
  /\ works' = [works EXCEPT
       ![w].stage = "ACCEPTED",
       ![w].acceptance = [customer |-> c, artifact |-> artifact, scope |-> digest, revision |-> revision]]
  /\ UNCHANGED <<tick, revokedScopes, invoices, attempts, obligations, payments, receipts, totals>>

RejectDelivery(c, w) ==
  /\ CustomerOf(w) = c
  /\ works[w].stage = "DELIVERED"
  /\ works' = [works EXCEPT ![w] = Closed(w, "REJECTED")]
  /\ UNCHANGED <<tick, revokedScopes, invoices, attempts, obligations, payments, receipts, totals>>

RefundLimit(w, amount) == amount <= invoices[w].settledAmount

RequestRefund(c, w, amount) ==
  /\ invoices[w].status # "ABSENT"
  /\ CustomerOf(w) = c
  /\ invoices[w].settledAmount > 0
  /\ RefundLimit(w, amount)
  /\ obligations[w].status = "ABSENT"
  /\ obligations' = [obligations EXCEPT ![w] =
       [status |-> "OPEN", amount |-> amount, attempt |-> None]]
  /\ UNCHANGED <<tick, revokedScopes, works, invoices, attempts, payments, receipts, totals>>

DisputeInvoice(c, w) ==
  /\ invoices[w].status # "ABSENT"
  /\ CustomerOf(w) = c
  /\ ~invoices[w].dispute
  /\ invoices' = [invoices EXCEPT ![w].dispute = TRUE]
  /\ UNCHANGED <<tick, revokedScopes, works, attempts, obligations, payments, receipts, totals>>

ResolveDispute(c, w) ==
  /\ invoices[w].status # "ABSENT"
  /\ CustomerOf(w) = c
  /\ invoices[w].dispute
  /\ invoices' = [invoices EXCEPT ![w].dispute = FALSE]
  /\ UNCHANGED <<tick, revokedScopes, works, attempts, obligations, payments, receipts, totals>>
-----------------------------------------------------------------------------
(***************************************************************************)
(* The operator's commands.                                                *)
(***************************************************************************)
RevokeScope(s) ==
  /\ revokedScopes' = revokedScopes \cup {s}
  /\ UNCHANGED <<tick, works, invoices, attempts, obligations, payments, receipts, totals>>

AdvanceClock(t) ==
  /\ t > tick
  /\ tick' = t
  /\ UNCHANGED <<revokedScopes, works, invoices, attempts, obligations, payments, receipts, totals>>

ExpireWork(w) ==
  /\ tick >= Listing[w].deadlineTick
  /\ works[w].stage \in Unfinished
  /\ works' = [works EXCEPT ![w] = Closed(w, "EXPIRED")]
  /\ UNCHANGED <<tick, revokedScopes, invoices, attempts, obligations, payments, receipts, totals>>
-----------------------------------------------------------------------------
(***************************************************************************)
(* The rail's observations.  A receipt seen before is acknowledged again   *)
(* without effect; one that reuses a receipt id for something else is      *)
(* refused.                                                                *)
(***************************************************************************)
\* Mutant: only settled payments take up room on the invoice.
SettledTable(w) ==
  [p \in PaymentIds |->
     IF payments[p].invoice = w /\ payments[p].status = "SETTLED" THEN payments[p].amount ELSE 0]

PaidTable(w) ==
  [p \in PaymentIds |->
     IF payments[p].invoice = w /\ payments[p].status # "FAILED" THEN payments[p].amount ELSE 0]

InvoiceStatus(settled, amount) ==
  IF settled = amount THEN "SETTLED" ELSE IF settled > 0 THEN "PARTIALLY_PAID" ELSE "ISSUED"

\* The payment an observation is about: the recorded one, or a new one if the invoice has room.
PaymentAdmitted(w, p, o) ==
  \/ /\ payments[p].status # "ABSENT"
     /\ payments[p].invoice = w
     /\ payments[p].amount = o.amount
     /\ Ordered(payments[p], o)
  \/ /\ payments[p].status = "ABSENT"
     /\ TotalOf(PaidTable(w)) + o.amount <= Listing[w].reward
     /\ o.sequence = 1

ObserveEarning(w, p, o) ==
  LET digest == Digest("observe_earning", p, w, o)
      earned == IF o.status = "SETTLED" THEN o.amount ELSE 0
      settled == invoices[w].settledAmount + earned
  IN  /\ Unseen(o)
      /\ invoices[w].status # "ABSENT"
      /\ PaymentAdmitted(w, p, o)
      /\ payments' = [payments EXCEPT ![p] =
           [invoice |-> w, amount |-> o.amount, status |-> o.status, sequence |-> o.sequence]]
      /\ settledEarnings' = settledEarnings + earned
      /\ invoices' = [invoices EXCEPT
           ![w].settledAmount = settled,
           ![w].status = InvoiceStatus(settled, Listing[w].reward)]
      /\ Remember(o, digest)
      /\ UNCHANGED <<tick, revokedScopes, works, attempts, obligations, settledSpend, settledRefunds>>

\* Mutant: spending is counted but its reservation is kept.
ReleasedOnFailure(w, o) ==
  IF o.status = "FAILED" /\ works[w].commitment = "CLOSED" THEN o.amount ELSE 0

\* Mutant: an attempt that fails after closing leaves its credits reserved.
ReleasedOnSettlement(w, o) == IF o.status = "SETTLED" THEN o.amount ELSE 0

\* What an outcome takes off the reservation: a failed attempt's credits stay available
\* to the assignment while it is open.
Released(w, o) ==
  IF o.status = "SETTLED" \/ (o.status = "FAILED" /\ works[w].commitment = "CLOSED")
  THEN o.amount ELSE 0

ObserveSpend(a, o) ==
  LET w == attempts[a].target
      spent == IF o.status = "SETTLED" THEN o.amount ELSE 0
  IN  /\ Unseen(o)
      /\ attempts[a].status # "ABSENT"
      /\ attempts[a].kind = "SPEND"
      /\ attempts[a].amount = o.amount
      /\ Ordered(attempts[a], o)
      /\ works[w].commitment # "ABSENT"
      /\ attempts' = [attempts EXCEPT ![a].sequence = o.sequence, ![a].status = o.status]
      /\ works' = [works EXCEPT ![w].held = @ - Released(w, o)]
      /\ settledSpend' = settledSpend + spent
      /\ Remember(o, Digest("observe_spend", a, None, o))
      /\ UNCHANGED <<tick, revokedScopes, invoices, obligations, payments, settledEarnings, settledRefunds>>

\* Mutant: a failed refund leaves its obligation in flight.
AfterRefundIgnoringFailure(obligation, o) ==
  IF o.status = "SETTLED" THEN [obligation EXCEPT !.status = "SETTLED"] ELSE obligation

\* What the outcome of its attempt makes of an obligation: a failed one is owed again.
AfterRefund(obligation, o) ==
  CASE o.status = "SETTLED" -> [obligation EXCEPT !.status = "SETTLED"]
    [] o.status = "FAILED" -> [obligation EXCEPT !.status = "OPEN", !.attempt = None]
    [] OTHER -> obligation

ObserveRefund(a, o) ==
  LET w == attempts[a].target
      refunded == IF o.status = "SETTLED" THEN o.amount ELSE 0
  IN  /\ Unseen(o)
      /\ attempts[a].status # "ABSENT"
      /\ attempts[a].kind = "REFUND"
      /\ attempts[a].amount = o.amount
      /\ Ordered(attempts[a], o)
      /\ obligations[w].status = "IN_FLIGHT"
      /\ obligations[w].attempt = a
      /\ attempts' = [attempts EXCEPT ![a].sequence = o.sequence, ![a].status = o.status]
      /\ obligations' = [obligations EXCEPT ![w] = AfterRefund(@, o)]
      /\ settledRefunds' = settledRefunds + refunded
      /\ Remember(o, Digest("observe_refund", a, None, o))
      /\ UNCHANGED <<tick, revokedScopes, works, invoices, payments, settledEarnings, settledSpend>>

\* The rail repeats itself: the command is applied and nothing changes.
RepeatObservation(o) ==
  /\ \/ \E w \in Works, p \in PaymentIds : Duplicate(o, Digest("observe_earning", p, w, o))
     \/ \E a \in AttemptIds : Duplicate(o, Digest("observe_spend", a, None, o))
     \/ \E a \in AttemptIds : Duplicate(o, Digest("observe_refund", a, None, o))
  /\ UNCHANGED vars
-----------------------------------------------------------------------------
AgentStep ==
  \E w \in Works :
    \/ DiscoverWork(w) \/ ScopeAssignment(w) \/ AcceptAssignment(w) \/ BeginWork(w)
    \/ \E content \in Packets : DeliverArtifact(w, content)
    \/ IssueInvoice(w) \/ CancelWork(w) \/ CloseCommitment(w)
    \/ \E a \in AttemptIds, amount \in Amounts : BeginSpend(w, a, amount)
    \/ \E a \in AttemptIds : BeginRefund(w, a)

CustomerStep ==
  \E c \in Customers, w \in Works :
    \/ \E artifact \in Packets, digest \in ScopeDigests, revision \in Revisions :
         AcceptDelivery(c, w, artifact, digest, revision)
    \/ RejectDelivery(c, w)
    \/ \E amount \in Amounts : RequestRefund(c, w, amount)
    \/ DisputeInvoice(c, w) \/ ResolveDispute(c, w)

OperatorStep ==
  \/ \E s \in Scopes : RevokeScope(s)
  \/ \E t \in Ticks : AdvanceClock(t)
  \/ \E w \in Works : ExpireWork(w)

RailStep ==
  \E o \in Observations :
    \/ \E w \in Works, p \in PaymentIds : ObserveEarning(w, p, o)
    \/ \E a \in AttemptIds : ObserveSpend(a, o) \/ ObserveRefund(a, o)
    \/ RepeatObservation(o)

\* apply(): one command, before transact() looks at the balances it leaves.
Apply == AgentStep \/ CustomerStep \/ OperatorStep \/ RailStep

\* transact(): the command takes effect only if the balances pass the backstop.
Next == Apply /\ AccountingInvariant'

Spec == Init /\ [][Next]_vars

\* The reducer on its own, without the backstop.
SpecApply == Init /\ [][Apply]_vars
-----------------------------------------------------------------------------
(***************************************************************************)
(* Tables of what the rail has and has not settled, for the properties.    *)
(***************************************************************************)
AttemptTable(kind, targets, statuses) ==
  [a \in AttemptIds |->
     IF /\ attempts[a].kind = kind
        /\ attempts[a].target \in targets
        /\ attempts[a].status \in statuses
     THEN attempts[a].amount ELSE 0]

PaymentTable(targets, statuses) ==
  [p \in PaymentIds |->
     IF payments[p].invoice \in targets /\ payments[p].status \in statuses
     THEN payments[p].amount ELSE 0]

Unsettled == {"REQUESTED", "PENDING", "UNKNOWN"}

\* Every table keeps its shape, and no balance that is kept goes below zero.
TypeOK ==
  /\ tick \in Nat
  /\ revokedScopes \subseteq Scopes
  /\ works \in [Works -> Work]
  /\ invoices \in [Works -> Invoice]
  /\ attempts \in [AttemptIds -> Attempt]
  /\ obligations \in [Works -> Obligation]
  /\ payments \in [PaymentIds -> Payment]
  /\ settledEarnings \in Nat /\ settledSpend \in Nat /\ settledRefunds \in Nat

\* The reservation of an assignment always covers the spending the rail may still
\* settle; once it is closed it holds exactly that and nothing more (engine.ts:214-219,
\* 332, 413-414: close, begin_spend and observe_spend each keep their share of it).
HeldCoversInFlight ==
  \A w \in Works :
    /\ InFlight(w) <= works[w].held
    /\ works[w].commitment # "OPEN" => works[w].held = InFlight(w)

\* Whatever the rail answers and in whatever order, what an assignment has spent and
\* has in flight stays within its cost ceiling (engine.ts:259-267, 324-335, 402-414).
SpendWithinCeiling ==
  \A w \in Works :
    TotalOf(AttemptTable("SPEND", {w}, Unsettled \cup {"SETTLED"})) <= Listing[w].costCeiling

\* The running totals are the sums of what the rail settled: nothing settled is lost
\* and nothing is counted twice (engine.ts:356, 413, 418).
TotalsMatchRail ==
  /\ settledSpend = TotalOf(AttemptTable("SPEND", Works, {"SETTLED"}))
  /\ settledRefunds = TotalOf(AttemptTable("REFUND", Works, {"SETTLED"}))
  /\ settledEarnings = TotalOf(PaymentTable(Works, {"SETTLED"}))
  /\ \A w \in Works : invoices[w].settledAmount = TotalOf(PaymentTable({w}, {"SETTLED"}))

\* The reserve is never touched: even if the rail settles everything it has been
\* handed, the credits left are at least the reserve, shortfall or not
\* (engine.ts:330, 396: spends and refunds start only while available >= 0).
ReserveUntouched ==
  Opening + settledEarnings - settledSpend - settledRefunds
    - TotalOf(AttemptTable("SPEND", Works, Unsettled))
    - TotalOf(AttemptTable("REFUND", Works, Unsettled)) >= Reserve

\* An invoice is never paid beyond its amount, counting payments still on their way
\* and freeing the room of failed ones (engine.ts:346-347).
NeverOverpaid ==
  \A w \in Works : TotalOf(PaymentTable({w}, {"PENDING", "UNKNOWN", "SETTLED"})) <= Listing[w].reward

\* An obligation is in flight exactly while one unsettled attempt of its amount is
\* bound to it, so that the refusal OBLIGATION_BINDING can never be met (engine.ts:417).
RefundBinding ==
  /\ \A a \in AttemptIds :
       attempts[a].kind = "REFUND" /\ attempts[a].status \in Unsettled
         => LET o == obligations[attempts[a].target]
            IN  o.status = "IN_FLIGHT" /\ o.attempt = a /\ o.amount = attempts[a].amount
  /\ \A w \in Works :
       obligations[w].status = "IN_FLIGHT"
         => LET a == attempts[obligations[w].attempt]
            IN  a.kind = "REFUND" /\ a.target = w /\ a.status \in Unsettled

\* The closed form of `available': a disputed invoice contributes nothing, an
\* undisputed one what was settled on it less its refund, and a refund counts once
\* from the request on, whatever becomes of it (engine.ts:92-98, 374).
AvailableClosedForm ==
  LET kept == [w \in Works |-> IF invoices[w].dispute THEN 0 ELSE invoices[w].settledAmount]
      owed == [w \in Works |-> IF invoices[w].dispute THEN 0 ELSE obligations[w].amount]
  IN  Available = Opening - Reserve - settledSpend - Commitments + TotalOf(kept) - TotalOf(owed)

\* An invoice exists only for a delivery that its own customer accepted, by the hash of
\* the artifact made for that assignment, under the scope it was agreed in and by the
\* revision of the criteria that it was offered under
\* (engine.ts:279-297, 316-323).
InvoiceBindsAcceptedDelivery ==
  \A w \in Works :
    invoices[w].status # "ABSENT" =>
      /\ works[w].stage = "ACCEPTED"
      /\ invoices[w].artifact = Packet(w)
      /\ works[w].acceptance =
           [customer |-> CustomerOf(w), artifact |-> Packet(w), scope |-> ScopeDigest(w),
            revision |-> Listing[w].criteriaRevision]

\* The remembered receipts are the history of every payment and attempt: one receipt
\* per sequence number reached, the last one with the present status, and no terminal
\* status before the last (engine.ts:220-234, 354-358, 408-421).
ReceiptsAreHistory ==
  LET History(id, current, types) ==
        LET about == {r \in ReceiptIds :
                        receipts[r] # None /\ receipts[r].subject = id /\ receipts[r].type \in types}
        IN  /\ Cardinality(about) = current.sequence
            /\ \A r \in about :
                 /\ receipts[r].sequence \in 1 .. current.sequence
                 /\ receipts[r].amount = current.amount
                 /\ IF receipts[r].sequence = current.sequence
                    THEN receipts[r].status = current.status
                    ELSE receipts[r].status \notin Terminal
            /\ \A r1, r2 \in about : receipts[r1].sequence = receipts[r2].sequence => r1 = r2
  IN  /\ \A a \in AttemptIds : History(a, attempts[a], {"observe_spend", "observe_refund"})
      /\ \A p \in PaymentIds : History(p, payments[p], {"observe_earning"})

\* Only a customer can bring about a shortfall, by asking for a refund or opening a
\* dispute: no step of the agent, the operator or the rail takes what is available
\* below zero (engine.ts:263, 330, 366, 396).
OnlyCustomersCauseShortfall ==
  [][Available >= 0 /\ Available' < 0 =>
       \E w \in Works :
         \/ obligations[w].status = "ABSENT" /\ obligations'[w].status = "OPEN"
         \/ ~invoices[w].dispute /\ invoices'[w].dispute]_vars

\* News from the rail never costs anything that was not set aside before: an
\* observation leaves what is available at least as large (engine.ts:341-360, 402-423).
ObservationsAreFunded ==
  [][receipts' # receipts => Available' >= Available]_vars
=============================================================================
