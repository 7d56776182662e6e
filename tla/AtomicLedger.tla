---------------------------- MODULE AtomicLedger ----------------------------
(***************************************************************************)
(* What `AtomicAuditStore' (prototypes/agent-work-durable/contracts.ts)    *)
(* promises of a ledger, whatever handles, processes, crashes and retries  *)
(* lie behind it: every call takes effect at most once, at one moment      *)
(* between its request and its answer; an answer is given only after the   *)
(* effect; a refusal means that there was and will be none; and only a     *)
(* call that ends in doubt may or may not have had its effect.  A ledger   *)
(* begins empty or as a copy of an earlier one, and a call is on one       *)
(* ledger for good, whatever becomes of the others.                        *)
(***************************************************************************)
EXTENDS Sequences

CONSTANTS
  Calls,         \* the calls that clients make
  Ledgers,       \* the ledgers there may come to be
  Requests,      \* what a call may ask for
  Effect(_, _),  \* ledger, request -> [bundle, outcome]
  None

VARIABLES
  log,      \* ledger that there is -> the chain of its records
  copies,   \* the chains that were put aside
  on,       \* call -> its ledger
  status,   \* call -> how far it has come
  request,  \* call -> what it asks for
  reply     \* call -> the outcome of its effect, None if it had none or nobody knows

vars == <<log, copies, on, status, request, reply>>

Init ==
  /\ log = <<>>
  /\ copies = {}
  /\ on = [c \in Calls |-> None]
  /\ status = [c \in Calls |-> "idle"]
  /\ request = [c \in Calls |-> None]
  /\ reply = [c \in Calls |-> None]

\* There is one ledger more, with these records.
Begins(l, bundle) ==
  /\ l \in Ledgers \ DOMAIN log
  /\ log' = [k \in DOMAIN log \cup {l} |-> IF k = l THEN bundle ELSE log[k]]
  /\ UNCHANGED <<copies, on, status, request, reply>>

Create(l) == Begins(l, <<>>)

Restore(l) == \E bundle \in copies : Begins(l, bundle)

Copy(l) ==
  /\ l \in DOMAIN log
  /\ copies' = copies \cup {log[l]}
  /\ UNCHANGED <<log, on, status, request, reply>>

Ask(c, l, r) ==
  /\ status[c] = "idle"
  /\ status' = [status EXCEPT ![c] = "pending"]
  /\ on' = [on EXCEPT ![c] = l]
  /\ request' = [request EXCEPT ![c] = r]
  /\ UNCHANGED <<log, copies, reply>>

Apply(c) ==
  /\ status[c] = "pending" /\ on[c] \in DOMAIN log
  /\ status' = [status EXCEPT ![c] = "applied"]
  /\ log' = [log EXCEPT ![on[c]] = Effect(log[on[c]], request[c]).bundle]
  /\ reply' = [reply EXCEPT ![c] = Effect(log[on[c]], request[c]).outcome]
  /\ UNCHANGED <<copies, on, request>>

Answer(c) ==
  /\ status[c] = "applied"
  /\ status' = [status EXCEPT ![c] = "answered"]
  /\ UNCHANGED <<log, copies, on, request, reply>>

Refuse(c) ==
  /\ status[c] = "pending"
  /\ status' = [status EXCEPT ![c] = "refused"]
  /\ UNCHANGED <<log, copies, on, request, reply>>

\* A process may take several calls with it.
Doubt ==
  \E lost \in SUBSET {c \in Calls : status[c] \in {"pending", "applied"}} :
    /\ status' = [c \in Calls |-> IF c \in lost THEN "unknown" ELSE status[c]]
    /\ reply' = [c \in Calls |-> IF c \in lost THEN None ELSE reply[c]]
    /\ UNCHANGED <<log, copies, on, request>>

Next ==
  \/ \E l \in Ledgers : Create(l) \/ Restore(l) \/ Copy(l)
  \/ \E c \in Calls :
       \/ \E l \in Ledgers, r \in Requests : Ask(c, l, r)
       \/ Apply(c) \/ Answer(c) \/ Refuse(c)
  \/ Doubt

Spec == Init /\ [][Next]_vars
=============================================================================
