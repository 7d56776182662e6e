----------------------------- MODULE AuditChain -----------------------------
(***************************************************************************)
(* The audit chain of the agent-work ledger as pure operators: how         *)
(* `Simulation.transact' of prototypes/agent-work/engine.ts answers a      *)
(* submission and what it records, and how a ledger is rebuilt by          *)
(* submitting the recorded commands again (`replay', `restore').           *)
(*                                                                         *)
(* The reducer itself is left open: it is deterministic, so its state is   *)
(* the sequence of what it has applied, and `Accepts' says whether it      *)
(* applies one more command.  Module AgentWork models the reducer.         *)
(* Hashes are modelled as collision free: the hash of a record pins the    *)
(* record and all those before it, so the head of a chain is the chain.    *)
(***************************************************************************)
EXTENDS Absence, Integers, Sequences, SequencesExt

CONSTANTS
  Principals,    \* actors whose ports have been issued
  Kind,          \* Principals -> "agent", "customer", "operator" or "fake-rail"
  Keys,          \* well-formed request ids
  Bodies,        \* what a command can ask for, its request id and revision aside
  Lane,          \* Bodies -> the kind of principal it belongs to, None if malformed
  Accepts(_, _), \* whether the reducer applies an entry to a state
  Submissions,   \* the submissions that are made
  Capacity       \* MAX_RECORDS

\* How a submission can be recorded, and what is remembered of it.
Verdicts == {"APPLIED", "IDEMPOTENCY_CONFLICT", "MALFORMED", "ROLE_DENIED", "STALE_REVISION", "REFUSED"}
Outcomes == [code : Verdicts, revision : Nat]
Digests == [key : Keys \cup {None}, body : Bodies, expected : Nat \cup {None}]
Memory == [digest : Digests, outcome : Outcomes]

ASSUME ChainAssumption ==
  /\ Capacity \in Nat
  /\ None \notin Keys /\ None \notin Submissions /\ None \notin Memory
  /\ \A s \in Submissions :
       /\ s.principal \in Principals /\ s.body \in Bodies
       /\ s.key \in Keys \cup {None} /\ s.expected \in Nat \cup {None}

\* What is hashed to tell a retry from a conflict: the whole command.
Digest(s) == [key |-> s.key, body |-> s.body, expected |-> s.expected]

\* requestKey: request ids are private to a principal.
Slot(s) == <<s.principal, s.key>>

Entry(s) == [principal |-> s.principal, body |-> s.body]

\* A simulation: the reducer's state, the records and the remembered requests.
Entries == [principal : Principals, body : Bodies]
Records == [submission : Submissions, outcome : Outcomes, state : Seq(Entries)]
Simulations == [applied : Seq(Entries), records : Seq(Records),
                requests : [Principals \X Keys -> Memory \cup {None}]]

Fresh == [applied |-> <<>>, records |-> <<>>,
          requests |-> [slot \in Principals \X Keys |-> None]]

Revision(sim) == Len(sim.applied)
-----------------------------------------------------------------------------
Previous(sim, s) == IF s.key = None THEN None ELSE sim.requests[Slot(s)]

\* An exact retry is answered from memory, even when the chain is full.
Replays(sim, s) == Previous(sim, s) # None /\ Previous(sim, s).digest = Digest(s)

\* Mutant: the chain takes one record more.
FullOneLate(sim) == Len(sim.records) > Capacity

Full(sim) == Len(sim.records) >= Capacity

\* The checks a submission goes through, in their order: the first that fails decides.
Verdict(sim, s) ==
  IF Previous(sim, s) # None THEN "IDEMPOTENCY_CONFLICT"
  ELSE IF Lane[s.body] = None \/ s.key = None THEN "MALFORMED"
  ELSE IF Lane[s.body] # Kind[s.principal] THEN "ROLE_DENIED"
  ELSE IF s.expected \notin {None, Revision(sim)} THEN "STALE_REVISION"
  ELSE IF ~Accepts(sim.applied, Entry(s)) THEN "REFUSED"
  ELSE "APPLIED"

\* Mutant: a conflicting submission takes the place of the first one.
RemembersLatest(sim, s) == s.key # None

\* Mutant: nothing is remembered.
RemembersNothing(sim, s) == FALSE

\* Only the first submission under a request id is remembered.
Remembers(sim, s) == s.key # None /\ Previous(sim, s) = None

(***************************************************************************)
(* The end of transact(): `base' is the simulation it read at its start,   *)
(* `sim' the one it writes to.  On the promise chain the two are the same. *)
(***************************************************************************)
Recorded(sim, base, s) ==
  LET code == Verdict(base, s)
      applied == IF code = "APPLIED" THEN Append(base.applied, Entry(s)) ELSE sim.applied
      outcome == [code |-> code, revision |-> Len(applied)]
  IN  [applied |-> applied,
       records |-> Append(sim.records, [submission |-> s, outcome |-> outcome, state |-> applied]),
       requests |-> IF Remembers(base, s)
                    THEN [sim.requests EXCEPT ![Slot(s)] = [digest |-> Digest(s), outcome |-> outcome]]
                    ELSE sim.requests]

\* A submission that is replayed or finds the chain full leaves no record.
Silent(sim, s) == Replays(sim, s) \/ Full(sim)

Transacted(sim, s) == IF Silent(sim, s) THEN sim ELSE Recorded(sim, sim, s)

\* The answer, the replayed flag aside.
Answer(sim, s) ==
  IF Replays(sim, s) THEN Previous(sim, s).outcome
  ELSE IF Full(sim) THEN [code |-> "AUDIT_CAPACITY", revision |-> Revision(sim)]
  ELSE Last(Recorded(sim, sim, s).records).outcome

\* restore(): the recorded commands are submitted again to a fresh simulation.
Restore(records) ==
  LET after[n \in 0 .. Len(records)] ==
        IF n = 0 THEN Fresh ELSE Transacted(after[n - 1], records[n].submission)
  IN  after[Len(records)]

\* replay(): every record must come out again exactly as it is.
ReplayMatches(records) == Restore(records).records = records

\* No request id of a principal stands for two commands that were applied.
AppliedOnce(records) ==
  \A m, n \in DOMAIN records :
    /\ Slot(records[m].submission) = Slot(records[n].submission)
    /\ records[m].outcome.code = "APPLIED"
    /\ records[n].outcome.code = "APPLIED"
    => m = n
=============================================================================
