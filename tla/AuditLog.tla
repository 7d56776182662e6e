------------------------------ MODULE AuditLog ------------------------------
(***************************************************************************)
(* The in-memory ledger `Simulation' of prototypes/agent-work/engine.ts    *)
(* under concurrent callers.  submit() copies the command before it queues *)
(* it; transact() reads the ledger, awaits the reducer and then writes.    *)
(* Only the promise chain `tail' keeps two of them from overlapping.  A    *)
(* caller has at most one submission outstanding here; several at once are *)
(* several callers.                                                        *)
(***************************************************************************)
EXTENDS AuditChain

CONSTANT Callers

VARIABLES
  sim,      \* the simulation: reducer state, records, remembered requests
  object,   \* caller -> the command object it submitted, which it may change
  queue,    \* submissions admitted to the promise chain: [caller, command]
  running,  \* caller -> the command whose transact() is in progress
  base,     \* caller -> what that transact() read of the simulation
  asked     \* history: caller -> its command at the time it was submitted

vars == <<sim, object, queue, running, base, asked>>

Admissions == [caller : Callers, command : Submissions]

Init ==
  /\ sim = Fresh
  /\ object = [c \in Callers |-> None]
  /\ queue = <<>>
  /\ running = [c \in Callers |-> None]
  /\ base = [c \in Callers |-> Fresh]
  /\ asked = [c \in Callers |-> None]
-----------------------------------------------------------------------------
Waiting(c) == running[c] # None \/ \E n \in DOMAIN queue : queue[n].caller = c

Submit(c, s) ==
  /\ ~Waiting(c)
  /\ object' = [object EXCEPT ![c] = s]
  /\ asked' = [asked EXCEPT ![c] = s]
  /\ queue' = Append(queue, [caller |-> c, command |-> s])
  /\ UNCHANGED <<sim, running, base>>

\* A caller may change its command object while it waits.
Mutate(c, s) ==
  /\ Waiting(c)
  /\ object' = [object EXCEPT ![c] = s]
  /\ UNCHANGED <<sim, queue, running, base, asked>>

\* Mutant: the command is read when its turn comes.
CommandByReference(admission) == object[admission.caller]

\* The command that was copied on submission.
CommandOf(admission) == admission.command

\* Mutant: a transact() starts as soon as it is submitted.
AlwaysFree == TRUE

\* The chain runs one transact() at a time.
Free == \A c \in Callers : running[c] = None

Start ==
  /\ queue # <<>>
  /\ Free
  /\ LET c == Head(queue).caller
     IN  /\ running' = [running EXCEPT ![c] = CommandOf(Head(queue))]
         /\ base' = [base EXCEPT ![c] = sim]
  /\ queue' = Tail(queue)
  /\ UNCHANGED <<sim, object, asked>>

\* The caller is answered and has no more use for its object.
Answered(c) ==
  /\ base' = [base EXCEPT ![c] = Fresh]
  /\ object' = [object EXCEPT ![c] = None]
  /\ asked' = [asked EXCEPT ![c] = None]
  /\ UNCHANGED queue

Finish(c) ==
  /\ running[c] # None
  /\ sim' = IF Silent(base[c], running[c]) THEN sim ELSE Recorded(sim, base[c], running[c])
  /\ running' = [running EXCEPT ![c] = None]
  /\ Answered(c)

\* Mutant: the chain goes on only from a transact() that succeeded.
StuckAfterFailure(c) == running[c]

\* `tail' swallows the failure, so that the next submission has its turn.
AfterFailure(c) == None

\* An unexpected error surfaces to the caller and leaves the ledger as it was.
Fail(c) ==
  /\ running[c] # None
  /\ ~Silent(base[c], running[c])
  /\ running' = [running EXCEPT ![c] = AfterFailure(c)]
  /\ UNCHANGED sim
  /\ Answered(c)

Next ==
  \/ \E c \in Callers, s \in Submissions : Submit(c, s) \/ Mutate(c, s)
  \/ Start
  \/ \E c \in Callers : Finish(c) \/ Fail(c)

\* The event loop runs the continuations of the chain.
Fairness == WF_vars(Start) /\ \A c \in Callers : WF_vars(Finish(c) \/ Fail(c))

Spec == Init /\ [][Next]_vars /\ Fairness
-----------------------------------------------------------------------------
\* Every variable keeps its shape, the chain never outgrows its capacity, and one
\* submission at a time is in progress (engine.ts:156-159, 166).
TypeOK ==
  /\ sim \in Simulations /\ Len(sim.records) <= Capacity
  /\ object \in [Callers -> Submissions \cup {None}]
  /\ queue \in Seq(Admissions)
  /\ running \in [Callers -> Submissions \cup {None}]
  /\ base \in [Callers -> Simulations]
  /\ asked \in [Callers -> Submissions \cup {None}]
  /\ \A c, d \in Callers : running[c] # None /\ running[d] # None => c = d

\* The records are enough to rebuild the ledger: submitting them again to a fresh one
\* gives the same records, the same reducer state and the same remembered requests
\* (engine.ts:161-193, 445-477).
ReplayReproduces == Restore(sim.records) = sim

\* Whoever submits, in whatever order and however often, a request id of a principal is
\* applied at most once (engine.ts:162-169, 191).
AppliedAtMostOnce == AppliedOnce(sim.records)

\* What was recorded for a request is what every later retry of it is told, also when the
\* chain is full and when others have tried to reuse the request id (engine.ts:164-166, 191).
RetriesAnswerTheRecord ==
  \A n \in DOMAIN sim.records :
    LET r == sim.records[n]
    IN  r.submission.key # None /\ r.outcome.code # "IDEMPOTENCY_CONFLICT"
          => Answer(sim, r.submission) = r.outcome

\* The ledger holds only commands as they were when they were submitted, whatever the
\* callers do to their objects afterwards (engine.ts:147-156).
RecordsWereAsked ==
  [][\A n \in DOMAIN sim'.records \ DOMAIN sim.records :
       \E c \in Callers : Waiting(c) /\ sim'.records[n].submission = asked[c]]_vars

\* Every submission gets its turn, also after one that failed (engine.ts:156-158).
EverySubmissionEnds == \A c \in Callers : Waiting(c) ~> ~Waiting(c)
=============================================================================
