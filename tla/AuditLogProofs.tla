--------------------------- MODULE AuditLogProofs ---------------------------
(***************************************************************************)
(* Proofs about AuditLog, for any number of callers, any submissions and   *)
(* any deterministic reducer.                                              *)
(***************************************************************************)
EXTENDS AuditLog, AuditChainProofs

\* The promise chain: the transact() in progress works on the present ledger and on the
\* command as it was submitted, and nobody waits twice.
ChainInv ==
  /\ \A c \in Callers : running[c] # None => base[c] = sim /\ running[c] = asked[c]
  /\ \A n \in DOMAIN queue :
       /\ queue[n].command = asked[queue[n].caller]
       /\ running[queue[n].caller] = None
       /\ \A m \in DOMAIN queue : queue[m].caller = queue[n].caller => m = n

\* The inductive invariant.
AInv == TypeOK /\ ChainInv /\ Sound(sim)

-----------------------------------------------------------------------------
(***************************************************************************)
(* The steps.                                                              *)
(***************************************************************************)
LEMMA InitAInv ==
  ASSUME Init
  PROVE  AInv
<1>1. TypeOK
  <2>1. sim.records = <<>>
    BY DEF Init, Fresh
  <2> QED
    BY <2>1, FreshIsASimulation, ChainAssumption DEF Init, TypeOK
<1>2. sim.records = <<>> /\ queue = <<>> /\ DOMAIN sim.records = {} /\ DOMAIN queue = {}
  BY DEF Init, Fresh
<1>3. \A c \in Callers : running[c] = None
  BY DEF Init
<1> QED
  BY <1>1, <1>2, <1>3, FreshIsSound DEF AInv, ChainInv, Init

LEMMA QueuedCallers ==
  ASSUME AInv
  PROVE  \A n \in DOMAIN queue : queue[n].caller \in Callers
<1>1. \A n \in DOMAIN queue : queue[n] \in Admissions
  BY DEF AInv, TypeOK
<1> QED
  BY <1>1 DEF Admissions

LEMMA SubmitStep ==
  ASSUME AInv, NEW c \in Callers, NEW s \in Submissions, Submit(c, s)
  PROVE  AInv'
<1>1. /\ ~Waiting(c) /\ asked' = [asked EXCEPT ![c] = s]
      /\ queue' = Append(queue, [caller |-> c, command |-> s])
      /\ UNCHANGED <<sim, running, base>> /\ object' = [object EXCEPT ![c] = s]
  BY DEF Submit
<1> DEFINE admission == [caller |-> c, command |-> s]
<1>2. /\ admission \in Admissions /\ admission.caller = c /\ admission.command = s
  BY DEF Admissions
<1>3. queue \in Seq(Admissions) /\ queue' = Append(queue, admission)
  BY <1>1 DEF AInv, TypeOK
<1> HIDE DEF admission
<1>4. /\ queue' \in Seq(Admissions) /\ DOMAIN queue = 1 .. Len(queue)
      /\ DOMAIN queue' = 1 .. Len(queue) + 1 /\ Len(queue) \in Nat
      /\ \A n \in DOMAIN queue : queue'[n] = queue[n]
      /\ queue'[Len(queue) + 1] = admission
  BY <1>2, <1>3
<1>5. TypeOK'
  BY <1>1, <1>4 DEF AInv, TypeOK
<1>6. running[c] = None /\ \A n \in DOMAIN queue : queue[n].caller # c /\ queue[n].caller \in Callers
  BY <1>1, QueuedCallers DEF Waiting
<1>7. asked'[c] = s /\ \A d \in Callers \ {c} : asked'[d] = asked[d]
  BY <1>1 DEF AInv, TypeOK
<1>8. \A n \in DOMAIN queue' : n \in DOMAIN queue \/ n = Len(queue) + 1
  BY <1>4
<1>9. ChainInv'
  <2>1. \A d \in Callers : running'[d] # None => base'[d] = sim' /\ running'[d] = asked'[d]
    BY <1>1, <1>6, <1>7 DEF AInv, ChainInv
  <2>2. \A n \in DOMAIN queue' :
          /\ queue'[n].command = asked'[queue'[n].caller]
          /\ running'[queue'[n].caller] = None
          /\ \A m \in DOMAIN queue' : queue'[m].caller = queue'[n].caller => m = n
    BY <1>1, <1>2, <1>4, <1>6, <1>7, <1>8 DEF AInv, ChainInv
  <2> QED
    BY <1>1, <2>1, <2>2 DEF AInv, ChainInv
<1> QED
  BY <1>1, <1>5, <1>9 DEF AInv

LEMMA MutateStep ==
  ASSUME AInv, NEW c \in Callers, NEW s \in Submissions, Mutate(c, s)
  PROVE  AInv'
BY DEF AInv, TypeOK, ChainInv, Mutate

LEMMA StartStep ==
  ASSUME AInv, Start
  PROVE  AInv'
<1> DEFINE c == Head(queue).caller
<1>1. /\ queue \in Seq(Admissions) /\ queue # <<>> /\ Free
      /\ running' = [running EXCEPT ![c] = Head(queue).command]
      /\ base' = [base EXCEPT ![c] = sim]
      /\ queue' = Tail(queue) /\ UNCHANGED <<sim, object, asked>>
  BY DEF Start, CommandOf, AInv, TypeOK
<1>2. /\ Head(queue) = queue[1] /\ Head(queue) \in Admissions
      /\ DOMAIN queue = 1 .. Len(queue) /\ Len(queue) \in Nat \ {0}
      /\ Tail(queue) \in Seq(Admissions) /\ DOMAIN queue' = 1 .. Len(queue) - 1
      /\ \A n \in DOMAIN queue' : n + 1 \in DOMAIN queue /\ n + 1 # 1 /\ queue'[n] = queue[n + 1]
  BY <1>1
<1>3. c \in Callers /\ Head(queue).command \in Submissions /\ Head(queue).command = asked[c]
  BY <1>1, <1>2 DEF Admissions, AInv, ChainInv
<1>4. /\ running'[c] = asked[c] /\ base'[c] = sim
      /\ \A d \in Callers \ {c} : running'[d] = None
  BY <1>1, <1>3 DEF AInv, TypeOK, Free
<1>5. TypeOK'
  <2>1. \A d, e \in Callers : running'[d] # None /\ running'[e] # None => d = e
    BY <1>4
  <2> QED
    BY <1>1, <1>2, <1>3, <2>1 DEF AInv, TypeOK
<1>6. \A n \in DOMAIN queue' : queue'[n].caller # c /\ queue'[n].caller \in Callers
  <2>1. \A n \in DOMAIN queue : queue[n].caller = c => n = 1
    BY <1>1, <1>2 DEF AInv, ChainInv
  <2>2. \A n \in DOMAIN queue : queue[n].caller \in Callers
    BY QueuedCallers
  <2> QED
    BY <1>2, <2>1, <2>2
<1>7. \A n \in DOMAIN queue' :
        /\ queue'[n].command = asked'[queue'[n].caller]
        /\ \A m \in DOMAIN queue' : queue'[m].caller = queue'[n].caller => m = n
  <2>1. \A n \in DOMAIN queue' : queue'[n].command = asked'[queue'[n].caller]
    BY <1>1, <1>2 DEF AInv, ChainInv
  <2>2. ASSUME NEW m \in DOMAIN queue', NEW n \in DOMAIN queue', queue'[m].caller = queue'[n].caller
        PROVE  m = n
    <3>1. m + 1 = n + 1
      BY <1>2, <2>2 DEF AInv, ChainInv
    <3> QED
      BY <1>2, <3>1
  <2> QED
    BY <2>1, <2>2
<1> HIDE DEF c
<1>8. ChainInv'
  BY <1>1, <1>3, <1>4, <1>6, <1>7 DEF ChainInv
<1> QED
  BY <1>1, <1>5, <1>8 DEF AInv

\* A transact() that ends answers its caller and leaves the chain to the next one.
LEMMA EndStep ==
  ASSUME AInv, NEW c \in Callers, running[c] # None, running' = [running EXCEPT ![c] = None], Answered(c)
  PROVE  /\ ChainInv'
         /\ object' \in [Callers -> Submissions \cup {None}] /\ queue' \in Seq(Admissions)
         /\ running' \in [Callers -> Submissions \cup {None}]
         /\ \A d \in Callers : running'[d] = None
         /\ base' \in [Callers -> Simulations]
         /\ asked' \in [Callers -> Submissions \cup {None}]
<1>1. /\ base' = [base EXCEPT ![c] = Fresh] /\ object' = [object EXCEPT ![c] = None]
      /\ asked' = [asked EXCEPT ![c] = None] /\ queue' = queue
  BY DEF Answered
<1>2. \A d \in Callers : running'[d] = None
  BY DEF AInv, TypeOK, ChainInv
<1>3. \A n \in DOMAIN queue : queue[n].caller \in Callers /\ queue[n].caller # c
  BY QueuedCallers DEF AInv, ChainInv
<1>4. \A d \in Callers \ {c} : asked'[d] = asked[d]
  BY <1>1 DEF AInv, TypeOK
<1>5. ChainInv'
  BY <1>1, <1>2, <1>3, <1>4 DEF AInv, ChainInv
<1> QED
  BY <1>1, <1>2, <1>5, FreshIsASimulation DEF AInv, TypeOK

\* Whoever has the turn, the ledger it works on is the present one and the command the one
\* it was given.
LEMMA TurnIsPresent ==
  ASSUME AInv, NEW c \in Callers, running[c] # None
  PROVE  base[c] = sim /\ running[c] = asked[c] /\ running[c] \in Submissions
BY DEF AInv, ChainInv, TypeOK

LEMMA FinishStep ==
  ASSUME AInv, NEW c \in Callers, Finish(c)
  PROVE  AInv'
<1>1. /\ running[c] # None /\ running' = [running EXCEPT ![c] = None] /\ Answered(c)
      /\ base[c] = sim /\ running[c] \in Submissions
  BY TurnIsPresent DEF Finish
<1>2. CASE Silent(sim, running[c])
  <2>1. sim' = sim
    BY <1>1, <1>2 DEF Finish
  <2> QED
    BY <1>1, <2>1, EndStep DEF AInv, TypeOK
<1>3. CASE ~Silent(sim, running[c])
  <2>1. sim' = Recorded(sim, sim, running[c])
    BY <1>1, <1>3 DEF Finish
  <2>2. sim \in Simulations /\ Len(sim.records) < Capacity /\ Len(sim.records) \in Nat
    BY <1>3, ChainAssumption DEF AInv, TypeOK, Silent, Full, Simulations
  <2>3. sim' \in Simulations /\ Len(sim'.records) = Len(sim.records) + 1
    BY <1>1, <2>1, <2>2, RecordedFacts
  <2>4. Len(sim'.records) <= Capacity
    BY <2>2, <2>3, ChainAssumption
  <2>5. Sound(sim')
    BY <1>1, <1>3, <2>1, TransactedIsSound DEF AInv, Transacted
  <2> QED
    BY <1>1, <2>3, <2>4, <2>5, EndStep DEF AInv, TypeOK
<1> QED
  BY <1>2, <1>3

LEMMA FailStep ==
  ASSUME AInv, NEW c \in Callers, Fail(c)
  PROVE  AInv'
<1>1. running[c] # None /\ running' = [running EXCEPT ![c] = None] /\ Answered(c) /\ UNCHANGED sim
  BY DEF Fail, AfterFailure
<1> QED
  BY <1>1, EndStep DEF AInv, TypeOK

LEMMA AlwaysAInv == Spec => []AInv
<1>1. Init => AInv
  BY InitAInv
<1>2. AInv /\ [Next]_vars => AInv'
  <2>1. CASE UNCHANGED vars
    BY <2>1 DEF vars, AInv, TypeOK, ChainInv
  <2>2. CASE AInv /\ Next
    BY <2>2, SubmitStep, MutateStep, StartStep, FinishStep, FailStep DEF Next
  <2> QED
    BY <2>1, <2>2
<1> QED
  BY <1>1, <1>2, PTL DEF Spec
-----------------------------------------------------------------------------
\* Every variable keeps its shape, the chain of records stays within its capacity, and no
\* two submissions are in progress (engine.ts:156-159, 166).
THEOREM TypeCorrect == Spec => []TypeOK
<1>1. AInv => TypeOK
  BY DEF AInv
<1> QED
  BY <1>1, AlwaysAInv, PTL

\* However many callers submit, change their objects and fail in between, a request id of
\* a principal is applied at most once (engine.ts:162-169, 191).
THEOREM AtMostOnce == Spec => []AppliedAtMostOnce
<1>1. AInv => AppliedAtMostOnce
  BY DEF AInv, Sound, AppliedAtMostOnce
<1> QED
  BY <1>1, AlwaysAInv, PTL

\* Whatever was submitted, retried, refused or lost to a failure in between, the records
\* alone rebuild the ledger that they are exported from (engine.ts:161-193, 445-477).
THEOREM RecordsRebuildTheLedger == Spec => []ReplayReproduces
<1>1. AInv => ReplayReproduces
  BY SoundRestores DEF AInv, ReplayReproduces
<1> QED
  BY <1>1, AlwaysAInv, PTL

\* A retry is told what was recorded of the request, for as long as the ledger lives
\* (engine.ts:164-166, 191).
THEOREM RetriesAreExact == Spec => []RetriesAnswerTheRecord
<1>1. ASSUME AInv
      PROVE  RetriesAnswerTheRecord
  <2> SUFFICES ASSUME NEW n \in DOMAIN sim.records,
                      sim.records[n].submission.key # None,
                      sim.records[n].outcome.code # "IDEMPOTENCY_CONFLICT"
               PROVE  Answer(sim, sim.records[n].submission) = sim.records[n].outcome
    BY DEF RetriesAnswerTheRecord
  <2> DEFINE s == sim.records[n].submission
             outcome == sim.records[n].outcome
  <2>1. sim.requests[Slot(s)] = [digest |-> Digest(s), outcome |-> outcome]
    BY <1>1 DEF AInv, Sound, Remembered
  <2>2. sim.records[n] \in Records
    BY <1>1 DEF AInv, TypeOK, Simulations
  <2>3. [digest |-> Digest(s), outcome |-> outcome] # None
    BY <2>2, SubmissionFacts, ChainAssumption DEF Records, Memory
  <2>4. Previous(sim, s) = [digest |-> Digest(s), outcome |-> outcome]
    BY <2>1 DEF Previous
  <2>5. Replays(sim, s)
    BY <2>3, <2>4 DEF Replays
  <2> QED
    BY <2>4, <2>5 DEF Answer
<1> QED
  BY <1>1, AlwaysAInv, PTL

\* The ledger changes only as if the submission of one waiting caller, as it was given,
\* were transacted on its own: nothing is read before an await and used stale after it
\* (engine.ts:147-193).
TransactsAreAtomic ==
  [][UNCHANGED sim \/ \E c \in Callers : Waiting(c) /\ sim' = Transacted(sim, asked[c])]_vars

THEOREM OneAtATime == Spec => TransactsAreAtomic
<1>1. ASSUME AInv, [Next]_vars
      PROVE  UNCHANGED sim \/ \E c \in Callers : Waiting(c) /\ sim' = Transacted(sim, asked[c])
  <2>1. ASSUME NEW c \in Callers, Finish(c)
        PROVE  Waiting(c) /\ sim' = Transacted(sim, asked[c])
    BY <1>1, <2>1, TurnIsPresent DEF Finish, Waiting, Transacted
  <2> QED
    BY <1>1, <2>1 DEF Next, Submit, Mutate, Start, Fail, vars
<1>2. AInv /\ [Next]_vars =>
        [UNCHANGED sim \/ \E c \in Callers : Waiting(c) /\ sim' = Transacted(sim, asked[c])]_vars
  BY <1>1
<1> QED
  BY <1>2, AlwaysAInv, PTL DEF Spec, TransactsAreAtomic

\* The ledger holds only commands as they were when they were submitted
\* (engine.ts:147-156).
THEOREM NothingElseIsRecorded == Spec => RecordsWereAsked
<1>1. ASSUME AInv, [Next]_vars, NEW n \in DOMAIN sim'.records \ DOMAIN sim.records
      PROVE  \E c \in Callers : Waiting(c) /\ sim'.records[n].submission = asked[c]
  <2>1. PICK c \in Callers : Finish(c) /\ sim' # sim
    BY <1>1 DEF Next, Submit, Mutate, Start, Fail, vars
  <2>2. Waiting(c) /\ running[c] = asked[c] /\ running[c] \in Submissions
        /\ sim' = Recorded(sim, sim, running[c])
    BY <1>1, <2>1, TurnIsPresent DEF Finish, Waiting
  <2>3. sim \in Simulations /\ sim.records \in Seq(Records)
    BY <1>1 DEF AInv, TypeOK, Simulations
  <2>4. /\ Len(sim'.records) = Len(sim.records) + 1 /\ sim' \in Simulations
        /\ sim'.records[Len(sim.records) + 1].submission = running[c]
    BY <2>2, <2>3, RecordedFacts
  <2>5. n = Len(sim.records) + 1
    <3>1. sim'.records \in Seq(Records)
      BY <2>4 DEF Simulations
    <3> QED
      BY <1>1, <2>3, <2>4, <3>1
  <2> QED
    BY <2>2, <2>4, <2>5
<1>2. AInv /\ [Next]_vars =>
        [\A n \in DOMAIN sim'.records \ DOMAIN sim.records :
           \E c \in Callers : Waiting(c) /\ sim'.records[n].submission = asked[c]]_vars
  BY <1>1
<1> QED
  BY <1>2, AlwaysAInv, PTL DEF Spec, RecordsWereAsked
=============================================================================
