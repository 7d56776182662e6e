-------------------------- MODULE AuditChainProofs --------------------------
(***************************************************************************)
(* Proofs about AuditChain, for any submissions and any deterministic      *)
(* reducer: what transact() makes of a ledger, and that a ledger which     *)
(* only transact() made is the one that its records are restored to.       *)
(***************************************************************************)
EXTENDS AuditChain, SequenceTheorems, TLAPS

\* Every record but a conflict is the one that its request id is remembered by, and only
\* requests with an id are applied.
Remembered(sim) ==
  \A n \in DOMAIN sim.records :
    LET s == sim.records[n].submission
        outcome == sim.records[n].outcome
    IN  /\ s.key # None /\ outcome.code # "IDEMPOTENCY_CONFLICT"
             => sim.requests[Slot(s)] = [digest |-> Digest(s), outcome |-> outcome]
        /\ outcome.code = "APPLIED" => s.key # None

\* What is remembered of a request is on record.
OnRecord(sim, slot, digest, outcome) ==
  \E n \in DOMAIN sim.records :
    /\ Slot(sim.records[n].submission) = slot /\ sim.records[n].submission.key # None
    /\ Digest(sim.records[n].submission) = digest
    /\ sim.records[n].outcome = outcome /\ outcome.code # "IDEMPOTENCY_CONFLICT"

Recalled(sim) ==
  \A slot \in Principals \X Keys : sim.requests[slot] # None =>
    OnRecord(sim, slot, sim.requests[slot].digest, sim.requests[slot].outcome)

\* The simulations that restore() goes through, by the number of records submitted again.
Replaying(records, after) ==
  after = [n \in 0 .. Len(records) |->
             IF n = 0 THEN Fresh ELSE Transacted(after[n - 1], records[n].submission)]

\* Submitting the records again can only lead to this simulation.  It is stated of every
\* way to go through them, so that it passes from one number of records to the next.
Rebuilds(records, sim) ==
  /\ \E after : Replaying(records, after)
  /\ \A after : Replaying(records, after) => after[Len(records)] = sim

\* A simulation that transact() alone has made.
Sound(sim) ==
  /\ sim \in Simulations
  /\ Remembered(sim)
  /\ Recalled(sim)
  /\ AppliedOnce(sim.records)
  /\ Rebuilds(sim.records, sim)
-----------------------------------------------------------------------------
(***************************************************************************)
(* What transact() makes of a ledger.                                      *)
(***************************************************************************)
LEMMA SubmissionFacts ==
  ASSUME NEW s \in Submissions
  PROVE  /\ s.principal \in Principals /\ s.body \in Bodies
         /\ s.key \in Keys \cup {None} /\ s.expected \in Nat \cup {None}
         /\ s.key # None => Slot(s) \in Principals \X Keys
         /\ Digest(s) \in Digests /\ Entry(s) \in Entries
<1>1. /\ s.principal \in Principals /\ s.body \in Bodies
      /\ s.key \in Keys \cup {None} /\ s.expected \in Nat \cup {None}
  BY ChainAssumption
<1> QED
  BY <1>1 DEF Slot, Digest, Digests, Entry, Entries

\* The first check is that the request id is new.
LEMMA VerdictFacts ==
  ASSUME NEW b, NEW s
  PROVE  /\ Verdict(b, s) \in Verdicts
         /\ Verdict(b, s) # "IDEMPOTENCY_CONFLICT" => Previous(b, s) = None
         /\ Verdict(b, s) = "APPLIED" => Previous(b, s) = None /\ s.key # None
BY DEF Verdict, Verdicts

LEMMA RecordedFacts ==
  ASSUME NEW b \in Simulations, NEW s \in Submissions
  PROVE  LET r == Recorded(b, b, s)
             last == Len(b.records) + 1
         IN  /\ r \in Simulations
             /\ Len(r.records) = last
             /\ \A n \in 1 .. Len(b.records) : r.records[n] = b.records[n]
             /\ r.records[last].submission = s
             /\ r.records[last].outcome.code = Verdict(b, s)
             /\ s.key = None \/ Previous(b, s) # None => r.requests = b.requests
             /\ s.key # None /\ Previous(b, s) = None =>
                  r.requests = [b.requests EXCEPT ![Slot(s)] =
                                  [digest |-> Digest(s), outcome |-> r.records[last].outcome]]
<1> DEFINE applied == IF Verdict(b, s) = "APPLIED" THEN Append(b.applied, Entry(s)) ELSE b.applied
           outcome == [code |-> Verdict(b, s), revision |-> Len(applied)]
           record == [submission |-> s, outcome |-> outcome, state |-> applied]
           r == Recorded(b, b, s)
<1>1. /\ b.applied \in Seq(Entries) /\ b.records \in Seq(Records)
      /\ b.requests \in [Principals \X Keys -> Memory \cup {None}]
  BY DEF Simulations
<1>2. applied \in Seq(Entries)
  BY <1>1, SubmissionFacts
<1>3. outcome \in Outcomes
  BY <1>2, VerdictFacts DEF Outcomes
<1>4. record \in Records
  BY <1>2, <1>3 DEF Records
<1>5. /\ r.applied = applied /\ r.records = Append(b.records, record)
      /\ r.requests = IF Remembers(b, s)
                      THEN [b.requests EXCEPT ![Slot(s)] = [digest |-> Digest(s), outcome |-> outcome]]
                      ELSE b.requests
      /\ r = [applied |-> r.applied, records |-> r.records, requests |-> r.requests]
  BY DEF Recorded
<1> HIDE DEF r, applied
<1>6. /\ Append(b.records, record) \in Seq(Records) /\ Len(Append(b.records, record)) = Len(b.records) + 1
      /\ Append(b.records, record)[Len(b.records) + 1] = record
      /\ \A n \in 1 .. Len(b.records) : Append(b.records, record)[n] = b.records[n]
  BY <1>1, <1>4
<1>7. r.requests \in [Principals \X Keys -> Memory \cup {None}]
  BY <1>1, <1>3, <1>5, SubmissionFacts DEF Remembers, Memory
<1>8. r \in Simulations
  BY <1>2, <1>5, <1>6, <1>7 DEF Simulations
<1>9. r.records[Len(b.records) + 1] = record
  BY <1>5, <1>6
<1> HIDE DEF record, outcome
<1>10. record.submission = s /\ record.outcome = outcome /\ outcome.code = Verdict(b, s)
  BY DEF record, outcome
<1> QED
  BY <1>5, <1>6, <1>8, <1>9, <1>10 DEF Remembers, r

\* One more record leaves what is remembered consistent with the records.
LEMMA RecordKeepsMemory ==
  ASSUME NEW sim \in Simulations, Remembered(sim), AppliedOnce(sim.records),
         NEW s \in Submissions, NEW next, next = Recorded(sim, sim, s)
  PROVE  Remembered(next) /\ AppliedOnce(next.records)
<1> DEFINE last == Len(sim.records) + 1
<1>1. /\ sim.records \in Seq(Records) /\ sim.requests \in [Principals \X Keys -> Memory \cup {None}]
      /\ next \in Simulations /\ next.records \in Seq(Records)
      /\ Len(next.records) = last
      /\ \A n \in 1 .. Len(sim.records) : next.records[n] = sim.records[n]
      /\ next.records[last].submission = s
      /\ next.records[last].outcome.code = Verdict(sim, s)
      /\ s.key = None \/ Previous(sim, s) # None => next.requests = sim.requests
      /\ s.key # None /\ Previous(sim, s) = None =>
           next.requests = [sim.requests EXCEPT ![Slot(s)] =
                              [digest |-> Digest(s), outcome |-> next.records[last].outcome]]
  <2>1. sim.records \in Seq(Records) /\ sim.requests \in [Principals \X Keys -> Memory \cup {None}]
    BY DEF Simulations
  <2>2. next \in Simulations
    BY RecordedFacts
  <2>3. next.records \in Seq(Records)
    BY <2>2 DEF Simulations
  <2> HIDE DEF last
  <2>4. last = Len(sim.records) + 1
    BY DEF last
  <2> DEFINE r == Recorded(sim, sim, s)
  <2>5. /\ Len(r.records) = last
        /\ \A n \in 1 .. Len(sim.records) : r.records[n] = sim.records[n]
        /\ r.records[last].submission = s
        /\ r.records[last].outcome.code = Verdict(sim, s)
        /\ s.key = None \/ Previous(sim, s) # None => r.requests = sim.requests
        /\ s.key # None /\ Previous(sim, s) = None =>
             r.requests = [sim.requests EXCEPT ![Slot(s)] =
                             [digest |-> Digest(s), outcome |-> r.records[last].outcome]]
    BY <2>4, RecordedFacts
  <2> QED
    BY <2>1, <2>2, <2>3, <2>5
<1>2. /\ DOMAIN sim.records = 1 .. Len(sim.records) /\ Len(sim.records) \in Nat
      /\ DOMAIN next.records = 1 .. last
  BY <1>1
<1>3. \A n \in DOMAIN next.records : n \in DOMAIN sim.records \/ n = last
  BY <1>2
<1>4. ASSUME NEW n \in DOMAIN sim.records, sim.records[n].submission.key # None,
             sim.records[n].outcome.code # "IDEMPOTENCY_CONFLICT",
             Slot(sim.records[n].submission) = Slot(s), s.key # None
      PROVE  Previous(sim, s) # None
  <2>1. sim.records[n] \in Records
    BY <1>1, <1>2
  <2>2. sim.records[n].submission \in Submissions /\ sim.records[n].outcome \in Outcomes
    BY <2>1 DEF Records
  <2>3. [digest |-> Digest(sim.records[n].submission), outcome |-> sim.records[n].outcome] \in Memory
    BY <2>2, SubmissionFacts DEF Memory
  <2>4. sim.requests[Slot(s)] # None
    BY <1>4, <2>3, ChainAssumption DEF Remembered
  <2> QED
    BY <1>4, <2>4 DEF Previous
<1>5. /\ Verdict(sim, s) # "IDEMPOTENCY_CONFLICT" => Previous(sim, s) = None
      /\ Verdict(sim, s) = "APPLIED" => Previous(sim, s) = None /\ s.key # None
  BY VerdictFacts
<1>6. s.key # None => Slot(s) \in Principals \X Keys
  BY SubmissionFacts
<1>7. ASSUME NEW n \in DOMAIN next.records
      PROVE  LET r == next.records[n]
             IN  /\ r.submission.key # None /\ r.outcome.code # "IDEMPOTENCY_CONFLICT"
                      => next.requests[Slot(r.submission)] =
                           [digest |-> Digest(r.submission), outcome |-> r.outcome]
                 /\ r.outcome.code = "APPLIED" => r.submission.key # None
  <2>1. CASE n = last
    BY <1>1, <1>5, <1>6, <2>1
  <2>2. CASE n \in DOMAIN sim.records
    <3>1. next.records[n] = sim.records[n]
      BY <1>1, <1>2, <2>2
    <3>2. CASE s.key = None \/ Previous(sim, s) # None
      BY <1>1, <2>2, <3>1, <3>2 DEF Remembered
    <3>3. CASE s.key # None /\ Previous(sim, s) = None
      <4>1. sim.records[n].submission.key # None /\ sim.records[n].outcome.code # "IDEMPOTENCY_CONFLICT"
              => Slot(sim.records[n].submission) # Slot(s)
        BY <1>4, <2>2, <3>3
      <4>2. sim.records[n] \in Records
        BY <1>1, <1>2, <2>2
      <4>3. sim.records[n].submission.key # None => Slot(sim.records[n].submission) \in Principals \X Keys
        BY <4>2, SubmissionFacts DEF Records
      <4>4. sim.records[n].submission.key # None /\ sim.records[n].outcome.code # "IDEMPOTENCY_CONFLICT"
              => next.requests[Slot(sim.records[n].submission)] = sim.requests[Slot(sim.records[n].submission)]
        BY <1>1, <3>3, <4>1, <4>3
      <4> QED
        BY <2>2, <3>1, <4>4 DEF Remembered
    <3> QED
      BY <3>2, <3>3
  <2> QED
    BY <1>3, <2>1, <2>2
<1>8. ASSUME NEW m \in DOMAIN next.records, NEW n \in DOMAIN next.records,
             Slot(next.records[m].submission) = Slot(next.records[n].submission),
             next.records[m].outcome.code = "APPLIED", next.records[n].outcome.code = "APPLIED"
      PROVE  m = n
  <2>1. ASSUME NEW k \in DOMAIN sim.records, next.records[k].outcome.code = "APPLIED",
               Slot(next.records[k].submission) = Slot(s), Verdict(sim, s) = "APPLIED"
        PROVE  FALSE
    <3>1. next.records[k] = sim.records[k]
      BY <1>1, <1>2
    <3>2. sim.records[k].submission.key # None
      BY <2>1, <3>1 DEF Remembered
    <3> QED
      BY <1>4, <1>5, <2>1, <3>1, <3>2
  <2>2. CASE m \in DOMAIN sim.records /\ n \in DOMAIN sim.records
    <3>1. next.records[m] = sim.records[m] /\ next.records[n] = sim.records[n]
      BY <1>1, <1>2, <2>2
    <3> QED
      BY <1>8, <2>2, <3>1 DEF AppliedOnce
  <2>3. CASE m = last /\ n \in DOMAIN sim.records
    BY <1>1, <1>8, <2>1, <2>3
  <2>4. CASE n = last /\ m \in DOMAIN sim.records
    BY <1>1, <1>8, <2>1, <2>4
  <2> QED
    BY <1>3, <2>2, <2>3, <2>4
<1>9. Remembered(next)
  BY <1>7 DEF Remembered
<1>10. AppliedOnce(next.records)
  BY <1>8 DEF AppliedOnce
<1> QED
  BY <1>9, <1>10

LEMMA RecordIsRecalled ==
  ASSUME NEW sim \in Simulations, Recalled(sim), NEW s \in Submissions,
         NEW next, next = Recorded(sim, sim, s)
  PROVE  Recalled(next)
<1> DEFINE last == Len(sim.records) + 1
           fresh == s.key # None /\ Previous(sim, s) = None
<1>1. /\ next \in Simulations /\ Len(next.records) = last
      /\ \A n \in 1 .. Len(sim.records) : next.records[n] = sim.records[n]
      /\ next.records[last].submission = s
      /\ next.records[last].outcome.code = Verdict(sim, s)
      /\ ~fresh => next.requests = sim.requests
      /\ fresh => next.requests = [sim.requests EXCEPT ![Slot(s)] =
                    [digest |-> Digest(s), outcome |-> next.records[last].outcome]]
  BY RecordedFacts
<1>2. /\ sim.records \in Seq(Records) /\ next.records \in Seq(Records)
      /\ sim.requests \in [Principals \X Keys -> Memory \cup {None}]
  BY <1>1 DEF Simulations
<1>3. /\ DOMAIN sim.records = 1 .. Len(sim.records) /\ Len(sim.records) \in Nat
      /\ DOMAIN next.records = 1 .. last /\ last \in DOMAIN next.records
      /\ DOMAIN sim.records \subseteq DOMAIN next.records
  BY <1>1, <1>2
<1>4. fresh => Verdict(sim, s) # "IDEMPOTENCY_CONFLICT"
  BY DEF Verdict
<1> HIDE DEF last
<1> SUFFICES ASSUME NEW slot \in Principals \X Keys, next.requests[slot] # None
             PROVE  OnRecord(next, slot, next.requests[slot].digest, next.requests[slot].outcome)
  BY DEF Recalled
<1>5. CASE fresh /\ slot = Slot(s)
  BY <1>1, <1>2, <1>3, <1>4, <1>5 DEF OnRecord
<1>6. CASE ~(fresh /\ slot = Slot(s))
  <2>1. next.requests[slot] = sim.requests[slot]
    BY <1>1, <1>2, <1>6
  <2>2. OnRecord(sim, slot, sim.requests[slot].digest, sim.requests[slot].outcome)
    BY <2>1 DEF Recalled
  <2> QED
    BY <1>1, <1>3, <2>1, <2>2 DEF OnRecord
<1> QED
  BY <1>5, <1>6

LEMMA FreshIsASimulation == Fresh \in Simulations
BY DEF Fresh, Simulations
-----------------------------------------------------------------------------
(***************************************************************************)
(* What restore() makes of the records.                                    *)
(***************************************************************************)
LEMMA RebuildsNothing == Rebuilds(<<>>, Fresh)
<1> DEFINE after == [n \in 0 .. 0 |-> Fresh]
<1>1. Len(<<>>) = 0
  OBVIOUS
<1>2. Replaying(<<>>, after)
  <2>1. after = [n \in 0 .. 0 |-> IF n = 0 THEN Fresh ELSE Transacted(after[n - 1], <<>>[n].submission)]
    OBVIOUS
  <2> QED
    BY <1>1, <2>1 DEF Replaying
<1>3. ASSUME NEW other, Replaying(<<>>, other)
      PROVE  other[0] = Fresh
  BY <1>1, <1>3 DEF Replaying
<1> QED
  BY <1>1, <1>2, <1>3 DEF Rebuilds

LEMMA RebuildsOneMore ==
  ASSUME NEW records \in Seq(Records), NEW sim, NEW r \in Records, Rebuilds(records, sim)
  PROVE  Rebuilds(Append(records, r), Transacted(sim, r.submission))
<1> DEFINE more == Append(records, r)
           last == Len(records) + 1
<1>1. /\ Len(records) \in Nat /\ Len(more) = last /\ more[last] = r
      /\ \A n \in 1 .. Len(records) : more[n] = records[n]
  OBVIOUS
<1> HIDE DEF more
<1>2. 0 .. last = (0 .. Len(records)) \cup {last} /\ last \notin 0 .. Len(records) /\ last - 1 = Len(records)
      /\ last # 0 /\ Len(records) \in 0 .. Len(records)
      /\ \A n \in 0 .. Len(records) : n # 0 => n \in 1 .. Len(records) /\ n - 1 \in 0 .. Len(records)
  BY <1>1
<1> HIDE DEF last
<1>3. ASSUME NEW after, Replaying(more, after)
      PROVE  after[last] = Transacted(sim, r.submission)
  <2> DEFINE before == [n \in 0 .. Len(records) |-> after[n]]
  <2>1. after = [n \in 0 .. last |->
                   IF n = 0 THEN Fresh ELSE Transacted(after[n - 1], more[n].submission)]
    BY <1>1, <1>3 DEF Replaying
  <2>2. \A n \in 0 .. last :
          after[n] = IF n = 0 THEN Fresh ELSE Transacted(after[n - 1], more[n].submission)
    BY <2>1
  <2>3. ASSUME NEW n \in 0 .. Len(records)
        PROVE  before[n] = IF n = 0 THEN Fresh ELSE Transacted(before[n - 1], records[n].submission)
    BY <1>1, <1>2, <2>2
  <2>4. Replaying(records, before)
    BY <2>3, Zenon DEF Replaying
  <2>5. before[Len(records)] = sim
    BY <2>4 DEF Rebuilds
  <2>6. after[Len(records)] = sim
    BY <1>2, <2>5
  <2> QED
    BY <1>1, <1>2, <2>2, <2>6
<1>4. \E after : Replaying(more, after)
  <2>1. PICK before : Replaying(records, before)
    BY DEF Rebuilds
  <2> DEFINE after == [n \in 0 .. last |->
                         IF n = last THEN Transacted(before[Len(records)], r.submission) ELSE before[n]]
  <2>2. \A n \in 0 .. Len(records) :
          before[n] = IF n = 0 THEN Fresh ELSE Transacted(before[n - 1], records[n].submission)
    BY <2>1 DEF Replaying
  <2>3. ASSUME NEW n \in 0 .. last
        PROVE  after[n] = IF n = 0 THEN Fresh ELSE Transacted(after[n - 1], more[n].submission)
    BY <1>1, <1>2, <2>2
  <2>4. after = [n \in 0 .. last |->
                   IF n = 0 THEN Fresh ELSE Transacted(after[n - 1], more[n].submission)]
    BY <2>3, Zenon
  <2>5. Replaying(more, after)
    BY <1>1, <2>4 DEF Replaying
  <2> QED
    BY <2>5
<1> QED
  BY <1>1, <1>3, <1>4 DEF Rebuilds, more

LEMMA RebuildsRestores ==
  ASSUME NEW records, NEW sim, Rebuilds(records, sim)
  PROVE  Restore(records) = sim
BY DEF Rebuilds, Replaying, Restore

LEMMA SoundRestores ==
  ASSUME NEW sim, Sound(sim)
  PROVE  Restore(sim.records) = sim
BY RebuildsRestores DEF Sound

LEMMA FreshIsSound == Sound(Fresh)
<1>1. Fresh.records = <<>> /\ DOMAIN Fresh.records = {}
  BY DEF Fresh
<1>2. Recalled(Fresh)
  BY DEF Recalled, Fresh
<1> QED
  BY <1>1, <1>2, FreshIsASimulation, RebuildsNothing DEF Sound, Remembered, AppliedOnce

LEMMA TransactedIsSound ==
  ASSUME NEW sim, Sound(sim), NEW s \in Submissions
  PROVE  Sound(Transacted(sim, s))
<1>1. CASE Silent(sim, s)
  BY <1>1 DEF Transacted
<1>2. CASE ~Silent(sim, s)
  <2> DEFINE next == Recorded(sim, sim, s)
             last == Len(sim.records) + 1
             r == next.records[last]
  <2>1. Transacted(sim, s) = next /\ sim \in Simulations /\ sim.records \in Seq(Records)
    BY <1>2 DEF Transacted, Sound, Simulations
  <2>2. /\ next \in Simulations
        /\ Len(next.records) = last
        /\ \A n \in 1 .. Len(sim.records) : next.records[n] = sim.records[n]
        /\ r.submission = s
    BY <2>1, RecordedFacts
  <2>3. Remembered(next) /\ AppliedOnce(next.records) /\ Recalled(next)
    BY <2>1, RecordKeepsMemory, RecordIsRecalled DEF Sound
  <2> HIDE DEF next
  <2>4. next.records \in Seq(Records)
    BY <2>2 DEF Simulations
  <2>5. r \in Records /\ next.records = Append(sim.records, r)
    BY <2>1, <2>2, <2>4
  <2>6. Rebuilds(next.records, Transacted(sim, s))
    BY <2>1, <2>2, <2>5, RebuildsOneMore DEF Sound
  <2> QED
    BY <2>1, <2>2, <2>3, <2>6 DEF Sound
<1> QED
  BY <1>1, <1>2

\* An answer other than a conflict or a full chain is on record once it is given.
LEMMA AnswerIsOnRecord ==
  ASSUME NEW sim, Sound(sim), NEW s \in Submissions, s.key # None,
         Answer(sim, s).code \notin {"IDEMPOTENCY_CONFLICT", "AUDIT_CAPACITY"}
  PROVE  OnRecord(Transacted(sim, s), Slot(s), Digest(s), Answer(sim, s))
<1>1. CASE Replays(sim, s)
  <2>1. Transacted(sim, s) = sim /\ Answer(sim, s) = Previous(sim, s).outcome
    BY <1>1 DEF Transacted, Silent, Answer
  <2>2. /\ Previous(sim, s) = sim.requests[Slot(s)] /\ sim.requests[Slot(s)] # None
        /\ sim.requests[Slot(s)].digest = Digest(s)
    BY <1>1 DEF Replays, Previous
  <2>3. Slot(s) \in Principals \X Keys
    BY SubmissionFacts
  <2> QED
    BY <2>1, <2>2, <2>3 DEF Sound, Recalled
<1>2. CASE ~Replays(sim, s)
  <2> DEFINE next == Recorded(sim, sim, s)
             last == Len(sim.records) + 1
  <2>1. ~Full(sim)
    BY <1>2 DEF Answer
  <2>2. Transacted(sim, s) = next /\ Answer(sim, s) = Last(next.records).outcome
    BY <1>2, <2>1 DEF Transacted, Silent, Answer
  <2>3. sim \in Simulations /\ sim.records \in Seq(Records)
    BY DEF Sound, Simulations
  <2>4. /\ next \in Simulations /\ Len(next.records) = last /\ next.records[last].submission = s
    BY <2>3, RecordedFacts
  <2> HIDE DEF next
  <2>5. next.records \in Seq(Records)
    BY <2>4 DEF Simulations
  <2>6. last \in DOMAIN next.records /\ Last(next.records) = next.records[last]
    BY <2>3, <2>4, <2>5 DEF Last
  <2> QED
    BY <2>2, <2>4, <2>6 DEF OnRecord
<1> QED
  BY <1>1, <1>2

\* Two answers on the same record, for the same request, are one.
LEMMA RecordIsOne ==
  ASSUME NEW sim, Remembered(sim), NEW slot, NEW digest, NEW o1, NEW o2,
         OnRecord(sim, slot, digest, o1), OnRecord(sim, slot, digest, o2)
  PROVE  o1 = o2
<1>1. sim.requests[slot] = [digest |-> digest, outcome |-> o1]
  BY DEF Remembered, OnRecord
<1>2. sim.requests[slot] = [digest |-> digest, outcome |-> o2]
  BY DEF Remembered, OnRecord
<1> QED
  BY <1>1, <1>2
=============================================================================
