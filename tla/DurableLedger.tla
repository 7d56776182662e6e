--------------------------- MODULE DurableLedger ---------------------------
(***************************************************************************)
(* The ledger of prototypes/agent-work-durable/ledger.ts: the audit chain  *)
(* of AuditChain in the store of DurableStore.  Every submission rebuilds  *)
(* the simulation from the stored records, submits one command to it and   *)
(* stores the records that come out; a view only reads.                    *)
(***************************************************************************)
EXTENDS DurableStore, AuditChain

LedgerRequests == Submissions \cup {Read}

\* Mutant: a submission always leaves a record, a retry too.
ExecuteRecordingRetries(bundle, request) ==
  IF request = Read
  THEN [bundle |-> bundle, outcome |-> bundle]
  ELSE LET sim == Restore(bundle)
       IN  [bundle |-> IF Len(bundle) >= Capacity THEN bundle
                       ELSE Append(bundle, Last(Recorded(sim, sim, request).records)),
            outcome |-> Answer(sim, request)]

\* #submit, view and exportAudit: what the operation given to transact() returns.
Execute(bundle, request) ==
  IF request = Read
  THEN [bundle |-> bundle, outcome |-> bundle]
  ELSE LET sim == Restore(bundle)
       IN  [bundle |-> Transacted(sim, request).records, outcome |-> Answer(sim, request)]

\* The ledgers that submissions can bring about, by their number of records.
LedgerBundles ==
  LET Grown[n \in 0 .. Capacity] ==
        IF n = 0 THEN {<<>>}
        ELSE Grown[n - 1] \cup {Execute(b, s).bundle : b \in Grown[n - 1], s \in Submissions}
  IN  Grown[Capacity]

\* The store is used for this ledger.
ASSUME LedgerAssumption ==
  /\ Requests = LedgerRequests
  /\ \A b \in Bundles, r \in Requests : Effect(b, r) = Execute(b, r)
-----------------------------------------------------------------------------
\* Retries after lost answers, crashes and uncertain commits, through whatever handle of
\* whatever process, never apply a request twice (ledger.ts:42-49, store.test.ts:221-230).
AppliedOnceOnDisk == \A i \in Inodes : disk[i] \in Stored => AppliedOnce(disk[i].bundle)

\* Whatever is stored can be rebuilt: the next operation never finds records that do not
\* replay (ledger.ts:43, store.ts:103).
StoredLedgerReplays ==
  \A i \in Inodes : disk[i] \in Stored => ReplayMatches(disk[i].bundle)
=============================================================================
