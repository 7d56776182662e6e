# Verification of the proof ledger

TLA+ models of this repository, checked with TLC on small instances; what is proved of the
agent-work engine, its audit chain, the durable store, the ledger in it, receipts and bundles,
and the command line is proved with TLAPS for every value of the constants. The models are translated from the source;
`PROJECT.json` maps each definition to its lines.

    tlc -workers 2 -config AgentWorkSpend.cfg MCAgentWork
    tlapm AgentWorkProofs.tla

## The system

| Part | Source | State | Operations | Hard because of |
|---|---|---|---|---|
| Agent-work engine: commands and treasury | `prototypes/agent-work/engine.ts` 92-107, 195-425, `contracts.ts`, `work-adapter.ts` | works, invoices, attempts, obligations, payments, receipts, revoked scopes, clock, three totals | 21 commands of four roles (agent, customer, operator, fake rail) | long legal sequences; receipts repeated, late, out of order; refund retries; disputes that overlap refunds |
| Agent-work engine: audit chain | `engine.ts` 110-193, 427-477 | records, request table, promise chain `tail` | submit, transact, replay, restore | concurrent submissions, retries, reused request identifiers, capacity, failures |
| Durable store | `prototypes/agent-work-durable/store.ts` | one SQLite row per file, handles with a quarantine code, one promise chain per file and process | create, open, transact, close | several processes, crashes, deadlines, failed COMMIT and ROLLBACK, a replaced file |
| Durable ledger | `prototypes/agent-work-durable/ledger.ts` | none of its own | submit, view, exportAudit | it restores the engine inside a store transaction |
| Receipt library | `src/core/{canonical,merkle,signer,envelope,receipt}.ts` | none (files are read) | `createReceipt`, `verifyReceipt`, tree and proofs, two serialisers | odd Merkle layers in two profiles; values that JSON changes; documents changed or mixed in any part; files that change while they are hashed |
| Signal profile | `src/profiles/signal.ts` | none | `createSignalProofBundle`, `verifySignalProofBundle` | an envelope, a receipt and a mirror that may come from different bundles |
| Checkpoint profile | `src/profiles/checkpoint.ts` | none; it awaits the caller's adapter | `verifyCheckpoint` | telling growth from truncation and replacement while ledger, keys and pins move on |
| Command line | `src/cli.ts` | files | keygen, attest, verify, badge, inspect, export | commands that run together, aliased paths, links, deaths between two writes |
| Visuals | `src/visual/` | none | SVG, HTML, QR | layout only |
| Python library | `python/nymrel_proof_ledger/` | none | the same as the TypeScript library | parity of two implementations |
| Release tools, benchmarks, examples, tests | `tools/`, `benchmarks/`, `examples/`, `test/` | none | scripts | nothing of the program itself |

Receipts are leaves of task, environment and artifacts under a Merkle root that is
signed with the metadata. A signal bundle is a receipt one of whose artifacts is the
envelope; a checkpoint is a receipt whose only artifact is the description of a
ledger's prefix, and is compared with `observePrefix` of the engine. The command line
is the only part of the library that writes files.

The durable ledger runs every command inside `SQLiteAuditStore.transact`: it reads
the bundle, replays it into a fresh `Simulation` (`restore`), submits the command,
and hands the new bundle back to be committed. The engine's reducer is pure given
its state; all concurrency is in the promise chains, in the lock of SQLite and
around the file.

What makes each modelled part correct:

- treasury: no spend beyond its reservation, no reservation beyond the budget, no
  refund beyond what was settled, totals that agree with the rail, and the reserve
  spent by nobody but a customer who disputes or asks for money back;
- audit chain: it replays to the state, applies a request once, answers a retry with
  what it recorded, and goes on after a failure;
- store: acknowledged writes are durable and never overwritten, locks are given up, a
  handle in doubt stops answering, every call ends;
- receipts and bundles: what is trusted is what a key holder signed, part by part, and
  what is signed verifies after it went through JSON;
- checkpoints: a ledger is accepted exactly if it still begins with what was retained,
  and read only for a checkpoint that the pinned policy admits;
- command line: no command replaces a file it was not asked to, and the gate passes
  only what was signed.

## Modules

| Module | Models | Corresponds to |
|---|---|---|
| `CreditSum` | sums over finite tables | `sum` in `treasury`. The sum is the number of tokens, one per credit, so that it needs no recursion and can be proved about |
| `AgentWork` | the reducer and the treasury | a variable per table of `State`, an action per command type; `Apply` is `apply()`, `Next` is `apply()` with the backstop of `transact()`, engine.ts:175-177 |
| `Absence` | the mark for what is not there | one constant, shared by the chain and the store |
| `AuditChain` | `transact`, `replay`, `restore` as operators on `[applied, records, requests]` | the reducer is abstracted to `Accepts`, an operator of what has been applied and the command |
| `AuditLog` | `submit` and the promise chain of one `Simulation` | `Submit`, `Start`, `Finish` and `Fail` are the synchronous part of `submit`, the two sides of the `await` in `transact`, and its throw; `Mutate` is a caller that changes the object it passed |
| `AtomicLedger` | what the interface `AtomicAuditStore` promises | a request takes effect at once between call and answer; refusals leave no trace; a caller may be left in doubt; there is a ledger for each file, and a copy begins a new one |
| `DurableStore` | `SQLiteAuditStore` on one path | an action per step between two awaits; see below |
| `DurableLedger` | the operations `DurableLedger` runs in a transaction | extends `DurableStore` and `AuditChain`: `Execute` restores, transacts and exports; `LedgerAssumption` makes it the effect of the store |
| `CanonicalJson` | both serialisers, and the round trip through JSON | recursive functions on JavaScript values; a form is a nested tuple or `Throws` |
| `MerkleTree` | layers, root, proofs, and a reference tree head | `merkle.ts`, over hashes that are tuples of what was hashed |
| `ReceiptEnvelope` | `validateReceiptEnvelope` as a set of errors | one operator per section of the code; a receipt is a function from the paths of its fields |
| `Receipt` | signer, `createReceipt`, `verifyReceipt` | operators; the verdict is the record the code returns |
| `SignalProfile` | envelopes, bundles and their verdict | operators, with the checks of the envelope field by field |
| `Documents` | receipts and bundles signed, published, changed, exchanged and verified | the state is what was signed, the document a reader holds, and the disk; verification, which keeps nothing, is in the properties |
| `Checkpoint` | `verifyCheckpoint` beside a ledger, its keepers and its operator | `Call`, `Observe` and `Conclude` are the code before, at and after its await of the adapter |
| `CommandLine` | argument parsing | `Parsed` is what `runCliUnchecked` dispatches on |
| `Commands` | all commands as processes on one file system | one action per stretch between two awaits, named for the function it is in |
| `AgentWorkProofs` | proofs about the engine | sums, types, backstop, invoices and receipts, balances |
| `AuditChainProofs`, `AuditLogProofs` | proofs about the chain | its operators; the promise chain that uses them |
| `DurableStoreProofs` | proofs about the store | the store and its refinement of `AtomicLedger`; the ledgers it keeps |
| `ReceiptProofs`, `DocumentsProofs` | proofs about documents | trees, canonical forms, signed receipts and their validation; what a reader holds |
| `CommandsProofs` | proofs about the commands | gate, digests, keys |
| `CheckpointProofs` | proofs about checkpoints | which source is read, what acceptance means |
| `MCAgentWork`, `MCAuditLog`, `MCDurableLedger`, `MCDocuments`, `MCCheckpoint`, `MCCommands` | instances for TLC | |

Definitions introduced by a comment `Mutant:` are faulty variants of the one below
them. No specification uses them; each is put in the place of its original to see
that a property notices.

### AgentWork

An assignment of the catalog is `works[w]`, absent until discovered; its invoice and
obligation, which the code keys by `invoice_<workId>` and by invoice, are indexed by
the same `w`. `Packet(w)` and `ScopeDigest(w)` stand for the artifact content and the
scope digest; a customer accepts an artifact, a scope digest and a revision of the
criteria, and each of the three is compared (engine.ts:293-294). `receipts` maps a receipt identifier to the content it was first used
with. A refused command changes nothing of the state, so refusals are steps that do
not happen; the record a refusal leaves is in `AuditChain`. `Spec` is the code.
`SpecApply` is the code without the backstop of `transact()`: what holds of it holds
because of the guards of the commands, and it is the specification of the proofs and
of the runs `spend` and `earn`. It has every behaviour of `Spec` (`SpecIsApply`), so
what it satisfies the code satisfies too; the run `shortfall` checks `Spec` itself.

### DurableStore

Each process has a promise chain per file (`queue`); the call at its head moves
through the phases `queued`, `beginning`, `operating`, `committing`, `rolling`,
`committed`, `done`, which are the stretches of `transact()` between awaits and
calls of SQLite.
External, and modelled by what store.ts relies on: a write lock per file, taken by
BEGIN IMMEDIATE and dropped with the process; a COMMIT of a change that an outside
reader holds up; COMMIT and ROLLBACK that may fail, with or without effect; commits
that survive the death of a process (synchronous=FULL); rename over a path. A
deadline of five seconds is modelled as something that may happen whenever the step
has just been found blocked; BEGIN may also fail at once for another reason (`BeginFails`).
The limit of a bundle, `MaxAudit`, is looked at twice, when a ledger is read (`Readable`)
and before one is stored (`Fits`). open() reads the identity of the file and opens it in
one step. Handles and calls are used once, which bounds the model.

### The receipt library

A receipt is a function from field paths (`"signature.keyId"`) to values: model
values for what is missing, of a wrong type (`Garbage`) or an empty text (`Blank`),
and otherwise members of small sets. A digest is the tuple of what was hashed, so that
equal digests mean equal contents; one written in capitals is `<<"UPPER", digest>>`,
which keeps apart the places where the code compares in lower case from those where
it compares as written. A signature is the tuple of payload and key. A key is 32 bytes, a private or public key in
PEM, or other text: any text is a secret, and for Ed25519 the same key in hexadecimal and in
PEM signs and verifies alike (signer.ts:46-70). `Documents`
changes a published document by each field, by parts of other documents, by lists
that are shortened or repeated and by a tree recomputed to fit. An enlarged document
is not signed again: whoever changes it has no key.

### Checkpoint

The ledger is an engine whose chain hashes are the sequences of records they stand
for. It grows, loses records (an older copy) and starts anew at any time before and
while the adapter is awaited. Between its other awaits `verifyCheckpoint` waits for
nothing outside, and uses only what it copied at the start, so these are one step.

### Commands

Names lead to inodes, to other names (symbolic links) or nowhere; two names for an
inode are hard links. `fs.writeFile` truncates in one step and writes in another; with
flag `wx` a name that leads anywhere, or is a link, is refused. Files of data are cells,
read two at a time through one buffer per receipt, as `hashFile` does with 1 MiB.
Others overwrite data in place, edit receipts, and link, move and remove names. A key is
32 bytes in hexadecimal, which are a secret, a private key or the public half of one, or
data that is no Ed25519 key, and may stand in a file or on the command line; `attest` with
a key or an algorithm that cannot sign exits with 1 after it has hashed the files
(`CanSign`).

## Runs

| Run | Question | Instance | Distinct states |
|---|---|---|---|
| `spend` | do reservations hold under any order of spends, observations, closings, expiries? | 2 assignments (2+2 credits) against a budget of 3, 3 attempts, 2 receipts, 1 tick, 2 customers with a scope each, 2 revisions of the criteria | 993,728 |
| `earn` | do totals agree with the rail? | 1 assignment of reward 3, 2 payments, 2 attempts, 4 receipts, amounts 1-2 | 53,706 |
| `shortfall` | who can bring the balance below zero? | the reward of one assignment (2) pays for the other, 4 receipts, disputes and refunds | 155,146 |
| `audit` | does the chain replay, do retries answer it, and does everyone get an answer? | 2 callers, 5 submissions that clash in every way `transact` tells apart, capacity 3, no symmetry | 265,302 |
| `durable_safety` | does the store lose or repeat anything? | 2 processes, 2 handles, 3 calls, 3 requests, 1 file with a reader, which takes 2 records of the 3 that fit in a chain | 378,454 |
| `durable_live` | does every call end, and is each file an atomic ledger? | 2 processes, 2 handles, 2 calls, 1 request, 2 files with a reader, no symmetry | 553,577 |
| `durable_restored` | what does a retained checkpoint protect from? | 1 process, 3 handles, 4 calls one after another, 2 requests, 2 files that replace each other | 757,895 |
| `durable_unlinked` | does a transaction ever commit to a file the path has lost? | 2 files, 2 calls | violated |
| `documents` | what does a trusted document say? | 7 receipts, 2 legacy receipts and 4 bundles to sign; three documents and changes together | 25,877 |
| `signal_reserved` | is a collision with the reserved path refused? | the same with one artifact under an absolute path | violated |
| `checkpoint` | which ledgers are accepted, and under which policy? | 2 records, 2 keys, 3 receipts and trust bundles together, 1 mishap, 4 adapters | 615,948 |
| `commands` | what may two commands do to files, and what passes the gate? | 2 processes, 8 names, 2 keys on the command line, 1 change by others | 376,072 |

Why the bounds are enough. Two assignments are what it takes to compete for a budget,
and three attempts to fail, settle and leave one in flight; two payments and two
refund attempts are one more than the code may admit; receipts outnumber what one
payment or attempt consumes, so that repeats and conflicts occur. Amounts of 1 and 2
against ceilings of 2 and 3 make each comparison both succeed and fail. In the chain
two callers overlap, and the capacity is reached with a retry still to come. In the
store two processes and three calls give a writer, a rival, and one that comes back
after a crash or a doubt; a file that takes one record less than a chain lets the
limit of the bundle be met before that of the chain. A restored copy is noticed by a
checkpoint only when the two files have gone on to the same version with other records,
which takes a ledger, a copy, a submission to each and an open: four calls, each made when
the one before it was answered (`OneByOne`, a constraint of `durable_restored` only; calls
that overlap are what the other runs of the store are about, and the theorem has no such
restriction). Receipts
have one, two and five artifacts, with three, four and seven leaves: odd layers at the
bottom and above it. Two changes after one signature are what it takes to change a part
and its digest, three documents to exchange parts between two. A ledger of two records
has a shorter, an equal and a forked prefix for a checkpoint of each length. Files of
data have one and three cells against a buffer of two: a full read, a short one and one
that follows another file. Symmetry is used over identifiers that the models only
compare (attempts, payments, receipts; processes, handles, calls; records of the ledger), and never
in a run with a liveness property. Named bounds: `Amounts`, `Sequences`, `Ticks`,
`Capacity` and `MaxAudit` (the code's 2048 records and 16 MiB), `MaxSteps`, `MaxEvents`,
`MaxReceipts`, `MaxDocuments`, `MaxMishaps` and `MaxChanges`.

`CHECK_DEADLOCK FALSE` is set in the runs of the store, which really stops: handles
and calls are used up, a creation that fails leaves a file that is kept for
inspection (store.ts:89), and a process that has died does nothing; and in the runs of
documents, checkpoints and commands, which end when their bounds are used up and each
command or call has ended. The engine and the chain never stop and are checked for deadlock.

Fairness. In `AuditLog` the event loop runs the continuations of the promise chain.
In `DurableStore` a process that has calls on its chain takes steps (`OrderlyStep`), as its timers
and continuations run: a blocked BEGIN or COMMIT is retried every 10 ms until its
deadline, so that a step is always possible; that BEGIN or COMMIT fails with another error
happens but is not counted on. Nothing is assumed of clients, readers, crashes or the operator, nor that the lock ever becomes free: `CallsSettle` has to
hold even if a handle in quarantine keeps it for ever, and it does because of the
deadline.

### What the runs show

The engine's reservations, totals and bindings hold in every reachable state of the
instances. Available credits fall below zero only by a step of a customer
(`OnlyCustomersCauseShortfall`). The chain replays to its state. The store implements
an atomic ledger for each file, with a caller left in doubt exactly where the code says
`..._UNCERTAIN_REOPEN_AND_RETRY_SAME_REQUEST` or where its process died.

A document that verifies as trusted agrees with a signed one in everything its version
signs; for version 1 that leaves out what the code warns of (receipt.ts:493). Every
receipt that `createReceipt` makes verifies after it went through JSON, unless a required
name in it is empty, because values
that JSON would change have no canonical form in version 2, and the legacy serialiser
writes them as JSON does. A presentation spares its receipt under every alias as long
as no name changes between the check and the write; that a name changes just then is
the part of the hazard that stays, and the property states it.

Two runs show disagreements. For `durable_unlinked`, the test at
`prototypes/agent-work-durable/store.test.ts:328` is titled "a live handle refuses a
replaced database file rather than acknowledging writes to an unlinked inode". The
file is checked before the transaction and once more at store.ts:177, before the
UPDATE and the COMMIT. In the trace a file is renamed over the path between that check and
the COMMIT, which then goes to an inode that nobody can open again; the trace ends with it,
and nobody reads the file meanwhile. The answer that follows (store.ts:180) does not depend
on the path. A reader only makes the time longer: a COMMIT that is held up is repeated for
five seconds. `prototypes/README.md:134`
tells the operator not to replace a live database, so documented use does not meet
it. The replacement in the model is coherent: a complete copy renamed into place.

`signal_reserved`: the test at `test/ts/signal.test.ts:416` says that bundles fail
closed on "reserved artifact-path collisions". The reserved name is compared with the
path as it was given (signal.ts:380), before createReceipt makes it relative to the
working directory (receipt.ts:203): an absolute path, or one with a detour, is recorded
under the reserved name beside the envelope. The bundle is then refused by its own
verifier (signal.ts:556), so the collision is noticed late, not accepted.

## Proofs

Each theorem holds for every value of the constants: any catalog and budget, any number
of callers, processes, handles, calls, files and command lines. Assumptions on constants
are named, stand in the module that declares the constants, and are evaluated by TLC on
every instance. They say what the code enforces or what makes the model a model:

| Assumption | Says |
|---|---|
| `ConfigAssumption`, `InputAssumption`, `NoneAssumption` (`AgentWork`) | what `validateConfig` and `validateCommand` enforce, that identifiers are finitely many, and that the marks for "nothing" are no identifiers |
| `ChainAssumption` (`AuditChain`) | the capacity is a natural number, a submission names a principal and a body, and the mark for "nothing" is no key, submission or memory |
| `StoreAssumption` (`DurableStore`) | the limit of records is a natural number, and marks are no identifiers and no stored values |
| `EffectAssumption` (`DurableStore`) | ledgers are sequences, the empty one among them; a view leaves a ledger as it is; an operation leaves it or appends one record |
| `LedgerAssumption` (`DurableLedger`) | the store is used for this ledger: requests are submissions and views, their effect is `Execute` |
| `ValuesAssumption` (`CanonicalJson`) | only arrays and objects have members, no value contains itself, and what JSON makes of a value is a value |
| `OrdersAssumption`, `LegacyOrdersAssumption` (`Documents`) | what the types of `CreateReceiptOptions` promise; receipts of older releases are ones that today's validation accepts, with metadata that JSON can carry |
| `EnvelopesAssumption` (`Documents`) | an envelope has a value for each of its fields; its lists are lists, and what is in its evidence are objects of the fields of the type, or `Garbage` |
| `ContextsAssumption` (`Documents`) | for each order whose key can sign there is a verifier that knows the key and expects the algorithm |
| `TrimmedAssumption`, `ReservedPathAssumption` (`SignalProfile`) | what was trimmed stays as it is, and does not become empty; the reserved path is relative and in normal form |
| `DiskAssumption` (`Documents`) | files, and data that callers pass, are not the canonical bytes of a Signal envelope; those get into a receipt through `createSignalProofBundle` |
| `AlternativesAssumption` (`Documents`) | no change forges a signature or makes a value of a shape that a change cannot make; exchanges between documents are free |
| `SourcesAssumption`, `OrdersAssumption` (`Checkpoint`) | ledgers are lists of records; orders are of the type `CreateReceiptOptions`, and what looks like the receipt of a checkpoint is one: keepers sign nothing else in its form |
| `AlternativesAssumption` (`Checkpoint`) | no change forges a signature, and lists and objects are changed to what is none, or leaves to other leaves |
| `FilesAssumption`, `CommandLinesAssumption` (`Commands`) | the first files are well formed, a symbolic link does not lead to another one, what commands name are names of the file system, and the keys they give are known |

### The engine

`SpecApply` is the engine without the check at engine.ts:177; `SpecIsApply` carries all
that is proved of it over to `Spec`.

All of it is in `AgentWorkProofs`.

- Types and backstop: `TypeCorrect`, `HeldCovers`,
  `BackstopNeverFires`. The invariant `IInv` is the types, that reservations follow the
  stage of their assignment, that attempts have targets, and `HeldCoversInFlight`. The types
  are not inductive alone: `held` is subtracted from with no check (engine.ts:413-414) and
  stays a natural number only because it covers the attempt that is observed. For the
  backstop, only `AcceptAssignment` raises the commitments, behind its guard.
- Sums: `CeilingsHold`, `TotalsAreTrue`,
  `InvoicesAreNotOverpaid`, `RefundsAreBound`, `ReserveIsKept`, `AvailableIsClosedForm`,
  `ShortfallsComeFromCustomers`, `NewsIsFunded`. The properties are about sums over attempts
  and payments, the code keeps sums over assignments and three totals. The invariant `LInv`
  ties the two together: per assignment, what is settled and in flight; per invoice, what
  was received; per obligation, the one attempt that is bound to it. From it `NetForm` gives
  the balance in closed form, from which the reserve, the shortfalls and the funding of
  observations follow.
- Records: `InvoicesAreAccepted` and `ReceiptsTellAll`. `TrailInv`
  keeps what a customer accepted (artifact, scope digest, revision of the criteria) with the invoice that is drawn from it; `HistoryInv` keeps,
  for each payment and attempt, the sequence numbers it has consumed against the receipts
  that were kept.

The lemmas about sums, in the same module: a table that changes in one place changes its
sum by as much, a sum is at least each entry and at least any set of its entries.

### The audit chain

`AuditLogProofs`: `TypeCorrect`, `AtMostOnce`, `RecordsRebuildTheLedger`, `RetriesAreExact`,
`OneAtATime`, `NothingElseIsRecorded`. The invariant `AInv` is the types (with
them, that at most one submission is in progress), `ChainInv` (the
transaction at the head of the queue works on the state that is current, so that no two
overlap, which is `OneAtATime`) and `Sound(sim)`, which `AuditChainProofs` shows that
`Transacted` preserves: what is remembered of a request identifier is on record
(`Remembered`) and the record that took it is remembered (`Recalled`), a request is applied
once, and the records rebuild the state (`Rebuilds`).

`Restore` is a recursive function, and what such a function computes for every input is
proved by induction over the records. `Rebuilds` says what is needed as an invariant
instead. A run of the recursion is any function on 0..Len(records) that
starts with `Fresh` and goes from each value to the next by `Transacted`. `Rebuilds` says
that there is a run for the records of the state and that every run ends in the state. A
step that adds a record extends the run by one value (`RebuildsOneMore`), so the induction
is the one over the behaviour. The function that `Restore` defines is such a run
(`SoundRestores`), hence ends in the state.

### The store

`DurableStoreProofs`: `TypeCorrect`, `NothingIsLost`, `AnswersAreDurable`,
`LocksAreReleased`, `PinnedOpensLoseNothing`, `LedgersOnlyGrow`, `DoubtIsFinal`. The invariant says
who may hold the lock of a file (the call at the head of the chain of its process, in a phase
between BEGIN and the end of COMMIT or ROLLBACK, or a handle whose ROLLBACK failed), that
only the holder writes, that what a transaction has read is what the file still holds, and
that a committed outcome is in the ledger of the file it was committed to. `SizesInv` adds that
no ledger is larger than the store can read, which is part of `AckedIsDurable`.

`PinnedOpensLoseNothing` is about answers of a file and another file that an open() finds at
the path: two answers on one file are ledgers of which the one with the lower version is a
beginning of the other, because both are beginnings of what the file holds (`AnswersAreDurable`)
and the version of a ledger counts its records (`SizesInv`); the ledger
that was opened had the checkpoint of the later answer, hence its records, and has only grown
since.

The refinement: `StoreImplementsAtomicLedger`, `Spec => ImplementsAtomicLedger`. `AtomicLedger`
has a ledger for each file (`Logs`), and each call is on the ledger of its handle's file
(`LedgerOf`). Every step maps to a step of `AtomicLedger` or to none: COMMIT that takes effect
maps to `Apply`, an answer to `Answer`, the initialisation of a file to `Create`, the operator's
copy and its return to the path to `Copy` and `Restore`, a crash to `Doubt` for all calls of the
process at once, everything else to a stutter. The invariant `RInv` adds to `IInv` that a call
that took effect is about to be acknowledged, or ends acknowledged or in doubt (`TookInv`), so
that what is refused had no effect. That calls keep their ledger (`LedgersStay`) is what replacing the
file cannot break: the handle keeps its file, wherever the path leads. No hypothesis is needed
about the path, and none is made. A call that is committing when the file is replaced takes
effect on the ledger that it was on, which is atomic like any other, but which the path has
lost: that is what `durable_unlinked` shows. The run `durable_live`, with two files, checks the
refinement through replacements.

### The durable ledger

In `DurableStoreProofs` too: `OperationsFitTheStore`, `StoredLedgersReplay`, `RetriesApplyOnce`,
`AnswersAreRepeated`. A ledger is `Healthy` if it is the records of a simulation that is
`Sound`. A submission makes a healthy ledger of a healthy one (`ExecuteKeepsHealth`), and the
store writes nothing else: `HealthInv` says that the file, the copy the operator has put
aside and what a transaction has read are all healthy, and `WellDone` is what every step of
the store does to these. A healthy ledger replays and has applied each request once.
`AnswersAreRepeated` uses the store as well: an outcome that was answered belongs to a ledger
that the file still extends (`AckedIsDurable`), and two ledgers of which one extends the other
agree on what they remember. `OperationsFitTheStore` shows `EffectAssumption` for submissions
and views, with the healthy ledgers as `Bundles`, so that the theorems about the store apply to
this use of it.

### The commands

`CommandsProofs`: `GateIsSound`, `DigestsAreOfContents`, `KeysReplaceNothing`,
`PresentedReceiptsStay`. The invariant `CInv` has three parts. Files: contents are of the
kinds of the model, a receipt that does not count as changed is one that was signed, and a
name leads to a file, a name that does, or nowhere. Processes: the stage a process is at
fits its command, and what it is going to write is well formed. Readings: every write adds
one to a counter of the file, so that a file with the counter it had when it was opened has
the content it had, and what was hashed of it is its beginning up to the offset; the read
that returns nothing then has the offset at its end. The lemmas about sequences
(`FilledOk`, `ReadCells`) show that what a read leaves in a buffer longer than it is hashed
exactly as far as it goes. `SeparateInv` is for presentations: from the comparison on, as
long as the counter of moved names stands still, the output leads to another file than the
receipt; a file that another process creates under some name cannot be the receipt's, because
it was not a file before. TLC checks `CInv` and `SeparateInv` on the instance of `commands`
as well.

### Trees, canonical forms and receipts

`ReceiptProofs` is about operators. Layers, inclusion paths and tree heads are recursive
functions; the library's induction theorems take an operator as parameter, which the
provers cannot instantiate, so `Inductive` and `Complete` state induction with the set of the
numbers that have the property in place of the property, and existence of such a function is
shown first (`LayersExist`, `PathsExist`, `HeadsExist`; `SolutionsExist` for functions on
values, over their parts).

- Trees: `ProofsAreExact`, `RootsAreOfTheirLeaves`, `RootsAreTreeHeads`,
  `RootsDetermineLeaves`. A layer is shown to be what one step up makes of the one below, and a
  path to climb one layer with each step. For tree heads, the m-th node of layer k is the head
  of the m-th segment of 2^k leaves, the last one cut short.
- Canonical forms: `FormsAreOfOneValue` (two values with the same form are equal after JSON)
  and `WritableValuesStay` (what has a form in version 2 is what JSON carries).
- Receipts: `OrdersAreSigned` (what `createReceipt` returns), `ValidReceipts` (what
  `validateReceiptEnvelope` lets through, in one conjunction), `PayloadsTell` and `TreesTell`
  (equal payloads mean equal fields, equal roots equal artifacts), from which `AcceptedIsSigned`
  and `LegacyAcceptedIsSigned` conclude that an accepted receipt says what a signed one says if
  its signature is that of the signed one.

### Documents

`DocumentsProofs`: `TrustedReceiptsWereSigned`, `InclusionProofsHold`,
`AuthoritativeContentWasSigned`, `SerialisedReceiptsAreAccepted`, `CollisionsAreAliases`. The properties are about a verdict on what the reader holds
after any changes; the invariant `IInv` (`HeldIsReworked`) is about what the reader holds. If
it is valid at all, it has the form of a receipt, and the value of its signature is, up to
capitals, that of some document that was issued; each issued document has the signature of
`createReceipt` over its own fields. It says nothing of the other fields, because nothing is
left to say: they may have been changed to anything and the tree computed anew. "If it is valid
at all" is needed because a change may replace a list by what is no list, after which the
validation refuses every verdict and, in the model as in the code, nothing else is looked at.
The verdict then does the rest: a trusted receipt has a payload whose signature is that of an
issued document, so the payloads are equal, hence the fields, hence the roots, hence the
leaves and the artifacts. For bundles the envelope's digest leads from the artifact at the
reserved path to the envelope that was signed.

`SerialisedReceiptsAreAccepted` is the other direction: what was issued is accepted. For it
`IInv` says more of each issued document (`IsIssued`): some verifier knows the key of its
receipt (`HasReader`), a receipt of version 1.0.0 is one that today's validation accepts
(`IsUsable`), and a bundle is one as `createSignalProofBundle` makes it (`IsBound`): the envelope is in normal form and valid,
and its artifact is the first, and the only one under the reserved path. `UntouchedInv` says that
before any change the reader holds an issued document and the disk is as it was. The argument
then has three parts. A signed receipt, unless a required name in it is empty, has no validation
error after the round trip through JSON, has the root of its leaves, and its signature verifies with the key of its order (`SignedIsAccepted`, `ReadersAccept`). The
normal form of an envelope is its own normal form and is as valid as the envelope was
(`NormalEnvelopes`): trimming twice is trimming once, a list sorted already is left alone by
sorting (`SortedStays`), and the scopes are without duplicates (`MembersOnce`); so that the
verifier, which normalises what it is given, compares the artifact with the digest that was
signed. And the checks between envelope, mirror and artifact then find nothing (`BoundIsValid`).

For bundles the theorem has the hypothesis `NoAliases`: no artifact has a path that becomes the
reserved one only when it is made relative to the working directory. Without it the theorem is
false, which is what `signal_reserved` shows. TLC finds `NoAliases` true of the orders of the run
`documents`, one of which asks for `./envelope.json` and is refused, and false
of those of `signal_reserved`. `CollisionsAreAliases` proves, from the same hypothesis, the
property which that run refutes: an alias is the only way to a bundle with two artifacts under
the reserved path. The comparison at signal.ts:380 would be complete if it were made with the
paths that receipt.ts:203 records.

The theorems have the hypothesis `MarksStandApart`: the model's marks for missing, wrong and
empty values, and for an exception, are neither texts that the program itself writes nor objects
or lists. It speaks of all functions, so TLC cannot evaluate it; marks are model values, which
are equal to nothing else.

### Checkpoints

`CheckpointProofs`: `SourceIsReadUnderPinnedPolicy` and `AcceptanceIsExact`. The invariant says
that what was retained is what keepers signed (`IsEntry`: the checkpoint describes the ledger as
it was, and the order could be signed), and that a call past its admission was admitted
(`IsAdmitted`): some entry k and revision j exist such that the checkpoint is that of k, the pins
are those of k and j, and j has the key of k as active or lists the checkpoint. Nothing that was
retained or published is changed, so that the existence stays true while others sign and publish
(`CallInvStays`); that the code copies its inputs before the first await is what makes the rest
of the call independent of them. For the step that establishes it (`CallsAreAllowed`): the
arguments may be those of different calls, damaged, or changed in a field and pinned anew
(`ArgumentsPassed`); whatever receipt is accepted was signed by a keeper
(`AcceptedReceiptsWereSigned`, from `ReceiptProofs`); its only artifact names the digest of the
checkpoint and nothing else, so that it was signed to retain this checkpoint
(`BoundReceiptsRetain`); and its signature verifies with the public half of one key.

The comparison (`AcceptedLedgersExtend`): the hash of a chain at a length determines the genesis
and the records up to there, hence an equal hash at the length of the checkpoint means the same
records, and the ledger as the adapter saw it extends the one that was retained; conversely its
answer then matches. `AcceptanceIsExact` needs `NumbersStandApart` beside `MarksStandApart`:
numbers are no marks.

The attempt to prove the first theorem showed that `KeyPolicy` was a `CASE` with arms that
overlapped. TLC takes the first arm that is true; the definition of `CASE` allows any. It is
written with disjoint arms now, in the order of the code.

### Only model-checked

Every invariant and every action property of the passing runs is stated by a theorem, and so is
the refinement. What is left to TLC:

- Liveness (`CallsSettle`, `EverySubmissionEnds`): properties under fairness are beyond the
  prover.
- That the constants of the runs meet the assumptions above and `NoAliases`.

## Not modelled

- Rendering of badges, certificates and QR codes: pure functions from a receipt to
  layout.
- The Python library: the same behaviour in a second language, held to it by shared
  conformance vectors.
- Encodings, the calendar of timestamps, the portable file name policy, and the
  tokeniser of checkpoint.ts: what they refuse is one value of the models
  (`Garbage`, "not a timestamp", a path that escapes).
- Directories: names are flat, so that a directory exchanged between the resolution of
  an artifact's path and its opening (receipt.ts:470-477) is not a behaviour.
- The cryptography: hashes are injective and signatures cannot be made without a key.
- The shape of commands and configurations of the engine: a malformed command is a
  refusal without effect. The `JSON_BOUNDARY` answer touches neither chain nor queue.
- `ARITHMETIC_RANGE` (engine.ts:176): amounts are at most 1e9 and records 2048, so
  sums stay far below 2^53.
- Other bindings, configurations and directories of the store, links, permissions, and
  a row that was edited by hand: each is refused by a check of its own before anything
  changes.
- What commands print, release tooling, demos and benchmarks.

## Plan

All modules above are written, every safety and action property that a passing run checks is
proved, and so is the refinement of `AtomicLedger`.

What would extend it: a file system with directories for `Commands`, for the one hazard that no
property covers (receipt.ts:470).
