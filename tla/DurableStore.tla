---------------------------- MODULE DurableStore ----------------------------
(***************************************************************************)
(* The durable ledger store of prototypes/agent-work-durable/store.ts:     *)
(* handles of several processes on one SQLite file.  A transaction is      *)
(* BEGIN IMMEDIATE, read, run the operation, check the file again, UPDATE, *)
(* COMMIT, answer, with an await between these steps at which any other    *)
(* process may move, an outside reader may open or close the file, or the  *)
(* process may die.  Within a process the calls on a file run one at a     *)
(* time, on a promise chain that all handles share.                        *)
(*                                                                         *)
(* SQLite, the file system and the clock are external: a write lock per    *)
(* file that a dying process gives up, a COMMIT that an outside reader     *)
(* holds up, commits that survive the death of a process, errors at any    *)
(* COMMIT or ROLLBACK, and five-second deadlines that may pass whenever    *)
(* something is in the way.                                                *)
(***************************************************************************)
EXTENDS Absence, Integers, Sequences, SequencesExt, FiniteSets

CONSTANTS
  Processes,      \* processes that share the file
  Handles,        \* SQLiteAuditStore objects, each used once
  Calls,          \* calls on handles, each used once
  Inodes,         \* files the path may come to name
  Watched,        \* those of them that an outside reader may open
  Requests,       \* what a transaction may ask for
  Read,           \* the request that leaves the ledger as it is
  Effect(_, _),   \* ledger, request -> [bundle, outcome]
  Bundles,        \* the ledgers that requests can bring about
  MaxAudit,       \* MAX_AUDIT_BYTES, counted in records
  Blank           \* a file that was made but not initialised

ASSUME EffectAssumption ==
  /\ <<>> \in Bundles /\ Bundles \subseteq Seq(UNION {Range(b) : b \in Bundles})
  /\ Read \in Requests
  /\ \A b \in Bundles : Effect(b, Read).bundle = b
  /\ \A b \in Bundles, r \in Requests :
       LET after == Effect(b, r).bundle
       IN  after \in Bundles /\ (after = b \/ (Len(after) = Len(b) + 1 /\ Front(after) = b))

\* What is committed in an initialised file.
Stored == [version : Nat, bundle : Bundles]

\* How a call can end.
Refusals == {"STORE_CLOSED", "STORE_FILE_REPLACED", "STORE_BUSY", "REFUSED"}
Doubts == {"COMMIT_UNCERTAIN", "ROLLBACK_UNCERTAIN", "LOST"}
Codes == {"ACK", "CLOSED"} \cup Refusals \cup Doubts

ASSUME StoreAssumption ==
  /\ MaxAudit \in Nat
  /\ None # Blank
  /\ None \notin Inodes \cup Handles \cup Processes \cup Requests /\ None \notin Codes
  /\ None \notin Stored /\ Blank \notin Stored

VARIABLES
  path,      \* the file at the ledger's path
  disk,      \* file -> what is committed in it
  backup,    \* a copy of the ledger that the operator has put aside
  lock,      \* file -> the handle whose transaction is active on it
  reading,   \* file -> whether an outside reader has it open
  handle,    \* handle -> its state, process, file and doubts
  queue,     \* process -> the calls on its promise chain, the running one first
  call       \* call -> how far it has come

vars == <<path, disk, backup, lock, reading, handle, queue, call>>
environment == <<path, backup, reading>>

HandleStates == {"unused", "creating", "opening", "open", "closed", "dead"}
HandleRecord == [state : HandleStates, process : Processes \cup {None},
                 inode : Inodes \cup {None}, uncertain : {None, "COMMIT_UNCERTAIN", "ROLLBACK_UNCERTAIN"}]

Phases == {"idle", "queued", "beginning", "operating", "committing", "rolling", "committed", "done"}
CallRecord == [phase : Phases, kind : {"transact", "open", "abandon", "close"},
               handle : Handles \cup {None}, request : Requests \cup {None},
               expected : Stored \cup {None}, seen : Stored \cup {None},
               code : Codes \cup {None}, took : BOOLEAN]

NoHandle == [state |-> "unused", process |-> None, inode |-> None, uncertain |-> None]
NoCall == [phase |-> "idle", kind |-> "close", handle |-> None, request |-> None,
           expected |-> None, seen |-> None, code |-> None, took |-> FALSE]

Init ==
  /\ path = None
  /\ disk = [i \in Inodes |-> None]
  /\ backup = None
  /\ lock = [i \in Inodes |-> None]
  /\ reading = [i \in Inodes |-> FALSE]
  /\ handle = [h \in Handles |-> NoHandle]
  /\ queue = [p \in Processes |-> <<>>]
  /\ call = [c \in Calls |-> NoCall]
-----------------------------------------------------------------------------
HandleOf(c) == call[c].handle
ProcessOf(c) == handle[HandleOf(c)].process
FileOf(c) == handle[HandleOf(c)].inode

\* It is the turn of a call when it is the first on the promise chain of its process.
Turn(c) ==
  /\ call[c].phase \notin {"idle", "done"}
  /\ queue[ProcessOf(c)] # <<>>
  /\ Head(queue[ProcessOf(c)]) = c

\* What an operation makes of the ledger it has read: a new version only for a change.
After(stored, request) ==
  LET bundle == Effect(stored.bundle, request).bundle
  IN  [version |-> stored.version + (IF bundle # stored.bundle THEN 1 ELSE 0), bundle |-> bundle]

Result(c) == After(call[c].seen, call[c].request)

Changed(c) == Result(c).bundle # call[c].seen.bundle

\* A call ends and makes room for the next.  A failed open() first closes its handle,
\* which is one more call on the chain.
Settle(c, code) ==
  LET rest == Tail(queue[ProcessOf(c)])
  IN  IF code # "ACK" /\ call[c].kind = "open"
      THEN /\ call' = [call EXCEPT ![c].phase = "queued", ![c].kind = "abandon", ![c].code = code]
           /\ queue' = [queue EXCEPT ![ProcessOf(c)] = Append(rest, c)]
      ELSE /\ call' = [call EXCEPT ![c].phase = "done", ![c].code = code,
                                   ![c].seen = IF code = "ACK" THEN @ ELSE None]
           /\ queue' = [queue EXCEPT ![ProcessOf(c)] = rest]

Advance(c, phase) ==
  /\ call' = [call EXCEPT ![c].phase = phase]
  /\ UNCHANGED queue
-----------------------------------------------------------------------------
(***************************************************************************)
(* create(): the file is made exclusively, then initialised in one         *)
(* transaction.  What a failed initialisation leaves is kept as it is.     *)
(***************************************************************************)
\* Mutant: creation truncates a file that exists already.
AnyPlace(i) == TRUE

\* O_CREAT | O_EXCL: nothing is at the path.
Vacant(i) == path = None /\ disk[i] = None

MakeFile(h, p, i) ==
  /\ handle[h].state = "unused"
  /\ Vacant(i)
  /\ path' = i
  /\ disk' = [disk EXCEPT ![i] = Blank]
  /\ handle' = [handle EXCEPT ![h] = [state |-> "creating", process |-> p, inode |-> i, uncertain |-> None]]
  /\ UNCHANGED <<backup, lock, reading, queue, call>>

Initialise(h) ==
  /\ handle[h].state = "creating"
  /\ disk' = [disk EXCEPT ![handle[h].inode] = [version |-> 0, bundle |-> <<>>]]
  /\ handle' = [handle EXCEPT ![h].state = "open"]
  /\ UNCHANGED <<environment, lock, queue, call>>

InitialiseFails(h) ==
  /\ handle[h].state = "creating"
  /\ disk' \in {disk, [disk EXCEPT ![handle[h].inode] = [version |-> 0, bundle |-> <<>>]]}
  /\ handle' = [handle EXCEPT ![h].state = "closed"]
  /\ UNCHANGED <<environment, lock, queue, call>>
-----------------------------------------------------------------------------
(***************************************************************************)
(* The calls of clients.  A client may keep the checkpoint of an answer    *)
(* and ask open() to compare it with the ledger it finds.                  *)
(***************************************************************************)
Enqueue(c, h, p, kind, request, expected) ==
  /\ call[c].phase = "idle"
  /\ call' = [call EXCEPT ![c] =
       [NoCall EXCEPT !.phase = "queued", !.kind = kind, !.handle = h,
                      !.request = request, !.expected = expected]]
  /\ queue' = [queue EXCEPT ![p] = Append(@, c)]

Answered(c) == call[c].phase = "done" /\ call[c].code = "ACK"

Checkpoints == {Result(c) : c \in {d \in Calls : Answered(d)}}

\* Mutant: any file will do.
Exists == path # None

\* requireFile: there is a file, and it is not empty.
Initialised == path # None /\ disk[path] # Blank

Open(c, h, p, expected) ==
  /\ handle[h].state = "unused"
  /\ Initialised
  /\ expected \in {None} \cup Checkpoints
  /\ handle' = [handle EXCEPT ![h] = [state |-> "opening", process |-> p, inode |-> path, uncertain |-> None]]
  /\ Enqueue(c, h, p, "open", Read, expected)
  /\ UNCHANGED <<environment, disk, lock>>

Transact(c, h, request) ==
  /\ handle[h].state \in {"open", "closed"}
  /\ Enqueue(c, h, handle[h].process, "transact", request, None)
  /\ UNCHANGED <<environment, disk, lock, handle>>

Close(c, h) ==
  /\ handle[h].state = "open"
  /\ Enqueue(c, h, handle[h].process, "close", None, None)
  /\ UNCHANGED <<environment, disk, lock, handle>>
-----------------------------------------------------------------------------
(***************************************************************************)
(* The steps of a transaction.                                             *)
(***************************************************************************)
\* #checkFile: the path still names the file the handle was opened on.
FileIntact(c) == path = FileOf(c)

\* Mutant: a quarantined handle goes on.
NoQuarantine(c) == None

Quarantine(c) == handle[HandleOf(c)].uncertain

\* The checks before a transaction begins, in their order.
StartCode(c) ==
  IF handle[HandleOf(c)].state = "closed" THEN "STORE_CLOSED"
  ELSE IF Quarantine(c) # None THEN Quarantine(c)
  ELSE IF ~FileIntact(c) THEN "STORE_FILE_REPLACED"
  ELSE None

Start(c) ==
  /\ Turn(c)
  /\ call[c].phase = "queued"
  /\ call[c].kind \in {"transact", "open"}
  /\ IF StartCode(c) = None THEN Advance(c, "beginning") ELSE Settle(c, StartCode(c))
  /\ UNCHANGED <<environment, disk, lock, handle>>

\* Mutant: a plain BEGIN, which takes the lock at the first write only.
AlwaysUnlocked(c) == TRUE

\* BEGIN IMMEDIATE asks for the write lock at once.
Unlocked(c) == lock[FileOf(c)] = None

\* The ledger is read under the lock.
Begin(c) ==
  /\ Turn(c)
  /\ call[c].phase = "beginning"
  /\ Unlocked(c)
  /\ lock' = [lock EXCEPT ![FileOf(c)] = HandleOf(c)]
  /\ call' = [call EXCEPT ![c].phase = "operating", ![c].seen = disk[FileOf(c)]]
  /\ UNCHANGED <<environment, disk, handle, queue>>

\* Mutant: the store waits for the lock as long as it takes.
NoDeadline == FALSE

\* A deadline may pass whenever a step has to be tried again.
DeadlinePasses == TRUE

BeginTimesOut(c) ==
  /\ Turn(c)
  /\ call[c].phase = "beginning"
  /\ ~Unlocked(c)
  /\ DeadlinePasses
  /\ Settle(c, "STORE_BUSY")
  /\ UNCHANGED <<environment, disk, lock, handle>>

\* Any other error of BEGIN goes to the caller at once; no transaction has begun.
BeginFails(c) ==
  /\ Turn(c)
  /\ call[c].phase = "beginning"
  /\ Settle(c, "REFUSED")
  /\ UNCHANGED <<environment, disk, lock, handle>>

\* Mutant: a retained checkpoint is compared by its version alone.
SameVersion(c) == call[c].expected.version = call[c].seen.version

SameCheckpoint(c) == call[c].expected = call[c].seen

\* #read refuses a ledger beyond MAX_AUDIT_BYTES.
Readable(stored) == Len(stored.bundle) <= MaxAudit

\* Mutant: a transaction stores whatever the operation returns.
AnyFits(stored) == TRUE

\* And a transaction stores none.
Fits(stored) == Len(stored.bundle) <= MaxAudit

\* The ledger was read, the operation has run, its result fits, the file is still there, and UPDATE has
\* written the result into the transaction.
Operate(c) ==
  /\ Turn(c)
  /\ call[c].phase = "operating"
  /\ Readable(call[c].seen)
  /\ call[c].expected # None => SameCheckpoint(c)
  /\ Fits(Result(c))
  /\ FileIntact(c)
  /\ Advance(c, "committing")
  /\ UNCHANGED <<environment, disk, lock, handle>>

\* The operation throws, or a check after it does.
OperateFails(c) ==
  /\ Turn(c)
  /\ call[c].phase = "operating"
  /\ call' = [call EXCEPT ![c].phase = "rolling",
                          ![c].code = IF FileIntact(c) THEN "REFUSED" ELSE "STORE_FILE_REPLACED"]
  /\ UNCHANGED <<environment, disk, lock, handle, queue>>

\* A COMMIT that has something to write waits for outside readers.
HeldUp(c) == Changed(c) /\ reading[FileOf(c)]

\* Mutant: the UPDATE finds no row, and nobody looks at its row count.
WriteNothing(c) == UNCHANGED disk

\* Mutant: the UPDATE goes to whatever file is at the path.
WriteToPath(c) == disk' = [disk EXCEPT ![path] = Result(c)]

Write(c) == disk' = [disk EXCEPT ![FileOf(c)] = Result(c)]

Commit(c) ==
  /\ Turn(c)
  /\ call[c].phase = "committing"
  /\ ~HeldUp(c)
  /\ Write(c)
  /\ lock' = [lock EXCEPT ![FileOf(c)] = None]
  /\ call' = [call EXCEPT ![c].phase = "committed", ![c].took = TRUE]
  /\ UNCHANGED <<environment, handle, queue>>

CommitTimesOut(c) ==
  /\ Turn(c)
  /\ call[c].phase = "committing"
  /\ HeldUp(c)
  /\ DeadlinePasses
  /\ call' = [call EXCEPT ![c].phase = "rolling", ![c].code = "STORE_BUSY"]
  /\ UNCHANGED <<environment, disk, lock, handle, queue>>

\* Any other error of COMMIT: it may have committed or not, and if not, the transaction
\* may still be active.  The handle is quarantined.
CommitFails(c) ==
  /\ Turn(c)
  /\ call[c].phase = "committing"
  /\ handle' = [handle EXCEPT ![HandleOf(c)].uncertain = "COMMIT_UNCERTAIN"]
  /\ \/ /\ ~HeldUp(c)
        /\ Write(c)
        /\ lock' = [lock EXCEPT ![FileOf(c)] = None]
        /\ call' = [call EXCEPT ![c].phase = "rolling", ![c].code = "COMMIT_UNCERTAIN", ![c].took = TRUE]
     \/ /\ lock' \in {lock, [lock EXCEPT ![FileOf(c)] = None]}
        /\ call' = [call EXCEPT ![c].phase = "rolling", ![c].code = "COMMIT_UNCERTAIN"]
        /\ UNCHANGED disk
  /\ UNCHANGED <<environment, queue>>

\* Mutant: an abandoned transaction stays active.
LockKept(c) == lock

LockReleased(c) == [lock EXCEPT ![FileOf(c)] = None]

Rollback(c) ==
  /\ Turn(c)
  /\ call[c].phase = "rolling"
  /\ lock[FileOf(c)] = HandleOf(c)
  /\ lock' = LockReleased(c)
  /\ Settle(c, call[c].code)
  /\ UNCHANGED <<environment, disk, handle>>

\* ROLLBACK fails, if only because no transaction is active any more.  An active one
\* may stay, and with it the lock, until the handle is closed.
RollbackFails(c) ==
  /\ Turn(c)
  /\ call[c].phase = "rolling"
  /\ handle' = [handle EXCEPT ![HandleOf(c)].uncertain = "ROLLBACK_UNCERTAIN"]
  /\ lock' \in {lock, [lock EXCEPT ![FileOf(c)] = IF @ = HandleOf(c) THEN None ELSE @]}
  /\ Settle(c, "ROLLBACK_UNCERTAIN")
  /\ UNCHANGED <<environment, disk>>

Acknowledge(c) ==
  /\ Turn(c)
  /\ call[c].phase = "committed"
  /\ handle' = [handle EXCEPT ![HandleOf(c)].state = IF @ = "opening" THEN "open" ELSE @]
  /\ Settle(c, "ACK")
  /\ UNCHANGED <<environment, disk, lock>>

\* close(), which rolls back what is still active.
DoClose(c) ==
  /\ Turn(c)
  /\ call[c].phase = "queued"
  /\ call[c].kind \in {"close", "abandon"}
  /\ handle' = [handle EXCEPT ![HandleOf(c)].state = "closed"]
  /\ lock' = [lock EXCEPT ![FileOf(c)] = IF @ = HandleOf(c) THEN None ELSE @]
  /\ Settle(c, IF call[c].kind = "close" THEN "CLOSED" ELSE call[c].code)
  /\ UNCHANGED <<environment, disk>>
-----------------------------------------------------------------------------
(***************************************************************************)
(* What happens around the store.                                          *)
(***************************************************************************)
LiveHandles(p) ==
  {h \in Handles : handle[h].process = p /\ handle[h].state \in {"creating", "opening", "open"}}

\* A process dies: its calls get no answer and its transaction is undone.
Crash(p) ==
  /\ LiveHandles(p) # {}
  /\ handle' = [h \in Handles |-> IF h \in LiveHandles(p) THEN [handle[h] EXCEPT !.state = "dead"] ELSE handle[h]]
  /\ lock' = [i \in Inodes |-> IF lock[i] \in LiveHandles(p) THEN None ELSE lock[i]]
  /\ call' = [c \in Calls |->
       IF c \in Range(queue[p])
       THEN [call[c] EXCEPT !.phase = "done", !.code = "LOST", !.seen = None] ELSE call[c]]
  /\ queue' = [queue EXCEPT ![p] = <<>>]
  /\ UNCHANGED <<environment, disk>>

\* Someone else has the file open for reading.
ReaderMoves(i) ==
  /\ i \in Watched
  /\ disk[i] \in Stored
  /\ reading' = [reading EXCEPT ![i] = ~@]
  /\ UNCHANGED <<path, disk, backup, lock, handle, queue, call>>

\* The operator copies the ledger, and puts the copy in the place of the live file.
TakeBackup ==
  /\ path # None
  /\ disk[path] \in Stored
  /\ backup = None
  /\ \E i \in Inodes : disk[i] = None
  /\ backup' = disk[path]
  /\ UNCHANGED <<path, disk, lock, reading, handle, queue, call>>

ReplaceFile(i) ==
  /\ backup # None
  /\ disk[i] = None
  /\ disk' = [disk EXCEPT ![i] = backup]
  /\ path' = i
  /\ UNCHANGED <<backup, lock, reading, handle, queue, call>>

\* How a transaction goes on when BEGIN and COMMIT succeed or find the file busy.
OrderlyStep(c) ==
  \/ Start(c) \/ Begin(c) \/ BeginTimesOut(c) \/ Operate(c) \/ OperateFails(c) \/ Commit(c)
  \/ CommitTimesOut(c) \/ Rollback(c) \/ RollbackFails(c) \/ Acknowledge(c) \/ DoClose(c)

TransactionStep(c) == OrderlyStep(c) \/ BeginFails(c) \/ CommitFails(c)

\* What the event loop of a process does for its calls.
ProcessStep(p) == \E c \in Calls : call[c].phase # "idle" /\ ProcessOf(c) = p /\ TransactionStep(c)

OrderlyProcessStep(p) == \E c \in Calls : call[c].phase # "idle" /\ ProcessOf(c) = p /\ OrderlyStep(c)

ClientStep ==
  \E h \in Handles :
    \/ \E p \in Processes, i \in Inodes : MakeFile(h, p, i)
    \/ Initialise(h) \/ InitialiseFails(h)
    \/ \E c \in Calls :
         \/ \E p \in Processes : \E expected \in {None} \cup Checkpoints : Open(c, h, p, expected)
         \/ \E request \in Requests : Transact(c, h, request)
         \/ Close(c, h)

EnvironmentStep ==
  \/ \E p \in Processes : Crash(p)
  \/ \E i \in Inodes : ReaderMoves(i) \/ ReplaceFile(i)
  \/ TakeBackup

Next ==
  \/ \E p \in Processes : ProcessStep(p)
  \/ ClientStep
  \/ EnvironmentStep

\* A live process runs its timers and the continuations of its promises.  That BEGIN or COMMIT
\* fails is not what it can wait for.
Fairness == \A p \in Processes : WF_vars(OrderlyProcessStep(p))

Spec == Init /\ [][Next]_vars /\ Fairness
-----------------------------------------------------------------------------
\* Every variable keeps its shape.
TypeOK ==
  /\ path \in Inodes \cup {None}
  /\ disk \in [Inodes -> Stored \cup {None, Blank}]
  /\ backup \in Stored \cup {None}
  /\ lock \in [Inodes -> Handles \cup {None}]
  /\ reading \in [Inodes -> BOOLEAN]
  /\ handle \in [Handles -> HandleRecord]
  /\ queue \in [Processes -> Seq(Calls)]
  /\ call \in [Calls -> CallRecord]

\* From its read to its COMMIT a transaction is alone: what it replaces is what it has
\* read, however long it waits in between (store.ts:166-179, the UPDATE ... WHERE
\* version=? whose row count nobody looks at).
NoLostUpdate ==
  \A c \in Calls :
    call[c].phase \in {"operating", "committing"} => call[c].seen = disk[FileOf(c)]

\* An answer is never taken back: what a call was told is in the ledger for good, through
\* crashes, failed calls of others and reopening, and that ledger never grows beyond what
\* can be read again (store.ts:151, 173, 179-180).
AckedIsDurable ==
  \A c \in Calls :
    Answered(c) =>
      /\ IsPrefix(Result(c).bundle, disk[FileOf(c)].bundle)
      /\ Readable(disk[FileOf(c)])

\* No way out of a transaction leaves the write lock behind, except the failed rollback
\* that is reported as such and lasts until the handle is closed (store.ts:110-138, 166-189).
LockNeverLeaks ==
  \A i \in Inodes :
    lock[i] # None =>
      \/ handle[lock[i]].uncertain = "ROLLBACK_UNCERTAIN"
      \/ \E c \in Calls :
           /\ HandleOf(c) = lock[i]
           /\ call[c].phase \in {"operating", "committing", "rolling"}

\* A client that brings back the checkpoint of an answer loses nothing: whatever had been
\* answered on that file by then is in the file that it opens, also when the operator has
\* put an older copy in its place, and two ledgers have gone on from that copy
\* (store.ts:101-105, 174-178).
PinnedOpenLosesNothing ==
  \A c, d, e \in Calls :
    /\ call[c].kind = "open" /\ Answered(c) /\ Answered(d) /\ Answered(e)
    /\ call[c].expected = Result(e)
    /\ FileOf(d) = FileOf(e) /\ Result(d).version <= Result(e).version
    => IsPrefix(Result(d).bundle, disk[FileOf(c)].bundle)

\* A handle in doubt never gives an answer again (store.ts:134-135, 164, 184-187).
QuarantinedNeverAnswers ==
  [][\A c \in Calls :
       Answered(c)' /\ ~Answered(c) => handle[HandleOf(c)].uncertain = None]_vars

\* Once initialised a file only ever grows: nothing reseeds it or takes records off
\* (store.ts:69-91, 178).
LedgerOnlyGrows ==
  [][\A i \in Inodes :
       disk[i] \in Stored => disk'[i] \in Stored /\ IsPrefix(disk[i].bundle, disk'[i].bundle)]_vars

\* Every call ends, however long others hold the lock or the file (store.ts:36-43, 110-138).
CallsSettle == \A c \in Calls : call[c].phase = "queued" ~> call[c].phase = "done"
-----------------------------------------------------------------------------
(***************************************************************************)
(* The store implements AtomicLedger with a ledger for each file.  The     *)
(* moment of effect is the COMMIT; close() is no call of the ledger; and a *)
(* file that the operator puts in the place of the ledger is another one.  *)
(***************************************************************************)
Status(r) ==
  IF r.kind = "close" THEN "idle"
  ELSE IF r.phase # "done" THEN IF r.took THEN "applied" ELSE "pending"
  ELSE IF r.code = "ACK" THEN "answered"
  ELSE IF r.code \in Doubts THEN "unknown"
  ELSE "refused"

Reply(r) ==
  IF Status(r) \in {"applied", "answered"} THEN Effect(r.seen.bundle, r.request).outcome ELSE None

\* The ledger of a call; the ledgers that there are; and what the operator has put aside.
LedgerOf(r) == IF r.kind = "close" THEN None ELSE handle[r.handle].inode

Logs == [i \in {j \in Inodes : disk[j] \in Stored} |-> disk[i].bundle]

Copies == {copy.bundle : copy \in {backup} \ {None}}

Atomic == INSTANCE AtomicLedger WITH
  Ledgers <- Inodes,
  log <- Logs,
  copies <- Copies,
  on <- [c \in Calls |-> LedgerOf(call[c])],
  status <- [c \in Calls |-> Status(call[c])],
  request <- [c \in Calls |-> call[c].request],
  reply <- [c \in Calls |-> Reply(call[c])]

ImplementsAtomicLedger == Atomic!Spec

\* A test says that a live handle refuses a replaced file "rather than acknowledging
\* writes to an unlinked inode": no COMMIT changes a file that the path no longer names
\* (store.test.ts:328, store.ts:177-179).
CommitsReachThePath ==
  [][\A i \in Inodes : disk[i] \in Stored /\ disk'[i] # disk[i] => path = i]_vars
=============================================================================
