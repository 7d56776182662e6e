------------------------- MODULE DurableStoreProofs -------------------------
(***************************************************************************)
(* Proofs about DurableStore, for any number of processes, handles, calls  *)
(* and files, and any operation that adds at most one record; about its    *)
(* refinement of AtomicLedger; and about DurableLedger, for any            *)
(* submissions and any deterministic reducer.                              *)
(***************************************************************************)
EXTENDS DurableLedger, AuditChainProofs

\* Phases in which a call has its turn, and those of them in which its handle serves it.
Active == {"beginning", "operating", "committing", "rolling", "committed"}
Serving == Active \ {"rolling"}
Live == {"opening", "open"}

\* The chain of a process holds unfinished calls, each once, on handles that are not dead.
ChainsInv ==
  \A p \in Processes : \A n \in DOMAIN queue[p] :
    /\ call[queue[p][n]].phase \notin {"idle", "done"}
    /\ ProcessOf(queue[p][n]) = p
    /\ handle[HandleOf(queue[p][n])].state \in Live \cup {"closed"}
    /\ \A m \in DOMAIN queue[p] : queue[p][m] = queue[p][n] => m = n

\* A call that was made is on a handle that was opened; a call that has begun is the first
\* of its chain; and only operations begin.
CallsInv ==
  \A c \in Calls :
    /\ call[c].phase # "idle" => HandleOf(c) \in Handles /\ handle[HandleOf(c)].state # "unused"
    /\ call[c].phase \in Active =>
         /\ queue[ProcessOf(c)] # <<>> /\ Head(queue[ProcessOf(c)]) = c
         /\ call[c].kind \in {"transact", "open"}
    /\ call[c].kind \in {"transact", "open"} => call[c].request \in Requests
    /\ call[c].kind = "open" => call[c].request = Read
    /\ call[c].phase # "done" => call[c].code # "ACK"
    /\ Answered(c) => call[c].kind \in {"transact", "open"}

\* The path names a file that exists.
PathInv == path # None => disk[path] # None

\* A handle that was opened has a file; one that still creates it has it for itself.
HandlesInv ==
  \A h \in Handles :
    /\ handle[h].state # "unused" =>
         handle[h].process \in Processes /\ handle[h].inode \in Inodes /\ disk[handle[h].inode] # None
    /\ handle[h].state = "creating" =>
         /\ disk[handle[h].inode] = Blank
         /\ \A g \in Handles \ {h} : handle[g].state # "unused" => handle[g].inode # handle[h].inode
    /\ handle[h].state \in Live => disk[handle[h].inode] \in Stored

\* Only a live handle has a transaction, and on its own file.
LocksInv ==
  \A i \in Inodes : lock[i] # None => handle[lock[i]].state \in Live /\ handle[lock[i]].inode = i

\* A call that may still commit is on a live handle without doubts, and from its read on
\* it holds the lock.
ServingInv ==
  \A c \in Calls :
    /\ call[c].phase \in Serving =>
         handle[HandleOf(c)].state \in Live /\ handle[HandleOf(c)].uncertain = None
    /\ call[c].phase \in {"operating", "committing"} => lock[FileOf(c)] = HandleOf(c)

\* What a call was told, or is about to be told, is in its file, and is what it expected;
\* what it is about to commit can be read again.
KeptInv ==
  \A c \in Calls :
    /\ call[c].phase = "committed" \/ Answered(c) =>
         /\ call[c].seen \in Stored /\ disk[FileOf(c)] \in Stored
         /\ IsPrefix(Result(c).bundle, disk[FileOf(c)].bundle)
    /\ call[c].phase \in {"committing", "committed"} \/ Answered(c) =>
         call[c].expected \in {None, call[c].seen}
    /\ call[c].phase = "committing" => Readable(Result(c))

\* The inductive invariant: nothing is lost because only the holder of the lock writes,
\* and only the first call of a chain can hold it.
IInv ==
  /\ TypeOK
  /\ ChainsInv
  /\ CallsInv
  /\ PathInv
  /\ HandlesInv
  /\ LocksInv
  /\ ServingInv
  /\ NoLostUpdate
  /\ KeptInv
-----------------------------------------------------------------------------
(***************************************************************************)
(* Prefixes, and what an operation makes of a ledger.                      *)
(***************************************************************************)
LEMMA PrefixPointwise ==
  ASSUME NEW S, NEW s \in Seq(S), NEW t \in Seq(S)
  PROVE  IsPrefix(s, t) <=> Len(s) <= Len(t) /\ \A n \in 1 .. Len(s) : s[n] = t[n]
<1>1. CASE Len(s) > Len(t)
  BY <1>1 DEF IsPrefix
<1>2. CASE Len(s) <= Len(t)
  <2>1. /\ SubSeq(s, 1, Len(s)) \in Seq(S) /\ SubSeq(t, 1, Len(s)) \in Seq(S)
        /\ Len(SubSeq(s, 1, Len(s))) = Len(s) /\ Len(SubSeq(t, 1, Len(s))) = Len(s)
        /\ \A n \in 1 .. Len(s) : SubSeq(s, 1, Len(s))[n] = s[n] /\ SubSeq(t, 1, Len(s))[n] = t[n]
    BY <1>2
  <2>2. SubSeq(s, 1, Len(s)) = SubSeq(t, 1, Len(s)) <=> \A n \in 1 .. Len(s) : s[n] = t[n]
    BY <2>1, SeqEqual
  <2> QED
    BY <1>2, <2>2 DEF IsPrefix
<1> QED
  BY <1>1, <1>2

LEMMA PrefixReflexive ==
  ASSUME NEW s \in Stored
  PROVE  IsPrefix(s.bundle, s.bundle)
<1>1. s.bundle \in Seq(UNION {Range(b) : b \in Bundles})
  BY EffectAssumption DEF Stored
<1> QED
  BY <1>1, PrefixPointwise

LEMMA PrefixTransitive ==
  ASSUME NEW s \in Stored, NEW t \in Stored, NEW u \in Stored,
         IsPrefix(s.bundle, t.bundle), IsPrefix(t.bundle, u.bundle)
  PROVE  IsPrefix(s.bundle, u.bundle)
<1> DEFINE S == UNION {Range(b) : b \in Bundles}
<1>1. s.bundle \in Seq(S) /\ t.bundle \in Seq(S) /\ u.bundle \in Seq(S)
  BY EffectAssumption DEF Stored
<1> HIDE DEF S
<1> QED
  BY <1>1, PrefixPointwise

LEMMA EffectFacts ==
  ASSUME NEW s \in Stored, NEW r \in Requests
  PROVE  /\ After(s, r) \in Stored
         /\ IsPrefix(s.bundle, After(s, r).bundle)
<1> DEFINE S == UNION {Range(b) : b \in Bundles}
           a == Effect(s.bundle, r).bundle
<1>1. s.bundle \in Bundles /\ s.version \in Nat /\ Bundles \subseteq Seq(S)
  BY EffectAssumption DEF Stored
<1>2. a \in Bundles /\ (a = s.bundle \/ (Len(a) = Len(s.bundle) + 1 /\ Front(a) = s.bundle))
  BY <1>1, EffectAssumption
<1>3. After(s, r) \in Stored /\ After(s, r).bundle = a
  BY <1>1, <1>2 DEF After, Stored
<1>4. IsPrefix(s.bundle, a)
  <2>1. s.bundle \in Seq(S) /\ a \in Seq(S)
    BY <1>1, <1>2
  <2>2. CASE a = s.bundle
    BY <2>1, <2>2, PrefixPointwise
  <2>3. CASE Len(a) = Len(s.bundle) + 1 /\ Front(a) = s.bundle
    <3>1. SubSeq(a, 1, Len(a) - 1) = s.bundle
      BY <2>3 DEF Front
    <3>2. \A n \in 1 .. Len(s.bundle) : SubSeq(a, 1, Len(a) - 1)[n] = a[n]
      BY <2>1, <2>3
    <3> QED
      BY <2>1, <2>3, <3>1, <3>2, PrefixPointwise
  <2> QED
    BY <1>2, <2>2, <2>3
<1> QED
  BY <1>3, <1>4

\* Reading leaves a ledger as it is, its version included.
LEMMA ReadFacts ==
  ASSUME NEW s \in Stored
  PROVE  After(s, Read) = s
BY EffectAssumption DEF After, Stored
-----------------------------------------------------------------------------
(***************************************************************************)
(* Who may move.                                                           *)
(***************************************************************************)
LEMMA TurnFacts ==
  ASSUME IInv, NEW c \in Calls, Turn(c)
  PROVE  /\ HandleOf(c) \in Handles /\ handle[HandleOf(c)].state # "unused"
         /\ handle[HandleOf(c)].state \in Live \cup {"closed"}
         /\ ProcessOf(c) \in Processes /\ FileOf(c) \in Inodes
         /\ queue[ProcessOf(c)] \in Seq(Calls) /\ queue[ProcessOf(c)] # <<>>
         /\ queue[ProcessOf(c)][1] = c
         /\ \A d \in Calls : call[d].phase \in Active /\ ProcessOf(d) = ProcessOf(c) => d = c
<1>1. /\ HandleOf(c) \in Handles /\ handle[HandleOf(c)].state # "unused"
      /\ ProcessOf(c) \in Processes /\ FileOf(c) \in Inodes
  BY DEF IInv, Turn, CallsInv, HandlesInv, ProcessOf, FileOf, HandleOf
<1>2. queue[ProcessOf(c)] \in Seq(Calls) /\ queue[ProcessOf(c)] # <<>>
  BY <1>1 DEF IInv, TypeOK, Turn
<1>3. queue[ProcessOf(c)][1] = c
  BY <1>2 DEF Turn
<1>4. \A d \in Calls : call[d].phase \in Active /\ ProcessOf(d) = ProcessOf(c) => d = c
  BY DEF IInv, CallsInv, Turn
<1>5. handle[HandleOf(c)].state \in Live \cup {"closed"}
  BY <1>1, <1>2, <1>3 DEF IInv, ChainsInv
<1> QED
  BY <1>1, <1>2, <1>3, <1>4, <1>5

LEMMA ServingFacts ==
  ASSUME IInv, NEW c \in Calls, call[c].phase \in Serving
  PROVE  /\ HandleOf(c) \in Handles /\ handle[HandleOf(c)].state \in Live
         /\ ProcessOf(c) \in Processes /\ FileOf(c) \in Inodes
         /\ disk[FileOf(c)] \in Stored
         /\ call[c].request \in Requests
         /\ call[c].phase \in {"operating", "committing"} =>
              call[c].seen = disk[FileOf(c)] /\ Result(c) \in Stored
              /\ IsPrefix(disk[FileOf(c)].bundle, Result(c).bundle)
<1>1. /\ HandleOf(c) \in Handles /\ handle[HandleOf(c)].state \in Live
      /\ ProcessOf(c) \in Processes /\ FileOf(c) \in Inodes
      /\ disk[FileOf(c)] \in Stored
      /\ call[c].request \in Requests
  BY DEF IInv, CallsInv, HandlesInv, ServingInv, ProcessOf, FileOf, HandleOf, Serving, Active, Live
<1>2. call[c].phase \in {"operating", "committing"} => call[c].seen = disk[FileOf(c)]
  BY DEF IInv, NoLostUpdate
<1> QED
  BY <1>1, <1>2, EffectFacts DEF Result

-----------------------------------------------------------------------------
(***************************************************************************)
(* What a step of a transaction may do, in one formula: it moves its own   *)
(* call and no other, touches no handle or lock but its own, and writes    *)
(* its result only when it commits.                                        *)
(***************************************************************************)
\* The call itself, and its place on the chain.
OwnCall(c) ==
  LET p == ProcessOf(c)
  IN  /\ call' \in [Calls -> CallRecord]
      /\ \A d \in Calls \ {c} : call'[d] = call[d]
      /\ call'[c].handle = call[c].handle
      /\ call'[c].request = call[c].request
      /\ call'[c].expected = call[c].expected
      /\ \/ /\ queue' = queue
            /\ call'[c].phase \in Active
            /\ call'[c].kind = call[c].kind
            /\ call[c].kind \in {"transact", "open"}
            /\ call'[c].code # "ACK"
         \/ /\ queue' = [queue EXCEPT ![p] = Tail(queue[p])]
            /\ call'[c].phase = "done"
            /\ call'[c].kind = call[c].kind
            /\ call'[c].code = "ACK" => call[c].phase = "committed"
         \/ /\ queue' = [queue EXCEPT ![p] = Append(Tail(queue[p]), c)]
            /\ call'[c].phase = "queued"
            /\ call'[c].kind = "abandon"
            /\ call'[c].code # "ACK"

\* Its handle, its lock and its file.
OwnHandle(c) ==
  LET h == HandleOf(c)
      i == FileOf(c)
  IN  /\ handle' \in [Handles -> HandleRecord]
      /\ \A g \in Handles \ {h} : handle'[g] = handle[g]
      /\ handle'[h].process = handle[h].process
      /\ handle'[h].inode = handle[h].inode
      /\ \/ handle'[h].state = handle[h].state
         \/ handle[h].state = "opening" /\ handle'[h].state = "open"
         \/ handle'[h].state = "closed" /\ lock'[i] # h
      /\ lock' \in [Inodes -> Handles \cup {None}]
      /\ \A j \in Inodes : lock'[j] # lock[j] =>
           j = i /\ lock[j] \in {None, h} /\ lock'[j] \in {None, h}
      /\ lock'[i] = h => lock[i] = h \/ call'[c].phase = "operating"
      /\ disk' = disk \/ (call[c].phase = "committing" /\ disk' = [disk EXCEPT ![i] = Result(c)])

\* What each phase rests on.
OwnPhase(c) ==
  LET h == HandleOf(c)
      i == FileOf(c)
      answered == call'[c].phase = "done" /\ call'[c].code = "ACK"
  IN  /\ call'[c].phase \in Serving => handle'[h].state \in Live /\ handle'[h].uncertain = None
      /\ call'[c].phase \in {"operating", "committing"} =>
           lock'[i] = h /\ call'[c].seen = disk'[i]
      /\ call'[c].phase = "committing" =>
           call'[c].expected \in {None, call'[c].seen} /\ Readable(Result(c)')
      /\ call'[c].phase = "committed" =>
           call[c].phase = "committing" /\ disk'[i] = Result(c) /\ call'[c].seen = call[c].seen
      /\ answered =>
           call[c].phase = "committed" /\ disk' = disk /\ call'[c].seen = call[c].seen

\* The lock goes when the transaction does, unless a failed rollback leaves it.
Holding == {"operating", "committing", "rolling"}

OwnLock(c) ==
  LET h == HandleOf(c)
  IN  /\ call[c].phase \in Holding =>
           \/ call'[c].phase \in Holding
           \/ lock'[FileOf(c)] # h
           \/ handle'[h].uncertain = "ROLLBACK_UNCERTAIN"
      /\ handle[h].uncertain = "ROLLBACK_UNCERTAIN" => handle'[h].uncertain = "ROLLBACK_UNCERTAIN"

OwnStep(c) ==
  /\ Turn(c)
  /\ UNCHANGED environment
  /\ OwnCall(c)
  /\ OwnHandle(c)
  /\ OwnPhase(c)
  /\ OwnLock(c)

\* Taking a call off its chain, or putting it back at the end, leaves every call there once.
LEMMA ChainsStep ==
  ASSUME IInv, NEW c \in Calls, Turn(c), OwnCall(c), OwnHandle(c)
  PROVE  queue' \in [Processes -> Seq(Calls)] /\ ChainsInv'
<1> DEFINE p == ProcessOf(c)
           rest == Tail(queue[p])
           old(d) == handle[call[d].handle].process
           new(d) == handle'[call'[d].handle].process
           sound(d, q) ==
             /\ call'[d].phase \notin {"idle", "done"} /\ new(d) = q
             /\ handle'[call'[d].handle].state \in Live \cup {"closed"}
           Orderly(q, s) ==
             /\ s \in Seq(Calls)
             /\ \A n \in DOMAIN s : sound(s[n], q)
             /\ \A m, n \in DOMAIN s : s[m] = s[n] => m = n
<1>1. /\ p \in Processes /\ queue[p] \in Seq(Calls) /\ queue[p] # <<>> /\ queue[p][1] = c
      /\ queue \in [Processes -> Seq(Calls)] /\ HandleOf(c) \in Handles
  BY TurnFacts DEF IInv, TypeOK
<1>2. \A d \in Calls : call[d].handle \in Handles =>
        /\ new(d) = old(d)
        /\ handle[call[d].handle].state \in Live \cup {"closed"} =>
             handle'[call'[d].handle].state \in Live \cup {"closed"}
  <2> SUFFICES ASSUME NEW d \in Calls, call[d].handle \in Handles
               PROVE  /\ new(d) = old(d)
                      /\ handle[call[d].handle].state \in Live \cup {"closed"} =>
                           handle'[call'[d].handle].state \in Live \cup {"closed"}
    OBVIOUS
  <2>1. call'[d].handle = call[d].handle
    BY DEF OwnCall
  <2> QED
    BY <1>1, <2>1 DEF OwnHandle, HandleOf, Live
<1>3. \A q \in Processes : \A n \in DOMAIN queue[q] :
        /\ queue[q][n] \in Calls
        /\ call[queue[q][n]].phase \notin {"idle", "done"}
        /\ old(queue[q][n]) = q /\ new(queue[q][n]) = q
        /\ handle'[call'[queue[q][n]].handle].state \in Live \cup {"closed"}
        /\ \A m \in DOMAIN queue[q] : queue[q][m] = queue[q][n] => m = n
  BY <1>1, <1>2 DEF IInv, ChainsInv, CallsInv, ProcessOf, HandleOf
<1>4. /\ rest \in Seq(Calls) /\ Len(rest) = Len(queue[p]) - 1
      /\ \A n \in 1 .. Len(rest) : rest[n] = queue[p][n + 1]
  BY <1>1
<1> HIDE DEF p, rest
<1>5. \A n \in 1 .. Len(rest) :
        n + 1 \in DOMAIN queue[p] /\ rest[n] \in Calls /\ rest[n] # c
  BY <1>1, <1>3, <1>4
<1>6. \A d \in Calls \ {c} : call'[d] = call[d]
  BY DEF OwnCall
<1>7. Orderly(p, rest)
  <2>1. \A n \in 1 .. Len(rest) : sound(rest[n], p)
    <3> SUFFICES ASSUME NEW n \in 1 .. Len(rest)
                 PROVE  sound(rest[n], p)
      OBVIOUS
    <3> DEFINE d == rest[n]
    <3>1. d = queue[p][n + 1] /\ n + 1 \in DOMAIN queue[p] /\ call'[d] = call[d]
      BY <1>4, <1>5, <1>6
    <3> HIDE DEF d, new, old
    <3>2. /\ call[d].phase \notin {"idle", "done"} /\ new(d) = p
          /\ handle'[call'[d].handle].state \in Live \union {"closed"}
      BY <1>1, <1>3, <3>1
    <3> QED
      BY <3>1, <3>2 DEF d
  <2>2. \A m, n \in 1 .. Len(rest) : rest[m] = rest[n] => m = n
    BY <1>1, <1>3, <1>4, <1>5
  <2> HIDE DEF sound
  <2> QED
    BY <1>4, <2>1, <2>2
<1>8. \A q \in Processes \ {p} : queue'[q] = queue[q] => Orderly(q, queue'[q])
  <2>1. \A q \in Processes \ {p} : \A n \in DOMAIN queue[q] : queue[q][n] # c
    BY <1>3 DEF p, ProcessOf, HandleOf
  <2> QED
    BY <1>1, <1>3, <1>6, <2>1
<1>9. CASE queue' = queue /\ call'[c].phase \in Active
  <2>1. Orderly(p, queue[p])
    BY <1>1, <1>3, <1>6, <1>9 DEF Active
  <2> QED
    BY <1>1, <1>8, <1>9, <2>1 DEF ChainsInv, ProcessOf, HandleOf
<1>10. CASE queue' = [queue EXCEPT ![p] = rest]
  BY <1>1, <1>7, <1>8, <1>10 DEF ChainsInv, ProcessOf, HandleOf
<1>11. CASE queue' = [queue EXCEPT ![p] = Append(rest, c)] /\ call'[c].phase = "queued"
  <2> DEFINE s == Append(rest, c)
  <2>1. /\ s \in Seq(Calls) /\ Len(s) = Len(rest) + 1 /\ s[Len(s)] = c
        /\ \A n \in 1 .. Len(rest) : s[n] = rest[n]
    BY <1>4
  <2>2. sound(c, p)
    BY <1>1, <1>2, <1>11, TurnFacts DEF p, ProcessOf, HandleOf
  <2> HIDE DEF s
  <2>3. Orderly(p, s)
    <3>1. \A n \in 1 .. Len(s) : n = Len(s) \/ n \in 1 .. Len(rest)
      BY <1>4, <2>1
    <3>2. \A n \in 1 .. Len(s) : sound(s[n], p)
      BY <1>4, <1>7, <1>11, <2>1, <2>2, <3>1
    <3>3. ASSUME NEW m \in 1 .. Len(s), NEW n \in 1 .. Len(s), s[m] = s[n]
          PROVE  m = n
      <4>1. CASE m \in 1 .. Len(rest) /\ n \in 1 .. Len(rest)
        BY <1>4, <1>7, <2>1, <3>3, <4>1
      <4>2. CASE m = Len(s) \/ n = Len(s)
        BY <1>5, <2>1, <3>1, <3>3, <4>2
      <4> QED
        BY <3>1, <4>1, <4>2
    <3> QED
      BY <2>1, <3>2, <3>3
  <2>4. queue' = [queue EXCEPT ![p] = s]
    BY <1>11 DEF s
  <2> QED
    BY <1>1, <1>8, <2>3, <2>4 DEF ChainsInv, ProcessOf, HandleOf
<1> QED
  BY <1>9, <1>10, <1>11 DEF OwnCall, p, rest

LEMMA CallsStep ==
  ASSUME IInv, NEW c \in Calls, OwnStep(c), ChainsInv'
  PROVE  CallsInv'
<1> DEFINE p == ProcessOf(c)
<1>1. /\ Turn(c) /\ p \in Processes /\ queue[p] \in Seq(Calls) /\ queue[p] # <<>> /\ queue[p][1] = c
      /\ queue \in [Processes -> Seq(Calls)] /\ HandleOf(c) \in Handles
      /\ \A d \in Calls : call[d].phase \in Active /\ ProcessOf(d) = ProcessOf(c) => d = c
      /\ handle[HandleOf(c)].state # "unused"
  BY TurnFacts DEF IInv, TypeOK, OwnStep
<1>2. call[c].phase \notin {"idle", "done"}
  BY <1>1 DEF Turn
<1>3. ASSUME NEW d \in Calls, call'[d].phase # "idle"
      PROVE  /\ call'[d].handle = call[d].handle /\ call[d].phase # "idle"
             /\ call'[d].handle \in Handles
             /\ handle'[call'[d].handle].state # "unused"
             /\ handle'[call'[d].handle].process = handle[call[d].handle].process
  <2>1. call'[d].handle = call[d].handle /\ call[d].phase # "idle"
    BY <1>2, <1>3 DEF OwnStep, OwnCall
  <2>2. call[d].handle \in Handles /\ handle[call[d].handle].state # "unused"
    BY <2>1 DEF IInv, CallsInv, HandleOf
  <2> QED
    BY <1>1, <2>1, <2>2 DEF OwnStep, OwnHandle, HandleOf
<1>4. ASSUME NEW d \in Calls, call'[d].phase \in Active
      PROVE  /\ queue'[handle'[call'[d].handle].process] # <<>>
             /\ Head(queue'[handle'[call'[d].handle].process]) = d
             /\ call'[d].kind \in {"transact", "open"}
  <2>1. handle'[call'[d].handle].process = handle[call[d].handle].process
    BY <1>3, <1>4 DEF Active
  <2>2. CASE d = c
    <3>1. /\ queue' = queue
          /\ call'[c].kind \in {"transact", "open"}
      BY <1>4, <2>2 DEF OwnStep, OwnCall, Active
    <3> QED
      BY <1>1, <2>1, <2>2, <3>1 DEF Turn, HandleOf, ProcessOf
  <2>3. CASE d # c
    <3>1. call'[d] = call[d]
      BY <2>3 DEF OwnStep, OwnCall
    <3>2. handle[call[d].handle].process # p /\ handle[call[d].handle].process \in Processes
      BY <1>1, <1>4, <2>3, <3>1 DEF ProcessOf, HandleOf, IInv, CallsInv, HandlesInv, Active
    <3>3. queue'[handle[call[d].handle].process] = queue[handle[call[d].handle].process]
      BY <1>1, <3>2 DEF OwnStep, OwnCall
    <3> QED
      BY <1>4, <2>1, <3>1, <3>3 DEF IInv, CallsInv, HandleOf, ProcessOf
  <2> QED
    BY <2>2, <2>3
<1>5. ASSUME NEW d \in Calls
      PROVE  /\ call'[d].kind \in {"transact", "open"} => call'[d].request \in Requests
             /\ call'[d].kind = "open" => call'[d].request = Read
             /\ call'[d].phase # "done" => call'[d].code # "ACK"
             /\ call'[d].phase = "done" /\ call'[d].code = "ACK" => call'[d].kind \in {"transact", "open"}
  <2>1. CASE d # c
    BY <2>1 DEF OwnStep, OwnCall, IInv, CallsInv, Answered
  <2>2. CASE d = c
    BY <2>2, <1>2 DEF OwnStep, OwnCall, IInv, CallsInv, Answered, Active
  <2> QED
    BY <2>1, <2>2
<1> QED
  BY <1>3, <1>4, <1>5 DEF CallsInv, Answered, HandleOf, ProcessOf

LEMMA HandlesStep ==
  ASSUME IInv, NEW c \in Calls, OwnStep(c)
  PROVE  disk' \in [Inodes -> Stored \cup {None, Blank}] /\ PathInv' /\ HandlesInv' /\ LocksInv'
<1> DEFINE h == HandleOf(c)
           i == FileOf(c)
<1>1. /\ h \in Handles /\ handle[h].state # "unused" /\ i \in Inodes /\ handle[h].inode = i
      /\ disk \in [Inodes -> Stored \cup {None, Blank}]
  BY TurnFacts DEF IInv, TypeOK, OwnStep, FileOf
<1>2. \/ disk' = disk
      \/ handle[h].state \in Live /\ Result(c) \in Stored /\ disk' = [disk EXCEPT ![i] = Result(c)]
  BY ServingFacts DEF OwnStep, OwnHandle, Serving, Active
<1>3. disk' \in [Inodes -> Stored \cup {None, Blank}]
  BY <1>1, <1>2
<1>4. \A j \in Inodes : /\ disk[j] # None => disk'[j] # None
                        /\ disk[j] \in Stored => disk'[j] \in Stored
                        /\ j # i => disk'[j] = disk[j]
  BY <1>1, <1>2, StoreAssumption
<1>5. \A g \in Handles : /\ handle'[g].process = handle[g].process
                         /\ handle'[g].inode = handle[g].inode
                         /\ handle'[g].state = "unused" <=> handle[g].state = "unused"
                         /\ handle'[g].state \in Live => handle[g].state \in Live
                         /\ handle'[g].state = "creating" => handle[g].state = "creating"
                         /\ handle[g].state \in Live /\ handle'[g].state \notin Live =>
                              g = h /\ lock'[i] # h
  BY <1>1 DEF OwnStep, OwnHandle, Live
<1>6. HandlesInv'
  <2> SUFFICES ASSUME NEW g \in Handles
               PROVE  /\ handle'[g].state # "unused" =>
                           /\ handle'[g].process \in Processes /\ handle'[g].inode \in Inodes
                           /\ disk'[handle'[g].inode] # None
                      /\ handle'[g].state = "creating" =>
                           /\ disk'[handle'[g].inode] = Blank
                           /\ \A f \in Handles \ {g} :
                                handle'[f].state # "unused" => handle'[f].inode # handle'[g].inode
                      /\ handle'[g].state \in Live => disk'[handle'[g].inode] \in Stored
    BY DEF HandlesInv
  <2>1. CASE handle[g].state = "unused"
    BY <1>5, <2>1 DEF Live
  <2>2. CASE handle[g].state # "unused"
    <3>1. handle[g].inode \in Inodes /\ handle[g].process \in Processes /\ disk[handle[g].inode] # None
      BY <2>2 DEF IInv, HandlesInv
    <3>2. handle[g].state = "creating" =>
            /\ disk'[handle[g].inode] = Blank
            /\ \A f \in Handles \ {g} : handle[f].state # "unused" => handle[f].inode # handle[g].inode
      BY <1>1, <1>2, <1>4, <3>1 DEF IInv, HandlesInv, Live
    <3>3. handle[g].state \in Live => disk[handle[g].inode] \in Stored
      BY DEF IInv, HandlesInv
    <3> QED
      BY <1>4, <1>5, <3>1, <3>2, <3>3
  <2> QED
    BY <2>1, <2>2
<1>7. LocksInv'
  <2> SUFFICES ASSUME NEW j \in Inodes, lock'[j] # None
               PROVE  handle'[lock'[j]].state \in Live /\ handle'[lock'[j]].inode = j
    BY DEF LocksInv
  <2>1. CASE lock'[j] = lock[j]
    <3>1. lock[j] \in Handles
      BY <2>1 DEF IInv, TypeOK
    <3> QED
      BY <1>1, <1>5, <2>1, <3>1 DEF IInv, LocksInv
  <2>2. CASE lock'[j] # lock[j]
    <3>1. j = i /\ lock'[j] = h /\ lock[j] # h
      BY <2>2 DEF OwnStep, OwnHandle
    <3>2. call'[c].phase = "operating"
      BY <3>1 DEF OwnStep, OwnHandle
    <3> QED
      BY <1>1, <1>5, <3>1, <3>2 DEF OwnStep, OwnPhase, Serving, Active
  <2> QED
    BY <2>1, <2>2
<1>8. PathInv'
  BY <1>4 DEF IInv, TypeOK, PathInv, OwnStep, environment
<1> QED
  BY <1>3, <1>6, <1>7, <1>8

\* Another call that has begun runs in another process, on another handle.
LEMMA OthersUntouched ==
  ASSUME IInv, NEW c \in Calls, OwnStep(c), NEW d \in Calls, d # c, call[d].phase \in Active
  PROVE  /\ HandleOf(d) \in Handles /\ HandleOf(d) # HandleOf(c)
         /\ handle'[HandleOf(d)] = handle[HandleOf(d)]
<1>1. ProcessOf(d) # ProcessOf(c)
  BY TurnFacts DEF OwnStep
<1>2. HandleOf(d) \in Handles /\ HandleOf(d) # HandleOf(c)
  BY <1>1 DEF IInv, CallsInv, Active, Serving, ProcessOf
<1> QED
  BY <1>2 DEF OwnStep, OwnHandle

LEMMA ServingStep ==
  ASSUME IInv, NEW c \in Calls, OwnStep(c)
  PROVE  ServingInv' /\ NoLostUpdate'
<1> DEFINE h == HandleOf(c)
           i == FileOf(c)
<1>1. /\ Turn(c) /\ h \in Handles /\ i \in Inodes
      /\ call'[c].handle = h /\ handle'[h].inode = i
  BY TurnFacts DEF OwnStep, OwnCall, OwnHandle, HandleOf, FileOf
<1> SUFFICES ASSUME NEW d \in Calls
             PROVE  /\ call'[d].phase \in Serving =>
                         handle'[call'[d].handle].state \in Live /\ handle'[call'[d].handle].uncertain = None
                    /\ call'[d].phase \in {"operating", "committing"} =>
                         /\ lock'[handle'[call'[d].handle].inode] = call'[d].handle
                         /\ call'[d].seen = disk'[handle'[call'[d].handle].inode]
  BY DEF ServingInv, NoLostUpdate, HandleOf, FileOf
<1>2. CASE d = c
  BY <1>1, <1>2 DEF OwnStep, OwnPhase, Serving, Active
<1>3. CASE d # c
  <2>1. call'[d] = call[d]
    BY <1>3 DEF OwnStep, OwnCall
  <2>2. ASSUME call[d].phase \in Serving
        PROVE  /\ call[d].handle \in Handles /\ call[d].handle # h
               /\ handle'[call[d].handle] = handle[call[d].handle]
               /\ handle[call[d].handle].state \in Live /\ handle[call[d].handle].uncertain = None
    BY <1>3, <2>2, OthersUntouched DEF IInv, ServingInv, HandleOf, Active, Serving
  <2>3. ASSUME call[d].phase \in {"operating", "committing"}
        PROVE  LET j == handle[call[d].handle].inode
               IN  lock'[j] = call[d].handle /\ call[d].seen = disk'[j]
    <3> DEFINE j == handle[call[d].handle].inode
    <3>1. call[d].phase \in Serving
      BY <2>3 DEF Serving, Active
    <3>2. j \in Inodes /\ lock[j] = call[d].handle /\ call[d].seen = disk[j]
      BY <2>3, <3>1, ServingFacts DEF IInv, ServingInv, NoLostUpdate, HandleOf, FileOf
    <3>3. lock'[j] = lock[j]
      BY <2>2, <3>1, <3>2, StoreAssumption DEF OwnStep, OwnHandle
    <3>4. j # i \/ disk' = disk
      BY <2>2, <3>1, <3>2 DEF OwnStep, OwnHandle, IInv, ServingInv
    <3>5. disk'[j] = disk[j]
      BY <3>2, <3>4 DEF OwnStep, OwnHandle, IInv, TypeOK
    <3> QED
      BY <3>2, <3>3, <3>5
  <2> QED
    BY <2>1, <2>2, <2>3 DEF Serving, Active
<1> QED
  BY <1>2, <1>3

LEMMA KeptStep ==
  ASSUME IInv, NEW c \in Calls, OwnStep(c)
  PROVE  KeptInv'
<1> DEFINE told(d) == call[d].phase = "committed" \/ (call[d].phase = "done" /\ call[d].code = "ACK")
           file(d) == handle[call[d].handle].inode
           outcome(d) == After(call[d].seen, call[d].request)
<1>1. /\ Turn(c) /\ FileOf(c) \in Inodes /\ HandleOf(c) \in Handles
  BY TurnFacts DEF OwnStep
<1>2. ASSUME NEW j \in Inodes, disk[j] \in Stored
      PROVE  disk'[j] \in Stored /\ IsPrefix(disk[j].bundle, disk'[j].bundle)
  <2>1. \A s \in Stored : IsPrefix(s.bundle, s.bundle)
    BY PrefixReflexive
  <2>2. CASE disk' = disk
    BY <1>2, <2>1, <2>2
  <2>3. CASE call[c].phase = "committing" /\ disk' = [disk EXCEPT ![FileOf(c)] = Result(c)]
    <3>1. Result(c) \in Stored /\ IsPrefix(disk[FileOf(c)].bundle, Result(c).bundle)
      BY <2>3, ServingFacts DEF Serving, Active
    <3> QED
      BY <1>1, <1>2, <2>1, <2>3, <3>1 DEF IInv, TypeOK
  <2> QED
    BY <2>2, <2>3 DEF OwnStep, OwnHandle
<1>3. ASSUME NEW d \in Calls, told(d), call'[d].phase \in {"committed", "done"}, call'[d] = call[d]
      PROVE  /\ file(d) \in Inodes /\ handle'[call'[d].handle].inode = file(d)
             /\ disk'[file(d)] \in Stored
             /\ IsPrefix(outcome(d).bundle, disk'[file(d)].bundle)
  <2>1. call[d].handle \in Handles /\ file(d) \in Inodes
    BY <1>3 DEF IInv, CallsInv, HandlesInv, HandleOf
  <2>2. handle'[call[d].handle].inode = file(d)
    BY <2>1 DEF OwnStep, OwnHandle
  <2>3. /\ call[d].seen \in Stored /\ disk[file(d)] \in Stored /\ call[d].request \in Requests
        /\ IsPrefix(outcome(d).bundle, disk[file(d)].bundle)
    BY <1>3 DEF IInv, CallsInv, KeptInv, Answered, FileOf, HandleOf, Result, Active
  <2>4. outcome(d) \in Stored
    BY <2>3, EffectFacts
  <2> QED
    BY <1>2, <1>3, <2>1, <2>2, <2>3, <2>4, PrefixTransitive
<1> SUFFICES ASSUME NEW d \in Calls
             PROVE  LET f == handle'[call'[d].handle].inode
                        t == call'[d].phase = "committed" \/ (call'[d].phase = "done" /\ call'[d].code = "ACK")
                    IN  /\ t => /\ call'[d].seen \in Stored /\ disk'[f] \in Stored
                                /\ IsPrefix(After(call'[d].seen, call'[d].request).bundle, disk'[f].bundle)
                        /\ t \/ call'[d].phase = "committing" =>
                             call'[d].expected \in {None, call'[d].seen}
                        /\ call'[d].phase = "committing" => Readable(Result(d)')
  BY DEF KeptInv, Answered, HandleOf, FileOf, Result
<1>4. CASE d # c
  <2>1. call'[d] = call[d]
    BY <1>4 DEF OwnStep, OwnCall
  <2>2. Result(d)' = Result(d)
    BY <2>1 DEF Result
  <2> QED
    BY <1>3, <2>1, <2>2 DEF IInv, KeptInv, Answered, Result, HandleOf, FileOf
<1>5. CASE d = c
  <2>1. /\ call'[c].request = call[c].request /\ call'[c].expected = call[c].expected
        /\ handle'[call'[c].handle].inode = file(c)
    BY <1>1 DEF OwnStep, OwnCall, OwnHandle, HandleOf
  <2>2. CASE call'[c].phase = "committing"
    BY <1>5, <2>1, <2>2 DEF OwnStep, OwnPhase
  <2>3. CASE call'[c].phase = "committed"
    <3>1. /\ call[c].phase = "committing" /\ disk'[file(c)] = Result(c) /\ call'[c].seen = call[c].seen
      BY <2>3 DEF OwnStep, OwnPhase, FileOf, HandleOf
    <3>2. call[c].seen \in Stored /\ Result(c) \in Stored
      BY <3>1, ServingFacts DEF Serving, Active
    <3>3. call[c].expected \in {None, call[c].seen}
      BY <3>1 DEF IInv, KeptInv
    <3> QED
      BY <1>5, <2>1, <2>3, <3>1, <3>2, <3>3, PrefixReflexive DEF Result
  <2>4. CASE call'[c].phase = "done" /\ call'[c].code = "ACK"
    <3>1. call[c].phase = "committed" /\ disk' = disk /\ call'[c].seen = call[c].seen
      BY <2>4 DEF OwnStep, OwnPhase
    <3>2. /\ call[c].seen \in Stored /\ disk[file(c)] \in Stored
          /\ IsPrefix(outcome(c).bundle, disk[file(c)].bundle)
          /\ call[c].expected \in {None, call[c].seen}
      BY <3>1 DEF IInv, KeptInv, Result, FileOf, HandleOf
    <3> QED
      BY <1>5, <2>1, <2>4, <3>1, <3>2
  <2> QED
    BY <1>5, <2>2, <2>3, <2>4
<1> QED
  BY <1>4, <1>5

LEMMA OwnStepKeepsIInv ==
  ASSUME IInv, NEW c \in Calls, OwnStep(c)
  PROVE  IInv'
<1>1. queue' \in [Processes -> Seq(Calls)] /\ ChainsInv'
  BY ChainsStep DEF OwnStep
<1>2. CallsInv'
  BY <1>1, CallsStep
<1>3. disk' \in [Inodes -> Stored \cup {None, Blank}] /\ PathInv' /\ HandlesInv' /\ LocksInv'
  BY HandlesStep
<1>4. ServingInv' /\ NoLostUpdate'
  BY ServingStep
<1>5. KeptInv'
  BY KeptStep
<1>6. TypeOK'
  BY <1>1, <1>3 DEF IInv, TypeOK, OwnStep, OwnCall, OwnHandle, environment
<1> QED
  BY <1>1, <1>2, <1>3, <1>4, <1>5, <1>6 DEF IInv

-----------------------------------------------------------------------------
(***************************************************************************)
(* Every step of a transaction is such a step.                             *)
(***************************************************************************)
\* A call that ends, or goes back to its chain to close the handle it failed to open.
LEMMA SettleIsOwnCall ==
  ASSUME IInv, NEW c \in Calls, Turn(c), NEW code \in Codes \cup {None}, Settle(c, code),
         code = "ACK" => call[c].phase = "committed"
  PROVE  /\ OwnCall(c)
         /\ call'[c].phase \in {"queued", "done"}
         /\ call'[c].phase = "done" => call'[c].code = code
         /\ code = "ACK" => call'[c].seen = call[c].seen
<1>1. call \in [Calls -> CallRecord] /\ call[c] \in CallRecord
  BY DEF IInv, TypeOK
<1>2. ASSUME code # "ACK", call[c].kind = "open",
             call' = [call EXCEPT ![c].phase = "queued", ![c].kind = "abandon", ![c].code = code],
             queue' = [queue EXCEPT ![ProcessOf(c)] = Append(Tail(queue[ProcessOf(c)]), c)]
      PROVE  OwnCall(c) /\ call'[c].phase = "queued"
  BY <1>1, <1>2 DEF OwnCall, CallRecord, Phases
<1>3. ASSUME call' = [call EXCEPT ![c].phase = "done", ![c].code = code,
                                  ![c].seen = IF code = "ACK" THEN @ ELSE None],
             queue' = [queue EXCEPT ![ProcessOf(c)] = Tail(queue[ProcessOf(c)])]
      PROVE  /\ OwnCall(c) /\ call'[c].phase = "done" /\ call'[c].code = code
             /\ code = "ACK" => call'[c].seen = call[c].seen
  BY <1>1, <1>3 DEF OwnCall, CallRecord, Phases
<1> QED
  BY <1>2, <1>3 DEF Settle

LEMMA StartIsOwnStep ==
  ASSUME IInv, NEW c \in Calls, Start(c)
  PROVE  OwnStep(c)
<1>1. /\ Turn(c) /\ call[c].phase = "queued" /\ call[c].kind \in {"transact", "open"}
      /\ UNCHANGED <<environment, disk, lock, handle>>
  BY DEF Start
<1>2. HandleOf(c) \in Handles /\ FileOf(c) \in Inodes /\ handle[HandleOf(c)] \in HandleRecord
  BY <1>1, TurnFacts DEF IInv, TypeOK
<1>3. call \in [Calls -> CallRecord] /\ call[c] \in CallRecord
  BY DEF IInv, TypeOK
<1>4. CASE StartCode(c) = None
  <2>1. /\ call' = [call EXCEPT ![c].phase = "beginning"] /\ UNCHANGED queue
        /\ handle[HandleOf(c)].state \in Live /\ handle[HandleOf(c)].uncertain = None
    <3>1. StartCode(c) \notin {"STORE_CLOSED", "STORE_FILE_REPLACED"}
      BY <1>4, StoreAssumption DEF Codes, Refusals
    <3>2. handle[HandleOf(c)].state # "closed" /\ handle[HandleOf(c)].uncertain = None
      BY <1>4, <3>1 DEF StartCode, Quarantine
    <3> QED
      BY <1>1, <1>4, <3>2, TurnFacts DEF Start, Advance
  <2>2. /\ call' \in [Calls -> CallRecord] /\ \A d \in Calls \ {c} : call'[d] = call[d]
        /\ call'[c] = [call[c] EXCEPT !.phase = "beginning"]
    BY <1>3, <2>1 DEF CallRecord, Phases
  <2>3. OwnCall(c)
    BY <1>1, <1>3, <2>1, <2>2 DEF OwnCall, CallRecord, IInv, CallsInv, Active
  <2>4. OwnHandle(c)
    BY <1>1, <2>1 DEF OwnHandle, IInv, TypeOK
  <2>5. OwnPhase(c)
    BY <1>1, <1>3, <2>1, <2>2 DEF OwnPhase, CallRecord, Serving, Active
  <2>6. OwnLock(c)
    BY <1>1 DEF OwnLock, Holding
  <2> QED
    BY <1>1, <2>3, <2>4, <2>5, <2>6 DEF OwnStep
<1>5. CASE StartCode(c) # None
  <2>1. StartCode(c) \in Codes \ {"ACK"} /\ Settle(c, StartCode(c))
    BY <1>2, <1>5 DEF Start, StartCode, Quarantine, HandleRecord, Codes, Refusals, Doubts
  <2>2. OwnCall(c) /\ call'[c].phase \in {"queued", "done"} /\ (call'[c].phase = "done" => call'[c].code # "ACK")
    BY <1>1, <2>1, SettleIsOwnCall
  <2>3. OwnHandle(c)
    BY <1>1 DEF OwnHandle, IInv, TypeOK
  <2>4. OwnPhase(c)
    BY <2>2 DEF OwnPhase, Serving, Active
  <2>5. OwnLock(c)
    BY <1>1 DEF OwnLock, Holding
  <2> QED
    BY <1>1, <2>2, <2>3, <2>4, <2>5 DEF OwnStep
<1> QED
  BY <1>4, <1>5

LEMMA BeginIsOwnStep ==
  ASSUME IInv, NEW c \in Calls, Begin(c)
  PROVE  OwnStep(c)
<1>1. /\ Turn(c) /\ call[c].phase = "beginning" /\ lock[FileOf(c)] = None
      /\ lock' = [lock EXCEPT ![FileOf(c)] = HandleOf(c)]
      /\ call' = [call EXCEPT ![c].phase = "operating", ![c].seen = disk[FileOf(c)]]
      /\ UNCHANGED <<environment, disk, handle, queue>>
  BY DEF Begin, Unlocked
<1>2. /\ HandleOf(c) \in Handles /\ FileOf(c) \in Inodes /\ disk[FileOf(c)] \in Stored
      /\ call[c].kind \in {"transact", "open"}
      /\ handle[HandleOf(c)].state \in Live /\ handle[HandleOf(c)].uncertain = None
  BY <1>1, ServingFacts DEF Serving, Active, IInv, CallsInv, ServingInv
<1>3. call \in [Calls -> CallRecord] /\ call[c] \in CallRecord
  BY DEF IInv, TypeOK
<1>4. /\ call' \in [Calls -> CallRecord] /\ \A d \in Calls \ {c} : call'[d] = call[d]
      /\ call'[c] = [call[c] EXCEPT !.phase = "operating", !.seen = disk[FileOf(c)]]
  BY <1>1, <1>2, <1>3 DEF CallRecord, Phases
<1>5. OwnCall(c)
  BY <1>1, <1>2, <1>3, <1>4 DEF OwnCall, CallRecord, IInv, CallsInv, Active
<1>6. OwnHandle(c)
  BY <1>1, <1>2, <1>3, <1>4 DEF OwnHandle, CallRecord, IInv, TypeOK
<1>7. OwnPhase(c)
  BY <1>1, <1>2, <1>3, <1>4 DEF OwnPhase, CallRecord, Serving, Active, IInv, TypeOK
<1>8. OwnLock(c)
  BY <1>1 DEF OwnLock, Holding
<1> QED
  BY <1>1, <1>5, <1>6, <1>7, <1>8 DEF OwnStep

LEMMA NoBeginIsOwnStep ==
  ASSUME IInv, NEW c \in Calls, BeginTimesOut(c) \/ BeginFails(c)
  PROVE  OwnStep(c)
<1>1. PICK code \in {"STORE_BUSY", "REFUSED"} :
        Turn(c) /\ Settle(c, code) /\ UNCHANGED <<environment, disk, lock, handle>>
  BY DEF BeginTimesOut, BeginFails
<1>2. OwnCall(c) /\ call'[c].phase \in {"queued", "done"} /\ (call'[c].phase = "done" => call'[c].code # "ACK")
  BY <1>1, SettleIsOwnCall DEF Codes, Refusals
<1>3. OwnHandle(c)
  BY <1>1 DEF OwnHandle, IInv, TypeOK
<1>4. OwnPhase(c)
  BY <1>2 DEF OwnPhase, Serving, Active
<1>5. OwnLock(c)
  BY DEF BeginTimesOut, BeginFails, OwnLock, Holding
<1> QED
  BY <1>1, <1>2, <1>3, <1>4, <1>5 DEF OwnStep

\* The steps between the read and the COMMIT that leave the handle and the lock alone.
LEMMA OperateIsOwnStep ==
  ASSUME IInv, NEW c \in Calls, Operate(c) \/ OperateFails(c) \/ CommitTimesOut(c)
  PROVE  OwnStep(c)
<1>1. /\ Turn(c) /\ call[c].phase \in {"operating", "committing"}
      /\ UNCHANGED <<environment, disk, lock, handle, queue>>
  BY DEF Operate, OperateFails, CommitTimesOut, Advance
<1>2. /\ HandleOf(c) \in Handles /\ FileOf(c) \in Inodes /\ disk[FileOf(c)] \in Stored
      /\ call[c].kind \in {"transact", "open"} /\ call[c].code # "ACK"
      /\ handle[HandleOf(c)].state \in Live /\ handle[HandleOf(c)].uncertain = None
      /\ lock[FileOf(c)] = HandleOf(c) /\ call[c].seen = disk[FileOf(c)]
  BY <1>1, ServingFacts DEF Serving, Active, IInv, CallsInv, ServingInv
<1>3. call \in [Calls -> CallRecord] /\ call[c] \in CallRecord
  BY DEF IInv, TypeOK
<1>4. OwnHandle(c)
  BY <1>1 DEF OwnHandle, IInv, TypeOK
<1>5. CASE Operate(c)
  <2>1. /\ call' = [call EXCEPT ![c].phase = "committing"] /\ call[c].expected \in {None, call[c].seen}
        /\ Readable(Result(c))
    BY <1>5 DEF Operate, Advance, SameCheckpoint, Fits, Readable
  <2>2. /\ call' \in [Calls -> CallRecord] /\ \A d \in Calls \ {c} : call'[d] = call[d]
        /\ call'[c] = [call[c] EXCEPT !.phase = "committing"]
    BY <1>3, <2>1 DEF CallRecord, Phases
  <2>3. OwnCall(c)
    BY <1>1, <1>2, <1>3, <2>2 DEF OwnCall, CallRecord, Active
  <2>4. OwnPhase(c)
    <3>1. Result(c)' = Result(c)
      BY <1>3, <2>2 DEF Result, CallRecord
    <3> QED
      BY <1>1, <1>2, <1>3, <2>1, <2>2, <3>1 DEF OwnPhase, CallRecord, Serving, Active
  <2>5. OwnLock(c)
    BY <1>1, <1>3, <2>2 DEF OwnLock, Holding, CallRecord
  <2> QED
    BY <1>1, <1>4, <2>3, <2>4, <2>5 DEF OwnStep
<1>6. CASE OperateFails(c) \/ CommitTimesOut(c)
  <2>1. PICK code \in {"REFUSED", "STORE_FILE_REPLACED", "STORE_BUSY"} :
          call' = [call EXCEPT ![c].phase = "rolling", ![c].code = code]
    BY <1>6 DEF OperateFails, CommitTimesOut
  <2>2. /\ call' \in [Calls -> CallRecord] /\ \A d \in Calls \ {c} : call'[d] = call[d]
        /\ call'[c] = [call[c] EXCEPT !.phase = "rolling", !.code = code]
    BY <1>3, <2>1 DEF CallRecord, Phases, Codes, Refusals
  <2>3. OwnCall(c)
    BY <1>1, <1>2, <1>3, <2>2 DEF OwnCall, CallRecord, Active
  <2>4. OwnPhase(c)
    BY <1>3, <2>2 DEF OwnPhase, CallRecord, Serving, Active
  <2>5. OwnLock(c)
    BY <1>1, <1>3, <2>2 DEF OwnLock, Holding, CallRecord
  <2> QED
    BY <1>1, <1>4, <2>3, <2>4, <2>5 DEF OwnStep
<1> QED
  BY <1>5, <1>6

LEMMA CommitIsOwnStep ==
  ASSUME IInv, NEW c \in Calls, Commit(c)
  PROVE  OwnStep(c)
<1> DEFINE i == FileOf(c)
<1>1. /\ Turn(c) /\ call[c].phase = "committing"
      /\ disk' = [disk EXCEPT ![i] = Result(c)]
      /\ lock' = [lock EXCEPT ![i] = None]
      /\ call' = [call EXCEPT ![c].phase = "committed", ![c].took = TRUE]
      /\ UNCHANGED <<environment, handle, queue>>
  BY DEF Commit, Write
<1>2. /\ HandleOf(c) \in Handles /\ i \in Inodes
      /\ call[c].kind \in {"transact", "open"} /\ call[c].code # "ACK"
      /\ handle[HandleOf(c)].state \in Live /\ handle[HandleOf(c)].uncertain = None
      /\ lock[i] = HandleOf(c)
  BY <1>1, ServingFacts DEF Serving, Active, IInv, CallsInv, ServingInv
<1>3. call \in [Calls -> CallRecord] /\ call[c] \in CallRecord /\ disk \in [Inodes -> Stored \cup {None, Blank}]
      /\ lock \in [Inodes -> Handles \cup {None}]
  BY DEF IInv, TypeOK
<1>4. /\ call' \in [Calls -> CallRecord] /\ \A d \in Calls \ {c} : call'[d] = call[d]
      /\ call'[c] = [call[c] EXCEPT !.phase = "committed", !.took = TRUE]
  BY <1>1, <1>3 DEF CallRecord, Phases
<1>5. OwnCall(c)
  BY <1>1, <1>2, <1>3, <1>4 DEF OwnCall, CallRecord, Active
<1>6. OwnHandle(c)
  BY <1>1, <1>2, <1>3, <1>4, StoreAssumption DEF OwnHandle, IInv, TypeOK
<1>7. OwnPhase(c)
  BY <1>1, <1>2, <1>3, <1>4 DEF OwnPhase, CallRecord, Serving, Active
<1>8. OwnLock(c)
  BY <1>1, <1>2, <1>3, StoreAssumption DEF OwnLock
<1> QED
  BY <1>1, <1>5, <1>6, <1>7, <1>8 DEF OwnStep

LEMMA CommitFailsIsOwnStep ==
  ASSUME IInv, NEW c \in Calls, CommitFails(c)
  PROVE  OwnStep(c)
<1> DEFINE h == HandleOf(c)
           i == FileOf(c)
<1>1. /\ Turn(c) /\ call[c].phase = "committing"
      /\ handle' = [handle EXCEPT ![h].uncertain = "COMMIT_UNCERTAIN"]
      /\ disk' = disk \/ disk' = [disk EXCEPT ![i] = Result(c)]
      /\ lock' = lock \/ lock' = [lock EXCEPT ![i] = None]
      /\ \/ call' = [call EXCEPT ![c].phase = "rolling", ![c].code = "COMMIT_UNCERTAIN", ![c].took = TRUE]
         \/ call' = [call EXCEPT ![c].phase = "rolling", ![c].code = "COMMIT_UNCERTAIN"]
      /\ UNCHANGED <<environment, queue>>
  BY DEF CommitFails, Write
<1>2. /\ h \in Handles /\ i \in Inodes
      /\ call[c].kind \in {"transact", "open"} /\ call[c].code # "ACK"
      /\ handle[h].state \in Live
      /\ lock[i] = h
  BY <1>1, ServingFacts DEF Serving, Active, IInv, CallsInv, ServingInv
<1>3. /\ call \in [Calls -> CallRecord] /\ call[c] \in CallRecord
      /\ handle \in [Handles -> HandleRecord] /\ handle[h] \in HandleRecord
      /\ lock \in [Inodes -> Handles \cup {None}]
  BY <1>2 DEF IInv, TypeOK
<1>4. /\ call' \in [Calls -> CallRecord] /\ \A d \in Calls \ {c} : call'[d] = call[d]
      /\ \/ call'[c] = [call[c] EXCEPT !.phase = "rolling", !.code = "COMMIT_UNCERTAIN", !.took = TRUE]
         \/ call'[c] = [call[c] EXCEPT !.phase = "rolling", !.code = "COMMIT_UNCERTAIN"]
  <2>1. CASE call' = [call EXCEPT ![c].phase = "rolling", ![c].code = "COMMIT_UNCERTAIN", ![c].took = TRUE]
    BY <1>3, <2>1 DEF CallRecord, Phases, Codes, Doubts
  <2>2. CASE call' = [call EXCEPT ![c].phase = "rolling", ![c].code = "COMMIT_UNCERTAIN"]
    BY <1>3, <2>2 DEF CallRecord, Phases, Codes, Doubts
  <2> QED
    BY <1>1, <2>1, <2>2
<1>5. /\ handle' \in [Handles -> HandleRecord] /\ \A g \in Handles \ {h} : handle'[g] = handle[g]
      /\ handle'[h] = [handle[h] EXCEPT !.uncertain = "COMMIT_UNCERTAIN"]
  BY <1>1, <1>2, <1>3 DEF HandleRecord
<1>6. OwnCall(c)
  BY <1>1, <1>2, <1>3, <1>4 DEF OwnCall, CallRecord, Active
<1>7. call'[c].phase = "rolling"
  BY <1>3, <1>4 DEF CallRecord
<1>8. OwnHandle(c)
  BY <1>1, <1>2, <1>3, <1>5, StoreAssumption DEF OwnHandle, HandleRecord
<1>9. OwnPhase(c)
  BY <1>7 DEF OwnPhase, Serving, Active
<1>10. OwnLock(c)
  BY <1>1, <1>7, StoreAssumption DEF OwnLock, Holding, IInv, ServingInv, Serving, Active, Codes, Doubts
<1> QED
  BY <1>1, <1>6, <1>8, <1>9, <1>10 DEF OwnStep

LEMMA RollbackIsOwnStep ==
  ASSUME IInv, NEW c \in Calls, Rollback(c)
  PROVE  OwnStep(c)
<1> DEFINE i == FileOf(c)
<1>1. /\ Turn(c) /\ call[c].phase = "rolling" /\ lock[i] = HandleOf(c)
      /\ lock' = [lock EXCEPT ![i] = None] /\ Settle(c, call[c].code)
      /\ UNCHANGED <<environment, disk, handle>>
  BY DEF Rollback, LockReleased
<1>2. HandleOf(c) \in Handles /\ i \in Inodes
  BY <1>1, TurnFacts
<1>3. call[c].code \in Codes \cup {None} /\ call[c].code # "ACK"
  BY <1>1 DEF IInv, TypeOK, CallRecord, CallsInv
<1>4. OwnCall(c) /\ call'[c].phase \in {"queued", "done"} /\ (call'[c].phase = "done" => call'[c].code # "ACK")
  BY <1>1, <1>3, SettleIsOwnCall
<1>5. OwnHandle(c)
  BY <1>1, <1>2, StoreAssumption DEF OwnHandle, IInv, TypeOK
<1>6. OwnPhase(c)
  BY <1>4 DEF OwnPhase, Serving, Active
<1>7. OwnLock(c)
  BY <1>1, <1>2, StoreAssumption DEF OwnLock, IInv, TypeOK
<1> QED
  BY <1>1, <1>4, <1>5, <1>6, <1>7 DEF OwnStep

LEMMA RollbackFailsIsOwnStep ==
  ASSUME IInv, NEW c \in Calls, RollbackFails(c)
  PROVE  OwnStep(c)
<1> DEFINE h == HandleOf(c)
           i == FileOf(c)
<1>1. /\ Turn(c) /\ "ROLLBACK_UNCERTAIN" \in Codes /\ Settle(c, "ROLLBACK_UNCERTAIN")
      /\ handle' = [handle EXCEPT ![h].uncertain = "ROLLBACK_UNCERTAIN"]
      /\ lock' \in {lock, [lock EXCEPT ![i] = IF @ = h THEN None ELSE @]}
      /\ UNCHANGED <<environment, disk>>
  BY DEF RollbackFails, Codes, Doubts
<1>2. /\ h \in Handles /\ i \in Inodes
      /\ handle \in [Handles -> HandleRecord] /\ handle[h] \in HandleRecord
      /\ lock \in [Inodes -> Handles \cup {None}]
  BY <1>1, TurnFacts DEF IInv, TypeOK
<1>3. OwnCall(c) /\ call'[c].phase \in {"queued", "done"} /\ (call'[c].phase = "done" => call'[c].code # "ACK")
  BY <1>1, SettleIsOwnCall
<1>4. /\ handle' \in [Handles -> HandleRecord] /\ \A g \in Handles \ {h} : handle'[g] = handle[g]
      /\ handle'[h] = [handle[h] EXCEPT !.uncertain = "ROLLBACK_UNCERTAIN"]
  BY <1>1, <1>2 DEF HandleRecord
<1>5. OwnHandle(c)
  BY <1>1, <1>2, <1>4, StoreAssumption DEF OwnHandle, HandleRecord
<1>6. OwnPhase(c)
  BY <1>3 DEF OwnPhase, Serving, Active
<1>7. OwnLock(c)
  BY <1>2, <1>4 DEF OwnLock, HandleRecord
<1> QED
  BY <1>1, <1>3, <1>5, <1>6, <1>7 DEF OwnStep

LEMMA AcknowledgeIsOwnStep ==
  ASSUME IInv, NEW c \in Calls, Acknowledge(c)
  PROVE  OwnStep(c)
<1> DEFINE h == HandleOf(c)
<1>1. /\ Turn(c) /\ call[c].phase = "committed" /\ "ACK" \in Codes /\ Settle(c, "ACK")
      /\ handle' = [handle EXCEPT ![h].state = IF @ = "opening" THEN "open" ELSE @]
      /\ UNCHANGED <<environment, disk, lock>>
  BY DEF Acknowledge, Codes
<1>2. /\ h \in Handles /\ handle \in [Handles -> HandleRecord] /\ handle[h] \in HandleRecord
      /\ lock \in [Inodes -> Handles \cup {None}]
  BY <1>1, TurnFacts DEF IInv, TypeOK
<1>3. /\ OwnCall(c) /\ call'[c].phase \in {"queued", "done"}
      /\ call'[c].seen = call[c].seen
  BY <1>1, SettleIsOwnCall
<1>4. /\ handle' \in [Handles -> HandleRecord] /\ \A g \in Handles \ {h} : handle'[g] = handle[g]
      /\ handle'[h] = [handle[h] EXCEPT !.state = IF @ = "opening" THEN "open" ELSE @]
  BY <1>1, <1>2 DEF HandleRecord, HandleStates
<1>5. OwnHandle(c)
  BY <1>1, <1>2, <1>4 DEF OwnHandle, HandleRecord
<1>6. OwnPhase(c)
  BY <1>1, <1>3 DEF OwnPhase, Serving, Active
<1>7. OwnLock(c)
  BY <1>1, <1>2, <1>4 DEF OwnLock, Holding, HandleRecord
<1> QED
  BY <1>1, <1>3, <1>5, <1>6, <1>7 DEF OwnStep

LEMMA DoCloseIsOwnStep ==
  ASSUME IInv, NEW c \in Calls, DoClose(c)
  PROVE  OwnStep(c)
<1> DEFINE h == HandleOf(c)
           i == FileOf(c)
           code == IF call[c].kind = "close" THEN "CLOSED" ELSE call[c].code
<1>1. /\ Turn(c) /\ call[c].phase = "queued" /\ Settle(c, code)
      /\ handle' = [handle EXCEPT ![h].state = "closed"]
      /\ lock' = [lock EXCEPT ![i] = IF @ = h THEN None ELSE @]
      /\ UNCHANGED <<environment, disk>>
  BY DEF DoClose
<1>2. /\ h \in Handles /\ i \in Inodes
      /\ handle \in [Handles -> HandleRecord] /\ handle[h] \in HandleRecord
      /\ lock \in [Inodes -> Handles \cup {None}]
  BY <1>1, TurnFacts DEF IInv, TypeOK
<1>3. code \in Codes \cup {None} /\ code # "ACK"
  BY <1>1 DEF IInv, TypeOK, CallRecord, CallsInv, Codes
<1>4. OwnCall(c) /\ call'[c].phase \in {"queued", "done"} /\ (call'[c].phase = "done" => call'[c].code # "ACK")
  BY <1>1, <1>3, SettleIsOwnCall
<1>5. /\ handle' \in [Handles -> HandleRecord] /\ \A g \in Handles \ {h} : handle'[g] = handle[g]
      /\ handle'[h] = [handle[h] EXCEPT !.state = "closed"]
  BY <1>1, <1>2 DEF HandleRecord, HandleStates
<1>6. OwnHandle(c)
  BY <1>1, <1>2, <1>5, StoreAssumption DEF OwnHandle, HandleRecord
<1>7. OwnPhase(c)
  BY <1>4 DEF OwnPhase, Serving, Active
<1>8. OwnLock(c)
  BY <1>1, <1>2, <1>5 DEF OwnLock, Holding, HandleRecord
<1> QED
  BY <1>1, <1>4, <1>6, <1>7, <1>8 DEF OwnStep

LEMMA TransactionIsOwnStep ==
  ASSUME IInv, NEW c \in Calls, TransactionStep(c)
  PROVE  OwnStep(c)
BY StartIsOwnStep, BeginIsOwnStep, NoBeginIsOwnStep, OperateIsOwnStep, CommitIsOwnStep,
   CommitFailsIsOwnStep, RollbackIsOwnStep, RollbackFailsIsOwnStep, AcknowledgeIsOwnStep,
   DoCloseIsOwnStep DEF TransactionStep, OrderlyStep

-----------------------------------------------------------------------------
(***************************************************************************)
(* The steps around the calls.                                             *)
(***************************************************************************)
\* Files and handles that come about change nothing for the calls that were made.
LEMMA QuietStep ==
  ASSUME IInv, TypeOK', PathInv', HandlesInv', UNCHANGED <<lock, queue, call>>,
         \A g \in Handles : handle[g].state # "unused" =>
           /\ handle'[g].state # "unused" /\ handle'[g].process = handle[g].process
           /\ handle'[g].inode = handle[g].inode /\ handle'[g].uncertain = handle[g].uncertain
           /\ handle[g].state \in Live \cup {"closed"} => handle'[g].state = handle[g].state,
         \A j \in Inodes : disk[j] \in Stored => disk'[j] = disk[j]
  PROVE  IInv'
<1>1. \A d \in Calls : call[d].phase # "idle" =>
        /\ call[d].handle \in Handles /\ handle[call[d].handle].state # "unused"
        /\ handle[call[d].handle].inode \in Inodes
  BY DEF IInv, CallsInv, HandlesInv, HandleOf
<1>2. ChainsInv'
  <2> SUFFICES ASSUME NEW p \in Processes, NEW n \in DOMAIN queue[p]
               PROVE  /\ call[queue[p][n]].phase \notin {"idle", "done"}
                      /\ handle'[call[queue[p][n]].handle].process = p
                      /\ handle'[call[queue[p][n]].handle].state \in Live \cup {"closed"}
                      /\ \A m \in DOMAIN queue[p] : queue[p][m] = queue[p][n] => m = n
    BY DEF ChainsInv, ProcessOf, HandleOf
  <2>1. queue[p][n] \in Calls
    BY DEF IInv, TypeOK
  <2>2. /\ call[queue[p][n]].phase \notin {"idle", "done"}
        /\ handle[call[queue[p][n]].handle].process = p
        /\ handle[call[queue[p][n]].handle].state \in Live \cup {"closed"}
        /\ \A m \in DOMAIN queue[p] : queue[p][m] = queue[p][n] => m = n
    BY DEF IInv, ChainsInv, ProcessOf, HandleOf
  <2> QED
    BY <1>1, <2>1, <2>2
<1>3. CallsInv'
  BY <1>1 DEF IInv, CallsInv, ProcessOf, HandleOf, Answered, Active
<1>4. LocksInv'
  BY DEF IInv, TypeOK, LocksInv, Live
<1>5. ServingInv' /\ NoLostUpdate'
  <2> SUFFICES ASSUME NEW d \in Calls
               PROVE  /\ call[d].phase \in Serving =>
                           handle'[call[d].handle].state \in Live /\ handle'[call[d].handle].uncertain = None
                      /\ call[d].phase \in {"operating", "committing"} =>
                           /\ lock[handle'[call[d].handle].inode] = call[d].handle
                           /\ call[d].seen = disk'[handle'[call[d].handle].inode]
    BY DEF ServingInv, NoLostUpdate, HandleOf, FileOf
  <2>1. CASE call[d].phase \in Serving
    BY <1>1, <2>1, ServingFacts DEF IInv, ServingInv, NoLostUpdate, HandleOf, FileOf, Serving, Active, Live
  <2>2. CASE call[d].phase \notin Serving
    BY <2>2 DEF Serving, Active
  <2> QED
    BY <2>1, <2>2
<1>6. KeptInv'
  <2> SUFFICES ASSUME NEW d \in Calls,
                      call[d].phase = "committed" \/ (call[d].phase = "done" /\ call[d].code = "ACK")
               PROVE  LET j == handle'[call[d].handle].inode
                      IN  /\ call[d].seen \in Stored /\ disk'[j] \in Stored
                          /\ IsPrefix(After(call[d].seen, call[d].request).bundle, disk'[j].bundle)
    BY DEF IInv, KeptInv, Answered, HandleOf, FileOf, Result
  <2> QED
    BY <1>1 DEF IInv, KeptInv, Answered, HandleOf, FileOf, Result
<1> QED
  BY <1>2, <1>3, <1>4, <1>5, <1>6 DEF IInv

LEMMA FilesKeepIInv ==
  ASSUME IInv, (\E i \in Inodes : ReaderMoves(i) \/ ReplaceFile(i)) \/ TakeBackup
  PROVE  IInv'
<1>1. UNCHANGED <<lock, handle, queue, call>>
  BY DEF ReaderMoves, ReplaceFile, TakeBackup
<1>2. disk' = disk \/ \E i \in Inodes : disk[i] = None /\ backup # None /\ disk' = [disk EXCEPT ![i] = backup]
  BY DEF ReaderMoves, ReplaceFile, TakeBackup
<1>3. TypeOK'
  BY <1>1, <1>2 DEF IInv, TypeOK, ReaderMoves, ReplaceFile, TakeBackup
<1>4. \A j \in Inodes : disk[j] # None => disk'[j] = disk[j]
  BY <1>2 DEF IInv, TypeOK
<1>5. PathInv' /\ HandlesInv'
  <2>1. path' = path \/ disk'[path'] # None
    BY StoreAssumption DEF IInv, TypeOK, ReaderMoves, ReplaceFile, TakeBackup
  <2> QED
    BY <1>1, <1>4, <2>1, StoreAssumption DEF IInv, TypeOK, PathInv, HandlesInv, Live
<1> QED
  BY <1>1, <1>3, <1>4, <1>5, QuietStep, StoreAssumption

LEMMA MakeFileKeepsIInv ==
  ASSUME IInv, NEW h \in Handles, NEW p \in Processes, NEW i \in Inodes, MakeFile(h, p, i)
  PROVE  IInv'
<1>1. /\ handle[h].state = "unused" /\ disk[i] = None
      /\ path' = i /\ disk' = [disk EXCEPT ![i] = Blank]
      /\ handle' = [handle EXCEPT ![h] = [state |-> "creating", process |-> p, inode |-> i, uncertain |-> None]]
      /\ UNCHANGED <<backup, lock, reading, queue, call>>
  BY DEF MakeFile, Vacant
<1>2. handle \in [Handles -> HandleRecord] /\ disk \in [Inodes -> Stored \cup {None, Blank}]
  BY DEF IInv, TypeOK
<1>3. /\ handle'[h] = [state |-> "creating", process |-> p, inode |-> i, uncertain |-> None]
      /\ \A g \in Handles \ {h} : handle'[g] = handle[g]
      /\ handle' \in [Handles -> HandleRecord]
      /\ disk'[i] = Blank /\ \A j \in Inodes \ {i} : disk'[j] = disk[j]
  BY <1>1, <1>2 DEF HandleRecord, HandleStates
<1>4. TypeOK'
  BY <1>1, <1>2, <1>3 DEF IInv, TypeOK
<1>5. \A g \in Handles : handle[g].state # "unused" =>
        g # h /\ handle[g].inode # i /\ handle[g].inode \in Inodes /\ handle[g].process \in Processes
  BY <1>1 DEF IInv, HandlesInv
<1>6. PathInv' /\ HandlesInv'
  BY <1>1, <1>2, <1>3, <1>5, StoreAssumption DEF IInv, PathInv, HandlesInv, Live
<1> QED
  BY <1>1, <1>3, <1>4, <1>5, <1>6, QuietStep, StoreAssumption

LEMMA InitialiseKeepsIInv ==
  ASSUME IInv, NEW h \in Handles, Initialise(h) \/ InitialiseFails(h)
  PROVE  IInv'
<1> DEFINE i == handle[h].inode
           empty == [version |-> 0, bundle |-> <<>>]
<1>1. /\ handle[h].state = "creating"
      /\ UNCHANGED <<path, backup, reading, lock, queue, call>>
      /\ \/ disk' = [disk EXCEPT ![i] = empty] /\ handle' = [handle EXCEPT ![h].state = "open"]
         \/ disk' \in {disk, [disk EXCEPT ![i] = empty]} /\ handle' = [handle EXCEPT ![h].state = "closed"]
  BY DEF Initialise, InitialiseFails, environment
<1>2. empty \in Stored
  BY EffectAssumption DEF Stored
<1> HIDE DEF empty
<1>3. /\ handle \in [Handles -> HandleRecord] /\ disk \in [Inodes -> Stored \cup {None, Blank}]
      /\ handle[h] \in HandleRecord
  BY DEF IInv, TypeOK
<1>4. /\ i \in Inodes /\ disk[i] = Blank
      /\ \A g \in Handles \ {h} : handle[g].state # "unused" => handle[g].inode # i
  BY <1>1 DEF IInv, HandlesInv
<1>5. /\ handle' \in [Handles -> HandleRecord] /\ \A g \in Handles \ {h} : handle'[g] = handle[g]
      /\ \/ handle'[h] = [handle[h] EXCEPT !.state = "open"] /\ disk'[i] = empty
         \/ handle'[h] = [handle[h] EXCEPT !.state = "closed"]
  BY <1>1, <1>3, <1>4 DEF HandleRecord, HandleStates
<1>6. /\ handle'[h].inode = i /\ handle'[h].process = handle[h].process
      /\ handle'[h].uncertain = handle[h].uncertain
      /\ \/ handle'[h].state = "open" /\ disk'[i] = empty
         \/ handle'[h].state = "closed"
  BY <1>3, <1>5 DEF HandleRecord
<1>7. disk'[i] \in {Blank, empty} /\ \A j \in Inodes \ {i} : disk'[j] = disk[j]
  BY <1>1, <1>3, <1>4
<1>8. TypeOK'
  BY <1>1, <1>2, <1>3, <1>5 DEF IInv, TypeOK
<1>9. PathInv' /\ HandlesInv'
  <2>1. PathInv'
    BY <1>1, <1>2, <1>7, StoreAssumption DEF IInv, TypeOK, PathInv
  <2>2. HandlesInv'
    BY <1>1, <1>2, <1>3, <1>4, <1>5, <1>6, <1>7, StoreAssumption DEF IInv, HandlesInv, Live
  <2> QED
    BY <2>1, <2>2
<1>10. \A j \in Inodes : disk[j] \in Stored => disk'[j] = disk[j]
  BY <1>4, <1>7, StoreAssumption
<1>11. \A g \in Handles : handle[g].state # "unused" =>
           /\ handle'[g].state # "unused" /\ handle'[g].process = handle[g].process
           /\ handle'[g].inode = handle[g].inode /\ handle'[g].uncertain = handle[g].uncertain
           /\ handle[g].state \in Live \cup {"closed"} => handle'[g].state = handle[g].state
  BY <1>1, <1>5, <1>6 DEF Live
<1> QED
  BY <1>1, <1>8, <1>9, <1>10, <1>11, QuietStep

\* A call that a client makes joins the chain of the process of its handle.
LEMMA EnqueueStep ==
  ASSUME IInv, NEW c \in Calls, NEW h \in Handles, NEW p \in Processes,
         NEW kind \in {"transact", "open", "close"}, NEW request, NEW expected \in Stored \cup {None},
         kind \in {"transact", "open"} => request \in Requests,
         kind = "open" => request = Read,
         kind = "close" => request = None,
         Enqueue(c, h, p, kind, request, expected),
         handle' \in [Handles -> HandleRecord],
         handle'[h].process = p, handle'[h].state \in Live \cup {"closed"},
         \A g \in Handles : handle[g].state # "unused" => handle'[g] = handle[g],
         HandlesInv', UNCHANGED <<environment, disk, lock>>
  PROVE  IInv'
<1> DEFINE s == Append(queue[p], c)
<1>1. /\ call \in [Calls -> CallRecord] /\ call[c].phase = "idle"
      /\ queue \in [Processes -> Seq(Calls)] /\ queue[p] \in Seq(Calls)
  BY DEF IInv, TypeOK, Enqueue
<1>2. /\ call' \in [Calls -> CallRecord] /\ \A d \in Calls \ {c} : call'[d] = call[d]
      /\ call'[c] = [phase |-> "queued", kind |-> kind, handle |-> h, request |-> request,
                     expected |-> expected, seen |-> None, code |-> None, took |-> FALSE]
  BY <1>1 DEF Enqueue, NoCall, CallRecord, Phases
<1>3. /\ call'[c].phase = "queued" /\ call'[c].kind = kind /\ call'[c].handle = h
      /\ call'[c].request = request /\ call'[c].code = None
  BY <1>2
<1>4. queue' = [queue EXCEPT ![p] = s]
  BY DEF Enqueue
<1>5. /\ s \in Seq(Calls) /\ Len(s) = Len(queue[p]) + 1 /\ s[Len(s)] = c
      /\ \A n \in 1 .. Len(queue[p]) : s[n] = queue[p][n]
      /\ \A n \in 1 .. Len(s) : n = Len(s) \/ n \in 1 .. Len(queue[p])
  BY <1>1
<1> HIDE DEF s
<1>6. \A d \in Calls : call[d].phase # "idle" =>
        /\ d # c /\ call'[d] = call[d]
        /\ call[d].handle \in Handles /\ handle[call[d].handle].state # "unused"
        /\ handle'[call[d].handle] = handle[call[d].handle]
        /\ handle[call[d].handle].process \in Processes /\ handle[call[d].handle].inode \in Inodes
  BY <1>1, <1>2 DEF IInv, CallsInv, HandlesInv, HandleOf
<1>7. \A q \in Processes : \A n \in DOMAIN queue[q] :
        /\ queue[q][n] \in Calls /\ queue[q][n] # c
        /\ call'[queue[q][n]].phase \notin {"idle", "done"}
        /\ handle'[call'[queue[q][n]].handle].process = q
        /\ handle'[call'[queue[q][n]].handle].state \in Live \cup {"closed"}
        /\ \A m \in DOMAIN queue[q] : queue[q][m] = queue[q][n] => m = n
  <2> SUFFICES ASSUME NEW q \in Processes, NEW n \in DOMAIN queue[q]
               PROVE  /\ queue[q][n] \in Calls /\ queue[q][n] # c
                      /\ call'[queue[q][n]].phase \notin {"idle", "done"}
                      /\ handle'[call'[queue[q][n]].handle].process = q
                      /\ handle'[call'[queue[q][n]].handle].state \in Live \cup {"closed"}
                      /\ \A m \in DOMAIN queue[q] : queue[q][m] = queue[q][n] => m = n
    OBVIOUS
  <2>1. /\ queue[q][n] \in Calls /\ call[queue[q][n]].phase \notin {"idle", "done"}
        /\ handle[call[queue[q][n]].handle].process = q
        /\ handle[call[queue[q][n]].handle].state \in Live \cup {"closed"}
        /\ \A m \in DOMAIN queue[q] : queue[q][m] = queue[q][n] => m = n
    BY <1>1 DEF IInv, ChainsInv, ProcessOf, HandleOf
  <2> QED
    BY <1>6, <2>1
<1>8. ChainsInv'
  <2> SUFFICES ASSUME NEW q \in Processes, NEW n \in DOMAIN queue'[q]
               PROVE  /\ call'[queue'[q][n]].phase \notin {"idle", "done"}
                      /\ handle'[call'[queue'[q][n]].handle].process = q
                      /\ handle'[call'[queue'[q][n]].handle].state \in Live \cup {"closed"}
                      /\ \A m \in DOMAIN queue'[q] : queue'[q][m] = queue'[q][n] => m = n
    BY DEF ChainsInv, ProcessOf, HandleOf
  <2>1. CASE q # p
    BY <1>1, <1>4, <1>7, <2>1
  <2>2. CASE q = p
    <3>1. queue'[q] = s /\ n \in 1 .. Len(s)
      BY <1>1, <1>4, <1>5, <2>2
    <3>2. CASE n = Len(s)
      <4>1. s[n] = c /\ \A m \in 1 .. Len(s) : s[m] = c => m = n
        BY <1>5, <1>7, <3>2
      <4> QED
        BY <1>3, <2>2, <3>1, <4>1
    <3>3. CASE n \in 1 .. Len(queue[p])
      <4>1. n \in DOMAIN queue[p] /\ s[n] = queue[p][n] /\ s[n] # c
        BY <1>1, <1>5, <1>7, <3>3
      <4>2. \A m \in 1 .. Len(s) : s[m] = s[n] => m = n
        BY <1>1, <1>5, <1>7, <4>1
      <4> QED
        BY <1>5, <1>7, <2>2, <3>1, <4>1, <4>2
    <3> QED
      BY <1>5, <3>1, <3>2, <3>3
  <2> QED
    BY <2>1, <2>2
<1>9. CallsInv'
  <2> SUFFICES ASSUME NEW d \in Calls
               PROVE  /\ call'[d].phase # "idle" =>
                           call'[d].handle \in Handles /\ handle'[call'[d].handle].state # "unused"
                      /\ call'[d].phase \in Active =>
                           /\ queue'[handle'[call'[d].handle].process] # <<>>
                           /\ Head(queue'[handle'[call'[d].handle].process]) = d
                           /\ call'[d].kind \in {"transact", "open"}
                      /\ call'[d].kind \in {"transact", "open"} => call'[d].request \in Requests
                      /\ call'[d].kind = "open" => call'[d].request = Read
                      /\ call'[d].phase # "done" => call'[d].code # "ACK"
                      /\ call'[d].phase = "done" /\ call'[d].code = "ACK" =>
                           call'[d].kind \in {"transact", "open"}
    BY DEF CallsInv, ProcessOf, HandleOf, Answered
  <2>1. CASE d = c
    BY <1>3, <2>1, StoreAssumption DEF Active, Live, Codes
  <2>2. CASE d # c
    <3>1. call'[d] = call[d]
      BY <1>2, <2>2
    <3>2. ASSUME call[d].phase \in Active
          PROVE  /\ queue'[handle'[call[d].handle].process] # <<>>
                 /\ Head(queue'[handle'[call[d].handle].process]) = d
      <4> DEFINE q == handle[call[d].handle].process
      <4>1. q \in Processes /\ queue[q] # <<>> /\ Head(queue[q]) = d /\ handle'[call[d].handle].process = q
        BY <1>6, <3>2 DEF IInv, CallsInv, ProcessOf, HandleOf, Active
      <4>2. CASE q # p
        BY <1>1, <1>4, <4>1, <4>2
      <4>3. CASE q = p
        BY <1>1, <1>4, <1>5, <4>1, <4>3
      <4> QED
        BY <4>2, <4>3
    <3> QED
      BY <1>6, <3>1, <3>2 DEF IInv, CallsInv, ProcessOf, HandleOf, Answered
  <2> QED
    BY <2>1, <2>2
<1>10. LocksInv'
  BY DEF IInv, TypeOK, LocksInv, Live
<1>11. ServingInv' /\ NoLostUpdate' /\ KeptInv'
  <2> SUFFICES ASSUME NEW d \in Calls
               PROVE  /\ (call[d].phase \in Serving =>
                           handle[HandleOf(d)].state \in Live /\ handle[HandleOf(d)].uncertain = None)'
                      /\ (call[d].phase \in {"operating", "committing"} =>
                           lock[FileOf(d)] = HandleOf(d) /\ call[d].seen = disk[FileOf(d)])'
                      /\ (call[d].phase = "committed" \/ Answered(d) =>
                           /\ call[d].seen \in Stored /\ disk[FileOf(d)] \in Stored
                           /\ IsPrefix(Result(d).bundle, disk[FileOf(d)].bundle))'
                      /\ (call[d].phase \in {"committing", "committed"} \/ Answered(d) =>
                           call[d].expected \in {None, call[d].seen})'
                      /\ (call[d].phase = "committing" => Readable(Result(d)))'
    BY DEF ServingInv, NoLostUpdate, KeptInv
  <2>1. CASE call[d].phase = "idle"
    <3>1. call'[d].phase \in {"idle", "queued"}
      BY <1>2, <1>3, <2>1
    <3> QED
      BY <3>1 DEF Serving, Active, Answered
  <2>2. CASE call[d].phase # "idle"
    BY <1>6, <2>2 DEF IInv, ServingInv, NoLostUpdate, KeptInv, HandleOf, FileOf, Answered, Result
  <2> QED
    BY <2>1, <2>2
<1>12. PathInv'
  BY DEF IInv, PathInv, environment
<1>13. TypeOK'
  BY <1>1, <1>2, <1>4, <1>5 DEF IInv, TypeOK, environment
<1> QED
  BY <1>8, <1>9, <1>10, <1>11, <1>12, <1>13 DEF IInv

LEMMA CallsKeepIInv ==
  ASSUME IInv, NEW c \in Calls, NEW h \in Handles,
         \/ \E p \in Processes : \E expected \in {None} \cup Checkpoints : Open(c, h, p, expected)
         \/ \E request \in Requests : Transact(c, h, request)
         \/ Close(c, h)
  PROVE  IInv'
<1>1. handle \in [Handles -> HandleRecord]
  BY DEF IInv, TypeOK
<1>2. CASE \E request \in Requests : Transact(c, h, request)
  <2>1. PICK request \in Requests : Transact(c, h, request)
    BY <1>2
  <2>2. /\ handle[h].state \in {"open", "closed"} /\ handle[h].process \in Processes
        /\ Enqueue(c, h, handle[h].process, "transact", request, None)
        /\ UNCHANGED <<environment, disk, lock, handle>>
    BY <2>1 DEF Transact, IInv, HandlesInv
  <2>3. HandlesInv'
    BY <2>2 DEF IInv, HandlesInv
  <2> QED
    BY <1>1, <2>2, <2>3, EnqueueStep DEF Live
<1>3. CASE Close(c, h)
  <2>1. /\ handle[h].state = "open" /\ handle[h].process \in Processes
        /\ Enqueue(c, h, handle[h].process, "close", None, None)
        /\ UNCHANGED <<environment, disk, lock, handle>>
    BY <1>3 DEF Close, IInv, HandlesInv
  <2>2. HandlesInv'
    BY <2>1 DEF IInv, HandlesInv
  <2> QED
    BY <1>1, <2>1, <2>2, EnqueueStep DEF Live
<1>4. CASE \E p \in Processes : \E expected \in {None} \cup Checkpoints : Open(c, h, p, expected)
  <2>1. PICK p \in Processes : \E expected \in {None} \cup Checkpoints : Open(c, h, p, expected)
    BY <1>4
  <2>2. PICK expected \in {None} \cup Checkpoints : Open(c, h, p, expected)
    BY <2>1
  <2>3. \A d \in Calls : Answered(d) => Result(d) \in Stored
    BY EffectFacts DEF IInv, CallsInv, KeptInv, Result
  <2>4. expected \in Stored \cup {None}
    BY <2>3 DEF Checkpoints
  <2>5. /\ handle[h].state = "unused" /\ path # None /\ disk[path] # Blank
        /\ handle' = [handle EXCEPT ![h] = [state |-> "opening", process |-> p, inode |-> path, uncertain |-> None]]
        /\ Enqueue(c, h, p, "open", Read, expected)
        /\ UNCHANGED <<environment, disk, lock>>
    BY <2>2 DEF Open, Initialised
  <2>6. path \in Inodes /\ disk[path] # None
    BY <2>5 DEF IInv, TypeOK, PathInv
  <2>7. /\ handle'[h] = [state |-> "opening", process |-> p, inode |-> path, uncertain |-> None]
        /\ \A g \in Handles \ {h} : handle'[g] = handle[g]
        /\ handle' \in [Handles -> HandleRecord]
    BY <1>1, <2>5, <2>6 DEF HandleRecord, HandleStates
  <2>8. HandlesInv'
    BY <2>5, <2>6, <2>7, StoreAssumption DEF IInv, TypeOK, HandlesInv, Live
  <2> QED
    BY <2>4, <2>5, <2>7, <2>8, EnqueueStep, EffectAssumption DEF Live
<1> QED
  BY <1>2, <1>3, <1>4

LEMMA CrashKeepsIInv ==
  ASSUME IInv, NEW p \in Processes, Crash(p)
  PROVE  IInv'
<1> DEFINE lost == Range(queue[p])
           died == LiveHandles(p)
<1>1. /\ handle \in [Handles -> HandleRecord] /\ call \in [Calls -> CallRecord]
      /\ queue \in [Processes -> Seq(Calls)] /\ lock \in [Inodes -> Handles \cup {None}]
  BY DEF IInv, TypeOK
<1>2. /\ handle' = [h \in Handles |-> IF h \in died THEN [handle[h] EXCEPT !.state = "dead"] ELSE handle[h]]
      /\ lock' = [i \in Inodes |-> IF lock[i] \in died THEN None ELSE lock[i]]
      /\ call' = [c \in Calls |->
           IF c \in lost
           THEN [call[c] EXCEPT !.phase = "done", !.code = "LOST", !.seen = None] ELSE call[c]]
      /\ queue' = [queue EXCEPT ![p] = <<>>]
      /\ UNCHANGED <<path, disk, backup, reading>>
  BY DEF Crash, environment
<1>3. /\ handle' \in [Handles -> HandleRecord]
      /\ \A h \in Handles : /\ handle'[h].process = handle[h].process
                            /\ handle'[h].inode = handle[h].inode
                            /\ handle'[h].state \in {handle[h].state, "dead"}
                            /\ handle[h].state = "unused" => handle'[h].state = "unused"
                            /\ h \notin died => handle'[h] = handle[h]
  BY <1>1, <1>2 DEF LiveHandles, HandleRecord, HandleStates
<1>4. /\ call' \in [Calls -> CallRecord]
      /\ \A c \in Calls : /\ call'[c].handle = call[c].handle
                          /\ call'[c].kind = call[c].kind
                          /\ call'[c].request = call[c].request
                          /\ c \in lost => call'[c].phase = "done" /\ call'[c].code = "LOST"
                          /\ c \notin lost => call'[c] = call[c]
  <2> HIDE DEF lost
  <2>1. ASSUME NEW c \in Calls
        PROVE  /\ call'[c] \in CallRecord
               /\ call'[c].handle = call[c].handle
               /\ call'[c].kind = call[c].kind
               /\ call'[c].request = call[c].request
               /\ c \in lost => call'[c].phase = "done" /\ call'[c].code = "LOST"
               /\ c \notin lost => call'[c] = call[c]
    <3>1. call[c] \in CallRecord
      BY <1>1
    <3>2. CASE c \in lost
      <4>1. call'[c] = [call[c] EXCEPT !.phase = "done", !.code = "LOST", !.seen = None]
        BY <1>2, <3>2
      <4> QED
        BY <3>1, <3>2, <4>1 DEF CallRecord, Phases, Codes, Doubts
    <3>3. CASE c \notin lost
      BY <1>2, <3>1, <3>3
    <3> QED
      BY <3>2, <3>3
  <2> QED
    BY <1>2, <2>1
<1>5. queue' \in [Processes -> Seq(Calls)] /\ queue'[p] = <<>> /\ \A q \in Processes \ {p} : queue'[q] = queue[q]
  <2>1. <<>> \in Seq(Calls)
    OBVIOUS
  <2> QED
    BY <1>1, <1>2, <2>1
<1>6. \A c \in lost : c \in Calls /\ call[c].phase \notin {"idle", "done"}
  BY <1>1 DEF IInv, ChainsInv, Range
<1>7. \A c \in Calls : call[c].phase \in Active /\ c \notin lost =>
        /\ HandleOf(c) \in Handles /\ ProcessOf(c) # p /\ HandleOf(c) \notin died
  <2> SUFFICES ASSUME NEW c \in Calls, call[c].phase \in Active, c \notin lost
               PROVE  HandleOf(c) \in Handles /\ ProcessOf(c) # p /\ HandleOf(c) \notin died
    OBVIOUS
  <2>1. HandleOf(c) \in Handles /\ queue[ProcessOf(c)] # <<>> /\ Head(queue[ProcessOf(c)]) = c
    BY DEF IInv, CallsInv, Active
  <2>2. ProcessOf(c) # p
    BY <1>1, <2>1 DEF Range
  <2> QED
    BY <2>1, <2>2 DEF LiveHandles, ProcessOf
<1>8. \A q \in Processes \ {p} : \A n \in DOMAIN queue[q] :
        /\ queue[q][n] \in Calls \ lost /\ call[queue[q][n]].handle \in Handles \ died
  <2> SUFFICES ASSUME NEW q \in Processes \ {p}, NEW n \in DOMAIN queue[q]
               PROVE  queue[q][n] \in Calls \ lost /\ call[queue[q][n]].handle \in Handles \ died
    OBVIOUS
  <2>1. /\ queue[q][n] \in Calls /\ handle[call[queue[q][n]].handle].process = q
        /\ call[queue[q][n]].handle \in Handles
    BY <1>1 DEF IInv, ChainsInv, CallsInv, ProcessOf, HandleOf
  <2>2. \A m \in DOMAIN queue[p] : handle[call[queue[p][m]].handle].process = p
    BY <1>1 DEF IInv, ChainsInv, ProcessOf, HandleOf
  <2> QED
    BY <2>1, <2>2 DEF Range, LiveHandles
<1> HIDE DEF lost, died
<1>9. TypeOK'
  BY <1>1, <1>2, <1>3, <1>4, <1>5 DEF IInv, TypeOK
<1>10. ChainsInv'
  <2> SUFFICES ASSUME NEW q \in Processes, NEW n \in DOMAIN queue'[q]
               PROVE  /\ call'[queue'[q][n]].phase \notin {"idle", "done"}
                      /\ handle'[call'[queue'[q][n]].handle].process = q
                      /\ handle'[call'[queue'[q][n]].handle].state \in Live \cup {"closed"}
                      /\ \A m \in DOMAIN queue'[q] : queue'[q][m] = queue'[q][n] => m = n
    BY DEF ChainsInv, ProcessOf, HandleOf
  <2>1. q # p
    BY <1>5
  <2>2. /\ queue'[q] = queue[q] /\ call'[queue[q][n]] = call[queue[q][n]]
        /\ handle'[call[queue[q][n]].handle] = handle[call[queue[q][n]].handle]
    BY <1>3, <1>4, <1>5, <1>8, <2>1
  <2> QED
    BY <1>5, <2>1, <2>2 DEF IInv, ChainsInv, ProcessOf, HandleOf
<1>11. CallsInv'
  <2> SUFFICES ASSUME NEW d \in Calls
               PROVE  /\ call'[d].phase # "idle" =>
                           call'[d].handle \in Handles /\ handle'[call'[d].handle].state # "unused"
                      /\ call'[d].phase \in Active =>
                           /\ queue'[handle'[call'[d].handle].process] # <<>>
                           /\ Head(queue'[handle'[call'[d].handle].process]) = d
                           /\ call'[d].kind \in {"transact", "open"}
                      /\ call'[d].kind \in {"transact", "open"} => call'[d].request \in Requests
                      /\ call'[d].kind = "open" => call'[d].request = Read
                      /\ call'[d].phase # "done" => call'[d].code # "ACK"
                      /\ call'[d].phase = "done" /\ call'[d].code = "ACK" =>
                           call'[d].kind \in {"transact", "open"}
    BY DEF CallsInv, ProcessOf, HandleOf, Answered
  <2>1. CASE d \in lost
    BY <1>3, <1>4, <1>6, <2>1 DEF IInv, CallsInv, HandleOf, Active
  <2>2. CASE d \notin lost
    <3>1. call'[d] = call[d]
      BY <1>4, <2>2
    <3>2. ASSUME call[d].phase \in Active
          PROVE  LET q == handle'[call[d].handle].process
                 IN  queue'[q] # <<>> /\ Head(queue'[q]) = d
      <4> DEFINE q == handle[call[d].handle].process
      <4>1. /\ q # p /\ handle'[call[d].handle].process = q /\ q \in Processes
            /\ queue[q] # <<>> /\ Head(queue[q]) = d
        BY <1>3, <1>7, <2>2, <3>2 DEF IInv, CallsInv, HandlesInv, ProcessOf, HandleOf, Active
      <4> QED
        BY <1>5, <4>1
    <3> QED
      BY <1>3, <3>1, <3>2 DEF IInv, CallsInv, ProcessOf, HandleOf, Answered
  <2> QED
    BY <2>1, <2>2
<1>12. PathInv' /\ HandlesInv'
  <2>1. PathInv'
    BY <1>2 DEF IInv, PathInv
  <2>2. \A h \in Handles : /\ handle'[h].state # "unused" => handle[h].state # "unused"
                           /\ handle'[h].state = "creating" => handle[h].state = "creating"
                           /\ handle'[h].state \in Live => handle[h].state \in Live
    BY <1>3 DEF Live
  <2>3. HandlesInv'
    <3>1. \A h \in Handles : handle'[h].process = handle[h].process /\ handle'[h].inode = handle[h].inode
      BY <1>3
    <3> SUFFICES ASSUME NEW g \in Handles
                 PROVE  /\ handle'[g].state # "unused" =>
                             /\ handle'[g].process \in Processes /\ handle'[g].inode \in Inodes
                             /\ disk'[handle'[g].inode] # None
                        /\ handle'[g].state = "creating" =>
                             /\ disk'[handle'[g].inode] = Blank
                             /\ \A f \in Handles \ {g} :
                                  handle'[f].state # "unused" => handle'[f].inode # handle'[g].inode
                        /\ handle'[g].state \in Live => disk'[handle'[g].inode] \in Stored
      BY DEF HandlesInv
    <3>2. /\ handle[g].state # "unused" =>
               /\ handle[g].process \in Processes /\ handle[g].inode \in Inodes
               /\ disk[handle[g].inode] # None
          /\ handle[g].state = "creating" =>
               /\ disk[handle[g].inode] = Blank
               /\ \A f \in Handles \ {g} : handle[f].state # "unused" => handle[f].inode # handle[g].inode
          /\ handle[g].state \in Live => disk[handle[g].inode] \in Stored
      BY DEF IInv, HandlesInv
    <3> QED
      BY <1>2, <2>2, <3>1, <3>2
  <2> QED
    BY <2>1, <2>3
<1>13. LocksInv'
  <2> SUFFICES ASSUME NEW j \in Inodes, lock'[j] # None
               PROVE  handle'[lock'[j]].state \in Live /\ handle'[lock'[j]].inode = j
    BY DEF LocksInv
  <2>1. lock'[j] = lock[j] /\ lock[j] \in Handles \ died
    BY <1>1, <1>2
  <2> QED
    BY <1>3, <2>1 DEF IInv, LocksInv
<1>14. ServingInv' /\ NoLostUpdate'
  <2> SUFFICES ASSUME NEW d \in Calls, call'[d].phase \in Serving
               PROVE  /\ handle'[call'[d].handle].state \in Live /\ handle'[call'[d].handle].uncertain = None
                      /\ call'[d].phase \in {"operating", "committing"} =>
                           /\ lock'[handle'[call'[d].handle].inode] = call'[d].handle
                           /\ call'[d].seen = disk'[handle'[call'[d].handle].inode]
    BY DEF ServingInv, NoLostUpdate, HandleOf, FileOf, Serving, Active
  <2>1. d \notin lost /\ call'[d] = call[d] /\ call[d].phase \in Serving /\ call[d].phase \in Active
    BY <1>4 DEF Serving, Active
  <2>2. /\ call[d].handle \in Handles \ died /\ handle'[call[d].handle] = handle[call[d].handle]
        /\ handle[call[d].handle].inode \in Inodes
    BY <1>3, <1>7, <2>1, ServingFacts DEF HandleOf, FileOf
  <2> QED
    BY <1>2, <2>1, <2>2 DEF IInv, ServingInv, NoLostUpdate, HandleOf, FileOf
<1>15. KeptInv'
  <2> SUFFICES ASSUME NEW d \in Calls,
                      \/ call'[d].phase \in {"committing", "committed"}
                      \/ call'[d].phase = "done" /\ call'[d].code = "ACK"
               PROVE  LET j == handle'[call'[d].handle].inode
                      IN  /\ call'[d].phase # "committing" =>
                               /\ call'[d].seen \in Stored /\ disk'[j] \in Stored
                               /\ IsPrefix(After(call'[d].seen, call'[d].request).bundle, disk'[j].bundle)
                          /\ call'[d].expected \in {None, call'[d].seen}
                          /\ call'[d].phase = "committing" => Readable(After(call'[d].seen, call'[d].request))
    BY DEF KeptInv, Answered, HandleOf, FileOf, Result
  <2>1. d \notin lost /\ call'[d] = call[d]
    BY <1>4
  <2>2. call[d].handle \in Handles /\ handle'[call[d].handle].inode = handle[call[d].handle].inode
    BY <1>3, <2>1 DEF IInv, CallsInv, HandleOf
  <2> QED
    BY <1>2, <2>1, <2>2 DEF IInv, KeptInv, Answered, HandleOf, FileOf, Result
<1> QED
  BY <1>9, <1>10, <1>11, <1>12, <1>13, <1>14, <1>15 DEF IInv
-----------------------------------------------------------------------------
(***************************************************************************)
(* The inductive invariant.                                                *)
(***************************************************************************)
LEMMA InitIInv ==
  ASSUME Init
  PROVE  IInv
<1>1. TypeOK
  BY DEF Init, TypeOK, NoHandle, NoCall, HandleRecord, HandleStates, CallRecord, Phases
<1>2. \A c \in Calls : /\ call[c].phase = "idle" /\ call[c].kind = "close" /\ call[c].code = None
                       /\ call[c].expected = None
  BY DEF Init, NoCall
<1>3. \A h \in Handles : handle[h].state = "unused"
  BY DEF Init, NoHandle
<1>4. (\A p \in Processes : queue[p] = <<>>) /\ path = None /\ \A i \in Inodes : lock[i] = None
  BY DEF Init
<1>5. ChainsInv /\ CallsInv /\ PathInv /\ HandlesInv /\ LocksInv
  BY <1>2, <1>3, <1>4, StoreAssumption DEF ChainsInv, CallsInv, PathInv, HandlesInv, LocksInv, Live, Active, Answered, Codes
<1>6. ServingInv /\ NoLostUpdate /\ KeptInv
  BY <1>2 DEF ServingInv, NoLostUpdate, KeptInv, Serving, Active, Answered
<1> QED
  BY <1>1, <1>5, <1>6 DEF IInv

LEMMA NextKeepsIInv ==
  ASSUME IInv, [Next]_vars
  PROVE  IInv'
<1>1. CASE UNCHANGED vars
  BY <1>1, QuietStep DEF vars, IInv, TypeOK, PathInv, HandlesInv
<1>2. ASSUME NEW c \in Calls, TransactionStep(c)
      PROVE  IInv'
  BY <1>2, TransactionIsOwnStep, OwnStepKeepsIInv
<1>3. CASE ClientStep
  BY <1>3, MakeFileKeepsIInv, InitialiseKeepsIInv, CallsKeepIInv DEF ClientStep
<1>4. CASE EnvironmentStep
  BY <1>4, CrashKeepsIInv, FilesKeepIInv DEF EnvironmentStep
<1> QED
  BY <1>1, <1>2, <1>3, <1>4 DEF Next, ProcessStep

LEMMA InductiveInvariant == Spec => []IInv
<1>1. Init => IInv
  BY InitIInv
<1>2. IInv /\ [Next]_vars => IInv'
  BY NextKeepsIInv
<1> QED
  BY <1>1, <1>2, PTL DEF Spec

-----------------------------------------------------------------------------
(***************************************************************************)
(* What a step writes, and what it reads.                                  *)
(***************************************************************************)
\* What a file can come to hold.
Written(i) ==
  \/ disk'[i] = disk[i]
  \/ disk'[i] \notin Stored
  \/ disk'[i] = [version |-> 0, bundle |-> <<>>]
  \/ disk'[i] = backup
  \/ \E c \in Calls :
       /\ call[c].phase = "committing" /\ call[c].seen \in Stored /\ call[c].request \in Requests
       /\ disk'[i] = Result(c)

\* What a call can come to have read.
ReadBy(c) ==
  \/ call'[c].seen = call[c].seen
  \/ call'[c].seen = None
  \/ \E i \in Inodes : call'[c].seen = disk[i]

WellDone ==
  /\ \A i \in Inodes : Written(i)
  /\ backup' = backup \/ \E i \in Inodes : backup' = disk[i]
  /\ \A c \in Calls : ReadBy(c)

LEMMA SettleReads ==
  ASSUME IInv, NEW c \in Calls, NEW code, Settle(c, code)
  PROVE  \A d \in Calls : ReadBy(d)
<1>1. call \in [Calls -> CallRecord]
  BY DEF IInv, TypeOK
<1>2. CASE code # "ACK" /\ call[c].kind = "open"
  <2>1. call' = [call EXCEPT ![c].phase = "queued", ![c].kind = "abandon", ![c].code = code]
    BY <1>2 DEF Settle
  <2>2. \A d \in Calls : call'[d].seen = call[d].seen
    BY <1>1, <2>1 DEF CallRecord
  <2> QED
    BY <2>2 DEF ReadBy
<1>3. CASE ~(code # "ACK" /\ call[c].kind = "open")
  <2>1. call' = [call EXCEPT ![c].phase = "done", ![c].code = code,
                             ![c].seen = IF code = "ACK" THEN @ ELSE None]
    BY <1>3 DEF Settle
  <2>2. \A d \in Calls : call'[d].seen \in {call[d].seen, None}
    BY <1>1, <2>1 DEF CallRecord
  <2> QED
    BY <2>2 DEF ReadBy
<1> QED
  BY <1>2, <1>3

LEMMA AdvanceReads ==
  ASSUME IInv, NEW c \in Calls, NEW phase,
         \/ call' = [call EXCEPT ![c].phase = phase]
         \/ \E code : call' = [call EXCEPT ![c].phase = phase, ![c].code = code]
         \/ \E code, took : call' = [call EXCEPT ![c].phase = phase, ![c].code = code, ![c].took = took]
         \/ \E took : call' = [call EXCEPT ![c].phase = phase, ![c].took = took]
  PROVE  \A d \in Calls : ReadBy(d)
<1>1. call \in [Calls -> CallRecord]
  BY DEF IInv, TypeOK
<1>2. CASE call' = [call EXCEPT ![c].phase = phase]
  BY <1>1, <1>2 DEF CallRecord, ReadBy
<1>3. CASE \E code : call' = [call EXCEPT ![c].phase = phase, ![c].code = code]
  <2>1. PICK code : call' = [call EXCEPT ![c].phase = phase, ![c].code = code]
    BY <1>3
  <2>2. \A d \in Calls \ {c} : call'[d] = call[d]
    BY <1>1, <2>1
  <2>3. call'[c] = [call[c] EXCEPT !.phase = phase, !.code = code]
    BY <1>1, <2>1
  <2>4. call[c] \in CallRecord
    BY <1>1
  <2>5. call'[c].seen = call[c].seen
    BY <2>3, <2>4 DEF CallRecord
  <2> QED
    BY <2>2, <2>5 DEF ReadBy
<1>4. CASE \E code, took : call' = [call EXCEPT ![c].phase = phase, ![c].code = code, ![c].took = took]
  <2>1. PICK code, took : call' = [call EXCEPT ![c].phase = phase, ![c].code = code, ![c].took = took]
    BY <1>4
  <2>2. \A d \in Calls \ {c} : call'[d] = call[d]
    BY <1>1, <2>1
  <2>3. call'[c] = [call[c] EXCEPT !.phase = phase, !.code = code, !.took = took]
    BY <1>1, <2>1
  <2>4. call[c] \in CallRecord
    BY <1>1
  <2>5. call'[c].seen = call[c].seen
    BY <2>3, <2>4 DEF CallRecord
  <2> QED
    BY <2>2, <2>5 DEF ReadBy
<1>5. CASE \E took : call' = [call EXCEPT ![c].phase = phase, ![c].took = took]
  <2>1. PICK took : call' = [call EXCEPT ![c].phase = phase, ![c].took = took]
    BY <1>5
  <2>2. \A d \in Calls \ {c} : call'[d] = call[d]
    BY <1>1, <2>1
  <2>3. call'[c] = [call[c] EXCEPT !.phase = phase, !.took = took]
    BY <1>1, <2>1
  <2>4. call[c] \in CallRecord
    BY <1>1
  <2>5. call'[c].seen = call[c].seen
    BY <2>3, <2>4 DEF CallRecord
  <2> QED
    BY <2>2, <2>5 DEF ReadBy
<1> QED
  BY <1>2, <1>3, <1>4, <1>5

LEMMA TransactionIsWellDone ==
  ASSUME IInv, NEW c \in Calls, TransactionStep(c)
  PROVE  WellDone
<1>1. Turn(c) /\ FileOf(c) \in Inodes /\ call[c] \in CallRecord
  BY TurnFacts DEF TransactionStep, OrderlyStep, Start, Begin, BeginTimesOut, BeginFails, Operate, OperateFails, Commit,
       CommitTimesOut, CommitFails, Rollback, RollbackFails, Acknowledge, DoClose, IInv, TypeOK
<1>2. ASSUME call[c].phase = "committing"
      PROVE  call[c].seen \in Stored /\ call[c].request \in Requests
  BY <1>1, <1>2 DEF IInv, NoLostUpdate, ServingInv, HandlesInv, CallsInv, Serving, Active, FileOf, HandleOf
<1>3. CASE Start(c)
  <2>1. UNCHANGED <<disk, backup>>
    BY <1>3 DEF Start, environment
  <2>2. \A d \in Calls : ReadBy(d)
    <3>1. CASE StartCode(c) = None
      BY <1>3, <3>1, AdvanceReads DEF Start, Advance
    <3>2. CASE StartCode(c) # None
      BY <1>3, <3>2, SettleReads DEF Start
    <3> QED
      BY <3>1, <3>2
  <2> QED
    BY <2>1, <2>2 DEF WellDone, Written
<1>4. CASE Begin(c)
  <2>1. UNCHANGED <<disk, backup>>
    BY <1>4 DEF Begin, environment
  <2>2. \A d \in Calls : ReadBy(d)
    BY <1>1, <1>4 DEF Begin, ReadBy, IInv, TypeOK, CallRecord
  <2> QED
    BY <2>1, <2>2 DEF WellDone, Written
<1>5. CASE BeginTimesOut(c) \/ BeginFails(c) \/ Rollback(c) \/ RollbackFails(c) \/ Acknowledge(c) \/ DoClose(c)
  <2>1. UNCHANGED <<disk, backup>>
    BY <1>5 DEF BeginTimesOut, BeginFails, Rollback, RollbackFails, Acknowledge, DoClose, environment
  <2>2. PICK code : Settle(c, code)
    BY <1>5 DEF BeginTimesOut, BeginFails, Rollback, RollbackFails, Acknowledge, DoClose
  <2> QED
    BY <2>1, <2>2, SettleReads DEF WellDone, Written
<1>6. CASE Operate(c) \/ OperateFails(c) \/ CommitTimesOut(c)
  <2>1. UNCHANGED <<disk, backup>>
    BY <1>6 DEF Operate, OperateFails, CommitTimesOut, environment
  <2>2. \A d \in Calls : ReadBy(d)
    BY <1>6, AdvanceReads DEF Operate, OperateFails, CommitTimesOut, Advance
  <2> QED
    BY <2>1, <2>2 DEF WellDone, Written
<1>7. CASE Commit(c) \/ CommitFails(c)
  <2>1. backup' = backup /\ call[c].phase = "committing" /\ (UNCHANGED disk \/ Write(c))
    BY <1>7 DEF Commit, CommitFails, environment
  <2>2. \A d \in Calls : ReadBy(d)
    <3>1. CASE Commit(c)
      BY <3>1, AdvanceReads DEF Commit
    <3>2. CASE CommitFails(c)
      <4>1. CASE call' = [call EXCEPT ![c].phase = "rolling", ![c].code = "COMMIT_UNCERTAIN", ![c].took = TRUE]
        BY <4>1, AdvanceReads
      <4>2. CASE call' = [call EXCEPT ![c].phase = "rolling", ![c].code = "COMMIT_UNCERTAIN"]
        BY <4>2, AdvanceReads
      <4> QED
        BY <3>2, <4>1, <4>2 DEF CommitFails
    <3> QED
      BY <1>7, <3>1, <3>2
  <2>3. \A i \in Inodes : disk'[i] = disk[i] \/ disk'[i] = Result(c)
    BY <2>1 DEF Write, IInv, TypeOK
  <2> QED
    BY <1>2, <2>1, <2>2, <2>3 DEF WellDone, Written
<1> QED
  BY <1>3, <1>4, <1>5, <1>6, <1>7 DEF TransactionStep, OrderlyStep

LEMMA ClientIsWellDone ==
  ASSUME IInv, ClientStep
  PROVE  WellDone
<1>1. PICK h \in Handles :
        \/ \E p \in Processes, i \in Inodes : MakeFile(h, p, i)
        \/ Initialise(h) \/ InitialiseFails(h)
        \/ \E c \in Calls :
             \/ \E p \in Processes : \E expected \in {None} \cup Checkpoints : Open(c, h, p, expected)
             \/ \E request \in Requests : Transact(c, h, request)
             \/ Close(c, h)
  BY DEF ClientStep
<1>2. CASE \E p \in Processes, i \in Inodes : MakeFile(h, p, i)
  <2>1. \A i \in Inodes : disk'[i] = disk[i] \/ disk'[i] = Blank
    BY <1>2 DEF MakeFile, IInv, TypeOK
  <2> QED
    BY <1>2, <2>1, StoreAssumption DEF MakeFile, WellDone, Written, ReadBy
<1>3. CASE Initialise(h) \/ InitialiseFails(h)
  <2>1. \A i \in Inodes : disk'[i] = disk[i] \/ disk'[i] = [version |-> 0, bundle |-> <<>>]
    BY <1>3 DEF Initialise, InitialiseFails, IInv, TypeOK
  <2> QED
    BY <1>3, <2>1 DEF Initialise, InitialiseFails, environment, WellDone, Written, ReadBy
<1>4. ASSUME NEW c \in Calls,
             \/ \E p \in Processes : \E expected \in {None} \cup Checkpoints : Open(c, h, p, expected)
             \/ \E request \in Requests : Transact(c, h, request)
             \/ Close(c, h)
      PROVE  WellDone
  <2>1. UNCHANGED <<disk, backup>>
    BY <1>4 DEF Open, Transact, Close, environment
  <2>2. PICK p, kind, request, expected : Enqueue(c, h, p, kind, request, expected)
    BY <1>4 DEF Open, Transact, Close
  <2>3. \A d \in Calls : ReadBy(d)
    BY <2>2 DEF Enqueue, NoCall, ReadBy, IInv, TypeOK
  <2> QED
    BY <2>1, <2>3 DEF WellDone, Written
<1> QED
  BY <1>1, <1>2, <1>3, <1>4

LEMMA EnvironmentIsWellDone ==
  ASSUME IInv, EnvironmentStep
  PROVE  WellDone
<1>1. ASSUME NEW p \in Processes, Crash(p)
      PROVE  WellDone
  <2>1. UNCHANGED <<disk, backup>>
    BY <1>1 DEF Crash, environment
  <2>2. \A d \in Calls : ReadBy(d)
    BY <1>1 DEF Crash, ReadBy, IInv, TypeOK, CallRecord
  <2> QED
    BY <2>1, <2>2 DEF WellDone, Written
<1>2. ASSUME NEW i \in Inodes, ReaderMoves(i)
      PROVE  WellDone
  BY <1>2 DEF ReaderMoves, WellDone, Written, ReadBy
<1>3. ASSUME NEW i \in Inodes, ReplaceFile(i)
      PROVE  WellDone
  <2>1. \A j \in Inodes : disk'[j] = disk[j] \/ disk'[j] = backup
    BY <1>3 DEF ReplaceFile, IInv, TypeOK
  <2> QED
    BY <1>3, <2>1 DEF ReplaceFile, WellDone, Written, ReadBy
<1>4. CASE TakeBackup
  <2>1. path \in Inodes
    BY <1>4 DEF TakeBackup, IInv, TypeOK
  <2> QED
    BY <1>4, <2>1 DEF TakeBackup, WellDone, Written, ReadBy
<1> QED
  BY <1>1, <1>2, <1>3, <1>4 DEF EnvironmentStep

LEMMA NextIsWellDone ==
  ASSUME IInv, [Next]_vars
  PROVE  WellDone
<1>1. CASE UNCHANGED vars
  BY <1>1 DEF vars, WellDone, Written, ReadBy
<1>2. CASE Next
  BY <1>2, TransactionIsWellDone, ClientIsWellDone, EnvironmentIsWellDone DEF Next, ProcessStep
<1> QED
  BY <1>1, <1>2
-----------------------------------------------------------------------------
(***************************************************************************)
(* The version of a ledger counts its records, in every file, copy and     *)
(* read: so of two answers of one file the older one is a prefix of the    *)
(* other.  And whatever is stored can be read again.                       *)
(***************************************************************************)
Counted(stored) == stored.version = Len(stored.bundle)

SizesInv ==
  /\ \A i \in Inodes : disk[i] \in Stored => Counted(disk[i]) /\ Readable(disk[i])
  /\ backup \in Stored => Counted(backup) /\ Readable(backup)
  /\ \A c \in Calls : call[c].seen \in Stored => Counted(call[c].seen)

SInv == IInv /\ SizesInv

LEMMA AfterIsCounted ==
  ASSUME NEW s \in Stored, NEW r \in Requests, Counted(s)
  PROVE  Counted(After(s, r))
<1> DEFINE a == Effect(s.bundle, r).bundle
<1>1. s.bundle \in Bundles /\ s.version \in Nat /\ s.bundle \in Seq(UNION {Range(b) : b \in Bundles})
  BY EffectAssumption DEF Stored
<1>2. a = s.bundle \/ Len(a) = Len(s.bundle) + 1
  BY <1>1, EffectAssumption
<1>3. After(s, r) = [version |-> s.version + (IF a # s.bundle THEN 1 ELSE 0), bundle |-> a]
  BY DEF After
<1> HIDE DEF a
<1>4. CASE a = s.bundle
  BY <1>1, <1>3, <1>4 DEF Counted
<1>5. CASE a # s.bundle
  BY <1>1, <1>2, <1>3, <1>5 DEF Counted
<1> QED
  BY <1>4, <1>5

LEMMA WellDoneKeepsSizes ==
  ASSUME SInv, WellDone
  PROVE  SizesInv'
<1>1. ASSUME NEW i \in Inodes, disk'[i] \in Stored
      PROVE  Counted(disk'[i]) /\ Readable(disk'[i])
  <2>1. CASE disk'[i] = disk[i] \/ disk'[i] = backup
    BY <1>1, <2>1 DEF SInv, SizesInv
  <2>2. CASE disk'[i] = [version |-> 0, bundle |-> <<>>]
    <3>1. Len(<<>>) = 0 /\ disk'[i].version = 0 /\ disk'[i].bundle = <<>>
      BY <2>2
    <3> QED
      BY <3>1, StoreAssumption DEF Counted, Readable
  <2>3. ASSUME NEW c \in Calls, call[c].phase = "committing", call[c].seen \in Stored,
               call[c].request \in Requests, disk'[i] = Result(c)
        PROVE  Counted(disk'[i]) /\ Readable(disk'[i])
    BY <2>3, AfterIsCounted DEF SInv, SizesInv, IInv, KeptInv, Result
  <2> QED
    BY <1>1, <2>1, <2>2, <2>3 DEF WellDone, Written
<1>2. ASSUME backup' \in Stored
      PROVE  Counted(backup') /\ Readable(backup')
  BY <1>2 DEF WellDone, SInv, SizesInv
<1>3. ASSUME NEW c \in Calls, call'[c].seen \in Stored
      PROVE  Counted(call'[c].seen)
  BY <1>3, StoreAssumption DEF WellDone, ReadBy, SInv, SizesInv
<1> QED
  BY <1>1, <1>2, <1>3 DEF SizesInv

LEMMA AlwaysSized == Spec => []SInv
<1>1. Init => SInv
  <2>1. ASSUME Init
        PROVE  SizesInv
    BY <2>1, StoreAssumption DEF Init, SizesInv, NoCall
  <2> QED
    BY <2>1, InitIInv DEF SInv
<1>2. SInv /\ [Next]_vars => SInv'
  BY NextKeepsIInv, NextIsWellDone, WellDoneKeepsSizes DEF SInv
<1> QED
  BY <1>1, <1>2, PTL DEF Spec

-----------------------------------------------------------------------------
(***************************************************************************)
(* Safety.                                                                 *)
(***************************************************************************)
\* Every variable keeps its shape: above all no step loses the ledger in a file, or takes
\* a call through a handle that has none (store.ts:69-189).
THEOREM TypeCorrect == Spec => []TypeOK
<1>1. IInv => TypeOK
  BY DEF IInv
<1> QED
  BY <1>1, InductiveInvariant, PTL

\* No update is lost, whatever processes, handles and calls there are: the ledger that a
\* transaction replaces is the one it has read (store.ts:166-179).
THEOREM NothingIsLost == Spec => []NoLostUpdate
<1>1. IInv => NoLostUpdate
  BY DEF IInv
<1> QED
  BY <1>1, InductiveInvariant, PTL

\* What a call was told stays in the ledger, through crashes, failures and any number of
\* other transactions, and that ledger can be read again (store.ts:151, 173, 179-180).
THEOREM AnswersAreDurable == Spec => []AckedIsDurable
<1>1. SInv => AckedIsDurable
  <2>1. ASSUME SInv, NEW c \in Calls, Answered(c)
        PROVE  IsPrefix(Result(c).bundle, disk[FileOf(c)].bundle) /\ Readable(disk[FileOf(c)])
    <3>1. HandleOf(c) \in Handles /\ FileOf(c) \in Inodes
      BY <2>1 DEF SInv, IInv, CallsInv, HandlesInv, Answered, FileOf, HandleOf
    <3> QED
      BY <2>1, <3>1 DEF SInv, SizesInv, IInv, KeptInv
  <2> QED
    BY <2>1 DEF AckedIsDurable
<1> QED
  BY <1>1, AlwaysSized, PTL

\* What an answer says is a ledger of its file, and its version counts its records.
LEMMA AnswerFacts ==
  ASSUME SInv, NEW c \in Calls, Answered(c)
  PROVE  /\ disk[FileOf(c)] \in Stored /\ Result(c) \in Stored /\ Counted(Result(c))
         /\ IsPrefix(Result(c).bundle, disk[FileOf(c)].bundle)
<1>1. /\ call[c].seen \in Stored /\ disk[FileOf(c)] \in Stored /\ call[c].request \in Requests
      /\ IsPrefix(Result(c).bundle, disk[FileOf(c)].bundle)
  BY DEF SInv, IInv, KeptInv, CallsInv
<1>2. Counted(call[c].seen)
  BY <1>1 DEF SInv, SizesInv
<1> QED
  BY <1>1, <1>2, EffectFacts, AfterIsCounted DEF Result

\* An open() that brings the checkpoint of an answer and is answered has opened a file
\* with everything that had been answered on the file of that answer by then, however
\* many older copies took each other's place (store.ts:101-105, 174-178).
THEOREM PinnedOpensLoseNothing == Spec => []PinnedOpenLosesNothing
<1>1. ASSUME SInv
      PROVE  PinnedOpenLosesNothing
  <2> SUFFICES ASSUME NEW c \in Calls, NEW d \in Calls, NEW e \in Calls,
                      call[c].kind = "open", Answered(c), Answered(d), Answered(e),
                      call[c].expected = Result(e), FileOf(d) = FileOf(e),
                      Result(d).version <= Result(e).version
               PROVE  IsPrefix(Result(d).bundle, disk[FileOf(c)].bundle)
    BY DEF PinnedOpenLosesNothing
  <2> DEFINE S == UNION {Range(b) : b \in Bundles}
  <2>1. /\ Result(c) \in Stored /\ Result(d) \in Stored /\ Result(e) \in Stored
        /\ disk[FileOf(c)] \in Stored /\ disk[FileOf(e)] \in Stored
        /\ Counted(Result(d)) /\ Counted(Result(e))
        /\ IsPrefix(Result(c).bundle, disk[FileOf(c)].bundle)
        /\ IsPrefix(Result(d).bundle, disk[FileOf(e)].bundle)
        /\ IsPrefix(Result(e).bundle, disk[FileOf(e)].bundle)
    BY <1>1, AnswerFacts
  <2>2. Result(c) = Result(e)
    <3>1. call[c].expected = call[c].seen /\ call[c].seen \in Stored /\ call[c].request = Read
      BY <1>1, <2>1, StoreAssumption DEF SInv, IInv, CallsInv, KeptInv
    <3> QED
      BY <3>1, ReadFacts DEF Result
  <2>3. IsPrefix(Result(d).bundle, Result(e).bundle)
    <3>1. /\ Result(d).bundle \in Seq(S) /\ Result(e).bundle \in Seq(S) /\ disk[FileOf(e)].bundle \in Seq(S)
          /\ Len(Result(d).bundle) <= Len(Result(e).bundle)
      BY <2>1, EffectAssumption DEF Stored, Counted
    <3> HIDE DEF S
    <3> QED
      BY <2>1, <3>1, PrefixPointwise
  <2> QED
    BY <2>1, <2>2, <2>3, PrefixTransitive
<1> QED
  BY <1>1, AlwaysSized, PTL
-----------------------------------------------------------------------------
LEMMA OwnStepKeepsLocks ==
  ASSUME IInv, LockNeverLeaks, NEW c \in Calls, OwnStep(c)
  PROVE  LockNeverLeaks'
<1> DEFINE h == HandleOf(c)
           i == FileOf(c)
           held(k) ==
             \/ handle'[k].uncertain = "ROLLBACK_UNCERTAIN"
             \/ \E d \in Calls : call'[d].handle = k /\ call'[d].phase \in Holding
<1>1. /\ Turn(c) /\ h \in Handles /\ i \in Inodes /\ call'[c].handle = h
      /\ \A d \in Calls : HandleOf(d) = h /\ call[d].phase \in Active => d = c
  BY TurnFacts DEF OwnStep, OwnCall, HandleOf, ProcessOf
<1> SUFFICES ASSUME NEW j \in Inodes, lock'[j] # None
             PROVE  held(lock'[j])
  BY DEF LockNeverLeaks, HandleOf, Holding
<1>2. lock'[j] \in Handles
  BY DEF OwnStep, OwnHandle
<1>3. CASE lock'[j] = h
  <2>1. j = i
    BY <1>1, <1>3 DEF OwnStep, OwnHandle, IInv, LocksInv, FileOf
  <2>2. CASE lock[i] = h
    <3>1. \/ handle[h].uncertain = "ROLLBACK_UNCERTAIN"
          \/ \E d \in Calls : HandleOf(d) = h /\ call[d].phase \in Holding
      BY <1>1, <2>2, StoreAssumption DEF LockNeverLeaks, Holding
    <3>2. handle[h].uncertain = "ROLLBACK_UNCERTAIN" \/ call[c].phase \in Holding
      BY <1>1, <3>1 DEF Holding, Active
    <3> QED
      BY <1>1, <1>3, <2>1, <3>2 DEF OwnStep, OwnLock
  <2>3. CASE lock[i] # h
    BY <1>1, <1>3, <2>1, <2>3 DEF OwnStep, OwnHandle, Holding
  <2> QED
    BY <2>2, <2>3
<1>4. CASE lock'[j] # h
  <2>1. lock'[j] = lock[j] /\ handle'[lock[j]] = handle[lock[j]]
    BY <1>2, <1>4 DEF OwnStep, OwnHandle
  <2>2. CASE handle[lock[j]].uncertain = "ROLLBACK_UNCERTAIN"
    BY <2>1, <2>2
  <2>3. CASE \E d \in Calls : HandleOf(d) = lock[j] /\ call[d].phase \in Holding
    <3>1. PICK d \in Calls : HandleOf(d) = lock[j] /\ call[d].phase \in Holding
      BY <2>3
    <3>2. call'[d] = call[d]
      BY <1>4, <2>1, <3>1 DEF OwnStep, OwnCall
    <3> QED
      BY <2>1, <3>1, <3>2 DEF HandleOf
  <2> QED
    BY <2>1, <2>2, <2>3 DEF LockNeverLeaks, Holding
<1> QED
  BY <1>3, <1>4

\* Other steps leave the locks of live handles, and the calls that hold them, alone.
LEMMA OthersKeepLocks ==
  ASSUME IInv, LockNeverLeaks,
         \A j \in Inodes : lock'[j] \in {None, lock[j]},
         \A d \in Calls : call[d].phase \in Holding /\ (\E j \in Inodes : lock'[j] = HandleOf(d)) => call'[d] = call[d],
         \A h \in Handles : (\E j \in Inodes : lock'[j] = h) => handle'[h].uncertain = handle[h].uncertain
  PROVE  LockNeverLeaks'
<1> SUFFICES ASSUME NEW j \in Inodes, lock'[j] # None
             PROVE  \/ handle'[lock'[j]].uncertain = "ROLLBACK_UNCERTAIN"
                    \/ \E d \in Calls : call'[d].handle = lock'[j] /\ call'[d].phase \in Holding
  BY DEF LockNeverLeaks, HandleOf, Holding
<1>1. lock'[j] = lock[j] /\ lock[j] \in Handles
  BY DEF IInv, TypeOK
<1>2. \/ handle[lock[j]].uncertain = "ROLLBACK_UNCERTAIN"
      \/ \E d \in Calls : HandleOf(d) = lock[j] /\ call[d].phase \in Holding
  BY <1>1 DEF LockNeverLeaks, Holding
<1> QED
  BY <1>1, <1>2 DEF HandleOf

LEMMA CrashKeepsLocks ==
  ASSUME IInv, LockNeverLeaks, NEW p \in Processes, Crash(p)
  PROVE  LockNeverLeaks'
<1>1. \A j \in Inodes : lock'[j] \in {None, lock[j]} /\ (lock'[j] # None => lock'[j] \in Handles \ LiveHandles(p))
  BY DEF Crash, IInv, TypeOK
<1>2. \A h \in Handles \ LiveHandles(p) : handle'[h] = handle[h]
  BY DEF Crash
<1>3. ASSUME NEW d \in Calls, call[d].phase \in Holding, NEW j \in Inodes, lock'[j] = HandleOf(d)
      PROVE  call'[d] = call[d]
  <2>1. HandleOf(d) \in Handles /\ HandleOf(d) \notin LiveHandles(p) /\ lock[j] = HandleOf(d)
    BY <1>1, <1>3, StoreAssumption DEF IInv, CallsInv, Holding
  <2>2. ProcessOf(d) # p
    BY <2>1, StoreAssumption DEF LiveHandles, IInv, LocksInv, ProcessOf, Live
  <2>3. \A n \in DOMAIN queue[p] : queue[p][n] # d
    BY <2>2 DEF IInv, ChainsInv
  <2> QED
    BY <2>3 DEF Crash, Range
<1>4. ASSUME NEW h \in Handles, NEW j \in Inodes, lock'[j] = h
      PROVE  handle'[h].uncertain = handle[h].uncertain
  BY <1>1, <1>2, <1>4, StoreAssumption
<1> QED
  BY <1>1, <1>3, <1>4, OthersKeepLocks

\* No way out of a transaction leaves the write lock behind, except a failed rollback
\* that is reported as such (store.ts:110-138, 166-189).
THEOREM LocksAreReleased == Spec => []LockNeverLeaks
<1>1. Init => LockNeverLeaks
  BY DEF Init, LockNeverLeaks
<1>2. ASSUME IInv, LockNeverLeaks, [Next]_vars
      PROVE  LockNeverLeaks'
  <2>1. CASE UNCHANGED vars
    BY <1>2, <2>1, OthersKeepLocks DEF vars
  <2>2. ASSUME NEW c \in Calls, TransactionStep(c)
        PROVE  LockNeverLeaks'
    BY <1>2, <2>2, TransactionIsOwnStep, OwnStepKeepsLocks
  <2>3. ASSUME NEW h \in Handles, \/ \E p \in Processes, i \in Inodes : MakeFile(h, p, i)
                                  \/ Initialise(h) \/ InitialiseFails(h)
        PROVE  LockNeverLeaks'
    <3>1. /\ UNCHANGED <<lock, call>> /\ handle[h].state \in {"unused", "creating"}
          /\ \A g \in Handles \ {h} : handle'[g] = handle[g]
      BY <1>2, <2>3 DEF MakeFile, Initialise, InitialiseFails, IInv, TypeOK
    <3>2. \A j \in Inodes : lock[j] # h
      BY <1>2, <3>1, StoreAssumption DEF IInv, LocksInv, Live
    <3> QED
      BY <1>2, <3>1, <3>2, OthersKeepLocks
  <2>4. ASSUME NEW h \in Handles, NEW c \in Calls,
               \/ \E p \in Processes : \E expected \in {None} \cup Checkpoints : Open(c, h, p, expected)
               \/ \E request \in Requests : Transact(c, h, request)
               \/ Close(c, h)
        PROVE  LockNeverLeaks'
    <3>1. /\ UNCHANGED lock /\ call[c].phase = "idle"
          /\ \A d \in Calls \ {c} : call'[d] = call[d]
          /\ \A g \in Handles \ {h} : handle'[g] = handle[g]
          /\ handle'[h] = handle[h] \/ handle[h].state = "unused"
      BY <1>2, <2>4 DEF Open, Transact, Close, Enqueue, IInv, TypeOK
    <3>2. handle[h].state = "unused" => \A j \in Inodes : lock[j] # h
      BY <1>2, StoreAssumption DEF IInv, LocksInv, Live
    <3> QED
      BY <1>2, <3>1, <3>2, OthersKeepLocks DEF Holding
  <2>5. ASSUME NEW p \in Processes, Crash(p)
        PROVE  LockNeverLeaks'
    BY <1>2, <2>5, CrashKeepsLocks
  <2>6. CASE (\E i \in Inodes : ReaderMoves(i) \/ ReplaceFile(i)) \/ TakeBackup
    BY <1>2, <2>6, OthersKeepLocks DEF ReaderMoves, ReplaceFile, TakeBackup
  <2> QED
    BY <1>2, <2>1, <2>2, <2>3, <2>4, <2>5, <2>6 DEF Next, ProcessStep, ClientStep, EnvironmentStep
<1> QED
  BY <1>1, <1>2, InductiveInvariant, PTL DEF Spec

-----------------------------------------------------------------------------
(***************************************************************************)
(* Steps that are never taken.                                             *)
(***************************************************************************)
\* Calls get their answers, and files their contents, from their own steps, from the
\* initialisation of a new file and from nothing else.
LEMMA StepOutcomes ==
  ASSUME IInv, [Next]_vars
  PROVE  \/ \E c \in Calls : OwnStep(c)
         \/ /\ \A c \in Calls : Answered(c)' => Answered(c)
            /\ \A j \in Inodes : disk[j] \in Stored => disk'[j] = disk[j]
<1>1. CASE UNCHANGED vars
  BY <1>1 DEF vars, Answered
<1>2. ASSUME NEW c \in Calls, TransactionStep(c)
      PROVE  OwnStep(c)
  BY <1>2, TransactionIsOwnStep
<1>3. ASSUME NEW h \in Handles, \/ \E p \in Processes, i \in Inodes : MakeFile(h, p, i)
                                \/ Initialise(h) \/ InitialiseFails(h)
      PROVE  /\ UNCHANGED call
             /\ \A j \in Inodes : disk[j] \in Stored => disk'[j] = disk[j]
  <2>1. CASE \E p \in Processes, i \in Inodes : MakeFile(h, p, i)
    BY <2>1, StoreAssumption DEF MakeFile, Vacant, IInv, TypeOK
  <2>2. CASE Initialise(h) \/ InitialiseFails(h)
    <3>1. /\ UNCHANGED call /\ disk[handle[h].inode] = Blank
          /\ disk' \in {disk, [disk EXCEPT ![handle[h].inode] = [version |-> 0, bundle |-> <<>>]]}
      BY <2>2 DEF Initialise, InitialiseFails, IInv, HandlesInv
    <3> QED
      BY <3>1, StoreAssumption DEF IInv, TypeOK
  <2> QED
    BY <1>3, <2>1, <2>2
<1>4. ASSUME NEW h \in Handles, NEW c \in Calls,
             \/ \E p \in Processes : \E expected \in {None} \cup Checkpoints : Open(c, h, p, expected)
             \/ \E request \in Requests : Transact(c, h, request)
             \/ Close(c, h)
      PROVE  UNCHANGED disk /\ \A d \in Calls : Answered(d)' => Answered(d)
  <2>1. PICK p, kind, request, expected : UNCHANGED disk /\ Enqueue(c, h, p, kind, request, expected)
    BY <1>4 DEF Open, Transact, Close
  <2>2. call'[c].phase = "queued" /\ \A d \in Calls \ {c} : call'[d] = call[d]
    BY <2>1 DEF Enqueue, NoCall, IInv, TypeOK
  <2> QED
    BY <2>1, <2>2 DEF Answered
<1>5. ASSUME NEW p \in Processes, Crash(p)
      PROVE  UNCHANGED disk /\ \A d \in Calls : Answered(d)' => Answered(d)
  <2>1. ASSUME NEW d \in Calls, Answered(d)'
        PROVE  Answered(d)
    <3>1. call[d] \in CallRecord
      BY DEF IInv, TypeOK
    <3>2. CASE d \in Range(queue[p])
      <4>1. call'[d] = [call[d] EXCEPT !.phase = "done", !.code = "LOST", !.seen = None]
        BY <1>5, <3>2 DEF Crash
      <4> QED
        BY <2>1, <3>1, <4>1 DEF Answered, CallRecord
    <3>3. CASE d \notin Range(queue[p])
      BY <1>5, <2>1, <3>3 DEF Crash, Answered
    <3> QED
      BY <3>2, <3>3
  <2> QED
    BY <1>5, <2>1 DEF Crash
<1>6. CASE (\E i \in Inodes : ReaderMoves(i) \/ ReplaceFile(i)) \/ TakeBackup
  BY <1>6, StoreAssumption DEF ReaderMoves, ReplaceFile, TakeBackup, Answered, IInv, TypeOK
<1>7. ASSUME UNCHANGED call
      PROVE  \A c \in Calls : Answered(c)' => Answered(c)
  BY <1>7 DEF Answered
<1> QED
  BY <1>1, <1>2, <1>3, <1>4, <1>5, <1>6, <1>7 DEF Next, ProcessStep, ClientStep, EnvironmentStep

\* Once in doubt a handle never answers again (store.ts:134-135, 164, 184-187).
THEOREM DoubtIsFinal == Spec => QuarantinedNeverAnswers
<1>1. ASSUME IInv, [Next]_vars, NEW c \in Calls, Answered(c)', ~Answered(c)
      PROVE  handle[HandleOf(c)].uncertain = None
  <2>1. PICK d \in Calls : OwnStep(d)
    BY <1>1, StepOutcomes
  <2>2. d = c
    BY <1>1, <2>1 DEF OwnStep, OwnCall, Answered
  <2> QED
    BY <1>1, <2>1, <2>2 DEF OwnStep, OwnPhase, Answered, IInv, ServingInv, Serving, Active
<1>2. IInv /\ [Next]_vars =>
        [\A c \in Calls : Answered(c)' /\ ~Answered(c) => handle[HandleOf(c)].uncertain = None]_vars
  BY <1>1
<1> QED
  BY <1>2, InductiveInvariant, PTL DEF Spec, QuarantinedNeverAnswers

\* Nothing reseeds an initialised file or takes records off it (store.ts:69-91, 178).
THEOREM LedgersOnlyGrow == Spec => LedgerOnlyGrows
<1>1. ASSUME IInv, [Next]_vars, NEW i \in Inodes, disk[i] \in Stored
      PROVE  disk'[i] \in Stored /\ IsPrefix(disk[i].bundle, disk'[i].bundle)
  <2>1. CASE disk'[i] = disk[i]
    BY <1>1, <2>1, PrefixReflexive
  <2>2. ASSUME NEW c \in Calls, OwnStep(c), disk'[i] # disk[i]
        PROVE  disk'[i] \in Stored /\ IsPrefix(disk[i].bundle, disk'[i].bundle)
    <3>1. call[c].phase = "committing" /\ i = FileOf(c) /\ disk'[i] = Result(c)
      BY <1>1, <2>2 DEF OwnStep, OwnHandle, IInv, TypeOK
    <3> QED
      BY <1>1, <3>1, ServingFacts DEF Serving, Active
  <2> QED
    BY <1>1, <2>1, <2>2, StepOutcomes
<1>2. IInv /\ [Next]_vars =>
        [\A i \in Inodes :
           disk[i] \in Stored => disk'[i] \in Stored /\ IsPrefix(disk[i].bundle, disk'[i].bundle)]_vars
  BY <1>1
<1> QED
  BY <1>2, InductiveInvariant, PTL DEF Spec, LedgerOnlyGrows
-----------------------------------------------------------------------------
(***************************************************************************)
(* The durable store implements AtomicLedger, step by step, with a ledger  *)
(* for each file.                                                          *)
(***************************************************************************)
\* A call that took effect is about to be acknowledged, or ends acknowledged or in doubt.
TookInv ==
  \A c \in Calls :
    /\ call[c].took =>
         \/ call[c].phase = "committed"
         \/ /\ call[c].code \in Doubts \cup {"ACK"}
            /\ call[c].phase \in {"rolling", "done"} \/ call[c].kind = "abandon"
    /\ call[c].phase = "committed" => call[c].took
    /\ call[c].phase = "idle" => call[c].request = None /\ call[c].kind = "close" /\ ~call[c].took
    /\ call[c].kind = "abandon" => call[c].phase \in {"queued", "done"}

\* The invariant that the refinement rests on.
RInv == IInv /\ TookInv

-----------------------------------------------------------------------------
(***************************************************************************)
(* What a step of a transaction means for the ledger: nothing yet, the     *)
(* effect of the call, or its end.                                         *)
(***************************************************************************)
Continues(c) ==
  /\ call'[c].phase # "done"
  /\ call'[c].took = call[c].took
  /\ call[c].took => call'[c].seen = call[c].seen
  /\ UNCHANGED disk

TakesEffect(c) ==
  /\ call[c].phase = "committing"
  /\ call'[c].phase # "done"
  /\ call'[c].took = TRUE
  /\ call'[c].seen = call[c].seen
  /\ disk' = [disk EXCEPT ![FileOf(c)] = Result(c)]

Ends(c) ==
  /\ call'[c].phase = "done"
  /\ call'[c].took = call[c].took
  /\ call'[c].code = "ACK" => call[c].phase = "committed" /\ call'[c].seen = call[c].seen
  /\ UNCHANGED disk

\* The state of the call after it, as far as TookInv speaks of it.
TookStep(c) ==
  /\ call'[c].took =>
       \/ call'[c].phase = "committed"
       \/ /\ call'[c].code \in Doubts \cup {"ACK"}
          /\ call'[c].phase \in {"rolling", "done"} \/ call'[c].kind = "abandon"
  /\ call'[c].phase = "committed" => call'[c].took
  /\ call'[c].phase # "idle"
  /\ call'[c].kind = "abandon" => call'[c].phase \in {"queued", "done"}

Outcome(c) ==
  /\ Continues(c) \/ TakesEffect(c) \/ Ends(c)
  /\ TookStep(c)
  /\ call'[c].kind = "close" <=> call[c].kind = "close"

LEMMA SettleOutcome ==
  ASSUME RInv, NEW c \in Calls, NEW code \in Codes \cup {None}, Settle(c, code), UNCHANGED disk,
         call[c].took => code \in Doubts \cup {"ACK"},
         code = "ACK" => call[c].phase = "committed" /\ call[c].took
  PROVE  Outcome(c)
<1>1. call \in [Calls -> CallRecord] /\ call[c] \in CallRecord
  BY DEF RInv, IInv, TypeOK
<1>2. CASE code # "ACK" /\ call[c].kind = "open"
  <2>1. call'[c] = [call[c] EXCEPT !.phase = "queued", !.kind = "abandon", !.code = code]
    BY <1>1, <1>2 DEF Settle
  <2> QED
    BY <1>1, <1>2, <2>1 DEF Outcome, Continues, TookStep, CallRecord
<1>3. CASE ~(code # "ACK" /\ call[c].kind = "open")
  <2>1. call'[c] = [call[c] EXCEPT !.phase = "done", !.code = code,
                                   !.seen = IF code = "ACK" THEN @ ELSE None]
    BY <1>1, <1>3 DEF Settle
  <2> QED
    BY <1>1, <2>1 DEF Outcome, Ends, TookStep, CallRecord
<1> QED
  BY <1>2, <1>3

LEMMA BeforeCommitOutcome ==
  ASSUME RInv, NEW c \in Calls,
         \/ Start(c) \/ Begin(c) \/ BeginTimesOut(c) \/ BeginFails(c)
         \/ Operate(c) \/ OperateFails(c) \/ CommitTimesOut(c)
  PROVE  Outcome(c)
<1>1. call \in [Calls -> CallRecord] /\ call[c] \in CallRecord
  BY DEF RInv, IInv, TypeOK
<1>2. /\ Turn(c) /\ call[c].phase \in {"queued", "beginning", "operating", "committing"}
      /\ call[c].kind \in {"transact", "open"} /\ UNCHANGED disk
  BY DEF Start, Begin, BeginTimesOut, BeginFails, Operate, OperateFails, CommitTimesOut,
         RInv, IInv, CallsInv, Active
<1>3. call[c].took = FALSE
  BY <1>1, <1>2 DEF RInv, TookInv, CallRecord
<1>4. ASSUME call'[c].phase \in {"beginning", "operating", "committing", "rolling"},
             call'[c].kind = call[c].kind, call'[c].took = call[c].took
      PROVE  Outcome(c)
  BY <1>2, <1>3, <1>4 DEF Outcome, Continues, TookStep
<1>5. CASE Start(c)
  <2>1. CASE StartCode(c) = None
    <3>1. call'[c] = [call[c] EXCEPT !.phase = "beginning"]
      BY <1>1, <1>5, <2>1 DEF Start, Advance
    <3> QED
      BY <1>1, <1>4, <3>1 DEF CallRecord
  <2>2. CASE StartCode(c) # None
    <3>1. handle[HandleOf(c)] \in HandleRecord
      BY <1>2, TurnFacts DEF RInv, IInv, TypeOK
    <3>2. StartCode(c) \in Codes \ {"ACK"}
      BY <2>2, <3>1 DEF StartCode, Quarantine, HandleRecord, Codes, Refusals, Doubts
    <3> QED
      BY <1>2, <1>3, <1>5, <2>2, <3>2, SettleOutcome DEF Start
  <2> QED
    BY <2>1, <2>2
<1>6. CASE Begin(c)
  <2>1. call'[c] = [call[c] EXCEPT !.phase = "operating", !.seen = disk[FileOf(c)]]
    BY <1>1, <1>6 DEF Begin
  <2> QED
    BY <1>1, <1>4, <2>1 DEF CallRecord
<1>7. CASE BeginTimesOut(c) \/ BeginFails(c)
  BY <1>2, <1>3, <1>7, SettleOutcome DEF BeginTimesOut, BeginFails, Codes, Refusals
<1>8. CASE Operate(c)
  <2>1. call'[c] = [call[c] EXCEPT !.phase = "committing"]
    BY <1>1, <1>8 DEF Operate, Advance
  <2> QED
    BY <1>1, <1>4, <2>1 DEF CallRecord
<1>9. CASE OperateFails(c) \/ CommitTimesOut(c)
  <2>1. PICK code \in {"REFUSED", "STORE_FILE_REPLACED", "STORE_BUSY"} :
          call' = [call EXCEPT ![c].phase = "rolling", ![c].code = code]
    BY <1>9 DEF OperateFails, CommitTimesOut
  <2>2. call'[c] = [call[c] EXCEPT !.phase = "rolling", !.code = code]
    BY <1>1, <2>1
  <2> QED
    BY <1>1, <1>4, <2>2 DEF CallRecord
<1> QED
  BY <1>5, <1>6, <1>7, <1>8, <1>9

LEMMA CommitOutcome ==
  ASSUME RInv, NEW c \in Calls, Commit(c) \/ CommitFails(c)
  PROVE  Outcome(c)
<1>1. call \in [Calls -> CallRecord] /\ call[c] \in CallRecord
  BY DEF RInv, IInv, TypeOK
<1>2. /\ call[c].phase = "committing" /\ call[c].kind \in {"transact", "open"}
  BY DEF Commit, CommitFails, RInv, IInv, CallsInv, Active
<1>3. call[c].took = FALSE
  BY <1>1, <1>2 DEF RInv, TookInv, CallRecord
<1>4. CASE Commit(c)
  <2>1. /\ call'[c] = [call[c] EXCEPT !.phase = "committed", !.took = TRUE]
        /\ disk' = [disk EXCEPT ![FileOf(c)] = Result(c)]
    BY <1>1, <1>4 DEF Commit, Write
  <2> QED
    BY <1>1, <1>2, <2>1 DEF Outcome, TakesEffect, TookStep, CallRecord
<1>5. CASE CommitFails(c)
  <2>1. CASE /\ call' = [call EXCEPT ![c].phase = "rolling", ![c].code = "COMMIT_UNCERTAIN", ![c].took = TRUE]
             /\ Write(c)
    <3>1. call'[c] = [call[c] EXCEPT !.phase = "rolling", !.code = "COMMIT_UNCERTAIN", !.took = TRUE]
      BY <1>1, <2>1
    <3> QED
      BY <1>1, <1>2, <2>1, <3>1 DEF Outcome, TakesEffect, TookStep, CallRecord, Write, Doubts
  <2>2. CASE /\ call' = [call EXCEPT ![c].phase = "rolling", ![c].code = "COMMIT_UNCERTAIN"]
             /\ UNCHANGED disk
    <3>1. call'[c] = [call[c] EXCEPT !.phase = "rolling", !.code = "COMMIT_UNCERTAIN"]
      BY <1>1, <2>2
    <3> QED
      BY <1>1, <1>2, <1>3, <2>2, <3>1 DEF Outcome, Continues, TookStep, CallRecord
  <2> QED
    BY <1>5, <2>1, <2>2 DEF CommitFails
<1> QED
  BY <1>4, <1>5

LEMMA AfterCommitOutcome ==
  ASSUME RInv, NEW c \in Calls, Rollback(c) \/ RollbackFails(c) \/ Acknowledge(c) \/ DoClose(c)
  PROVE  Outcome(c)
<1>1. call[c] \in CallRecord
  BY DEF RInv, IInv, TypeOK
<1>2. UNCHANGED disk
  BY DEF Rollback, RollbackFails, Acknowledge, DoClose
<1>3. CASE Rollback(c)
  <2>1. call[c].phase = "rolling" /\ call[c].code # "ACK" /\ Settle(c, call[c].code)
    BY <1>3 DEF Rollback, RInv, IInv, CallsInv
  <2> QED
    BY <1>1, <1>2, <2>1, SettleOutcome DEF RInv, TookInv, CallRecord
<1>4. CASE RollbackFails(c)
  BY <1>2, <1>4, SettleOutcome DEF RollbackFails, Codes, Doubts
<1>5. CASE Acknowledge(c)
  BY <1>2, <1>5, SettleOutcome DEF Acknowledge, Codes, RInv, TookInv
<1>6. CASE DoClose(c)
  <2> DEFINE code == IF call[c].kind = "close" THEN "CLOSED" ELSE call[c].code
  <2>1. call[c].phase = "queued" /\ call[c].code # "ACK" /\ Settle(c, code)
    BY <1>6 DEF DoClose, RInv, IInv, CallsInv
  <2>2. call[c].took => call[c].kind = "abandon" /\ call[c].code \in Doubts \cup {"ACK"}
    BY <2>1 DEF RInv, TookInv
  <2>3. code \in Codes \cup {None} /\ code # "ACK" /\ (call[c].took => code \in Doubts \cup {"ACK"})
    BY <1>1, <2>1, <2>2 DEF CallRecord, Codes
  <2> QED
    BY <1>2, <2>1, <2>3, SettleOutcome
<1> QED
  BY <1>3, <1>4, <1>5, <1>6

LEMMA TransactionOutcome ==
  ASSUME RInv, NEW c \in Calls, TransactionStep(c)
  PROVE  Outcome(c)
BY BeforeCommitOutcome, CommitOutcome, AfterCommitOutcome DEF TransactionStep, OrderlyStep

-----------------------------------------------------------------------------
(***************************************************************************)
(* The invariant.                                                          *)
(***************************************************************************)
LEMMA OwnStepKeepsRInv ==
  ASSUME RInv, NEW c \in Calls, OwnStep(c), Outcome(c)
  PROVE  TookInv'
<1> SUFFICES ASSUME NEW d \in Calls
             PROVE  /\ call'[d].took =>
                         \/ call'[d].phase = "committed"
                         \/ /\ call'[d].code \in Doubts \cup {"ACK"}
                            /\ call'[d].phase \in {"rolling", "done"} \/ call'[d].kind = "abandon"
                    /\ call'[d].phase = "committed" => call'[d].took
                    /\ call'[d].phase = "idle" =>
                         call'[d].request = None /\ call'[d].kind = "close" /\ ~call'[d].took
                    /\ call'[d].kind = "abandon" => call'[d].phase \in {"queued", "done"}
  BY DEF TookInv
<1>1. CASE d = c
  BY <1>1 DEF Outcome, TookStep
<1>2. CASE d # c
  BY <1>2 DEF OwnStep, OwnCall, RInv, TookInv
<1> QED
  BY <1>1, <1>2

\* Whatever a client asks for, the files stay as they are, and handles stay on them.
Asked(c, kind, request) ==
  /\ call[c].phase = "idle" /\ call[c].kind = "close" /\ call[c].request = None
  /\ call'[c].phase = "queued" /\ call'[c].kind = kind /\ call'[c].request = request
  /\ call'[c].took = FALSE
  /\ handle'[call'[c].handle].inode \in Inodes
  /\ \A d \in Calls \ {c} : call'[d] = call[d]
  /\ UNCHANGED <<path, disk, backup>>
  /\ \A h \in Handles : handle[h].state # "unused" => handle'[h].inode = handle[h].inode

LEMMA EnqueueFacts ==
  ASSUME RInv, NEW c \in Calls, NEW h, NEW kind, NEW request, NEW expected,
         call[c].phase = "idle",
         call' = [call EXCEPT ![c] = [NoCall EXCEPT !.phase = "queued", !.kind = kind, !.handle = h,
                                                    !.request = request, !.expected = expected]],
         UNCHANGED <<path, disk, backup>>,
         handle'[h].inode \in Inodes,
         \A g \in Handles : handle[g].state # "unused" => handle'[g].inode = handle[g].inode
  PROVE  Asked(c, kind, request)
<1>1. call \in [Calls -> CallRecord]
  BY DEF RInv, IInv, TypeOK
<1>2. /\ call'[c].phase = "queued" /\ call'[c].kind = kind /\ call'[c].request = request
      /\ call'[c].took = FALSE /\ call'[c].handle = h
      /\ \A d \in Calls \ {c} : call'[d] = call[d]
  BY <1>1 DEF NoCall
<1>3. call[c].kind = "close" /\ call[c].request = None
  BY DEF RInv, TookInv
<1> QED
  BY <1>2, <1>3 DEF Asked

LEMMA AskFacts ==
  ASSUME RInv, NEW h \in Handles, NEW c \in Calls,
         \/ \E p \in Processes : \E expected \in {None} \cup Checkpoints : Open(c, h, p, expected)
         \/ \E request \in Requests : Transact(c, h, request)
         \/ Close(c, h)
  PROVE  Asked(c, "close", None) \/ \E request \in Requests, kind \in {"open", "transact"} : Asked(c, kind, request)
<1>1. ASSUME NEW p \in Processes, NEW expected, Open(c, h, p, expected)
      PROVE  Asked(c, "open", Read)
  <2>1. Enqueue(c, h, p, "open", Read, expected) /\ UNCHANGED <<path, disk, backup>>
    BY <1>1 DEF Open, environment
  <2>2. handle \in [Handles -> HandleRecord] /\ path \in Inodes \cup {None}
    BY DEF RInv, IInv, TypeOK
  <2>3. handle'[h].inode = path /\ path \in Inodes /\ \A g \in Handles \ {h} : handle'[g] = handle[g]
    BY <1>1, <2>2 DEF Open, Initialised
  <2>4. \A g \in Handles : handle[g].state # "unused" => handle'[g].inode = handle[g].inode
    BY <1>1, <2>3 DEF Open
  <2> QED
    BY <2>1, <2>3, <2>4, EnqueueFacts DEF Enqueue
<1>2. ASSUME NEW request \in Requests, Transact(c, h, request)
      PROVE  Asked(c, "transact", request)
  <2>1. Enqueue(c, h, handle[h].process, "transact", request, None) /\ UNCHANGED <<path, disk, backup, handle>>
    BY <1>2 DEF Transact, environment
  <2>2. handle[h].inode \in Inodes
    BY <1>2 DEF Transact, RInv, IInv, HandlesInv
  <2> QED
    BY <2>1, <2>2, EnqueueFacts DEF Enqueue
<1>3. ASSUME Close(c, h)
      PROVE  Asked(c, "close", None)
  <2>1. Enqueue(c, h, handle[h].process, "close", None, None) /\ UNCHANGED <<path, disk, backup, handle>>
    BY <1>3 DEF Close, environment
  <2>2. handle[h].inode \in Inodes
    BY <1>3 DEF Close, RInv, IInv, HandlesInv
  <2> QED
    BY <2>1, <2>2, EnqueueFacts DEF Enqueue
<1> QED
  BY <1>1, <1>2, <1>3, EffectAssumption

LEMMA CrashFacts ==
  ASSUME RInv, NEW p \in Processes, Crash(p)
  PROVE  /\ UNCHANGED <<path, disk, backup>>
         /\ \A h \in Handles : handle'[h].inode = handle[h].inode
         /\ \A c \in Calls \cap Range(queue[p]) :
              /\ call[c].phase \notin {"idle", "done"}
              /\ call'[c].phase = "done" /\ call'[c].code = "LOST" /\ call'[c].handle = call[c].handle
              /\ call'[c].kind = call[c].kind /\ call'[c].request = call[c].request
         /\ \A c \in Calls \ Range(queue[p]) : call'[c] = call[c]
<1> DEFINE lost == Range(queue[p])
<1>1. \A c \in lost : call[c].phase \notin {"idle", "done"}
  BY DEF RInv, IInv, TypeOK, ChainsInv, Range
<1> HIDE DEF lost
<1>2. /\ call' = [c \in Calls |->
           IF c \in lost
           THEN [call[c] EXCEPT !.phase = "done", !.code = "LOST", !.seen = None] ELSE call[c]]
      /\ handle' = [h \in Handles |->
           IF h \in LiveHandles(p) THEN [handle[h] EXCEPT !.state = "dead"] ELSE handle[h]]
      /\ UNCHANGED <<path, disk, backup>>
  BY DEF Crash, environment, lost
<1>3. ASSUME NEW c \in Calls, c \in lost
      PROVE  /\ call'[c].phase = "done" /\ call'[c].code = "LOST" /\ call'[c].handle = call[c].handle
             /\ call'[c].kind = call[c].kind /\ call'[c].request = call[c].request
  <2>1. call'[c] = [call[c] EXCEPT !.phase = "done", !.code = "LOST", !.seen = None] /\ call[c] \in CallRecord
    BY <1>2, <1>3 DEF RInv, IInv, TypeOK
  <2> QED
    BY <2>1 DEF CallRecord
<1>4. ASSUME NEW h \in Handles
      PROVE  handle'[h].inode = handle[h].inode
  <2>1. handle[h] \in HandleRecord
    BY DEF RInv, IInv, TypeOK
  <2> QED
    BY <1>2, <2>1 DEF LiveHandles, HandleRecord
<1> QED
  BY <1>1, <1>2, <1>3, <1>4 DEF lost

LEMMA RInvStep ==
  ASSUME RInv, [Next]_vars
  PROVE  RInv'
<1>1. IInv'
  BY NextKeepsIInv DEF RInv
<1>2. CASE UNCHANGED call
  BY <1>1, <1>2 DEF RInv, TookInv
<1>3. ASSUME NEW c \in Calls, TransactionStep(c)
      PROVE  TookInv'
  BY <1>3, TransactionIsOwnStep, TransactionOutcome, OwnStepKeepsRInv DEF RInv
<1>4. ASSUME NEW h \in Handles, NEW c \in Calls,
             \/ \E p \in Processes : \E expected \in {None} \cup Checkpoints : Open(c, h, p, expected)
             \/ \E request \in Requests : Transact(c, h, request)
             \/ Close(c, h)
      PROVE  TookInv'
  <2>1. PICK kind, request : Asked(c, kind, request) /\ kind \in {"open", "transact", "close"}
    BY <1>4, AskFacts
  <2> QED
    BY <2>1 DEF RInv, TookInv, Asked
<1>5. ASSUME NEW p \in Processes, Crash(p)
      PROVE  TookInv'
  BY <1>5, CrashFacts DEF RInv, TookInv, Doubts
<1>6. ASSUME \/ \E h \in Handles : \/ \E p \in Processes, i \in Inodes : MakeFile(h, p, i)
                                  \/ Initialise(h) \/ InitialiseFails(h)
             \/ \E i \in Inodes : ReaderMoves(i) \/ ReplaceFile(i)
             \/ TakeBackup
      PROVE  UNCHANGED call
  BY <1>6 DEF MakeFile, Initialise, InitialiseFails, ReaderMoves, ReplaceFile, TakeBackup
<1>7. CASE UNCHANGED vars
  BY <1>2, <1>7 DEF vars
<1> QED
  BY <1>1, <1>2, <1>3, <1>4, <1>5, <1>6, <1>7
     DEF Next, ProcessStep, ClientStep, EnvironmentStep, RInv

LEMMA RInvAlways == Spec => []RInv
<1>1. Init => RInv
  BY InitIInv DEF Init, RInv, TookInv, NoCall
<1>2. RInv /\ [Next]_vars => RInv'
  BY RInvStep
<1> QED
  BY <1>1, <1>2, PTL DEF Spec

-----------------------------------------------------------------------------
(***************************************************************************)
(* Every step of the store is a step of AtomicLedger or none at all.       *)
(***************************************************************************)
\* Calls stay on the files of their handles, and handles on their files.
LEMMA LedgersStay ==
  ASSUME RInv,
         \A c \in Calls : /\ call'[c].handle = call[c].handle
                          /\ call'[c].kind = "close" <=> call[c].kind = "close",
         \A h \in Handles : handle[h].state # "unused" => handle'[h].inode = handle[h].inode
  PROVE  \A c \in Calls : LedgerOf(call[c])' = LedgerOf(call[c])
<1> SUFFICES ASSUME NEW c \in Calls, call[c].kind # "close"
             PROVE  handle'[call[c].handle].inode = handle[call[c].handle].inode
  BY DEF LedgerOf
<1>1. call[c].handle \in Handles /\ handle[call[c].handle].state # "unused"
  BY DEF RInv, TookInv, IInv, CallsInv, HandleOf
<1> QED
  BY <1>1

LEMMA Stutters ==
  ASSUME \A c \in Calls : /\ Status(call'[c]) = Status(call[c]) /\ Reply(call'[c]) = Reply(call[c])
                          /\ call'[c].request = call[c].request
                          /\ LedgerOf(call[c])' = LedgerOf(call[c]),
         UNCHANGED <<Logs, Copies>>
  PROVE  UNCHANGED Atomic!vars
BY DEF Atomic!vars

LEMMA OneMoves ==
  ASSUME NEW c \in Calls, \A d \in Calls \ {c} : call'[d] = call[d],
         call'[c].request = call[c].request,
         \A d \in Calls : LedgerOf(call[d])' = LedgerOf(call[d]),
         UNCHANGED Copies,
         \/ /\ Status(call'[c]) = Status(call[c]) /\ Reply(call'[c]) = Reply(call[c])
            /\ UNCHANGED Logs
         \/ /\ Status(call[c]) = "pending" /\ Status(call'[c]) = "applied"
            /\ LedgerOf(call[c]) \in DOMAIN Logs
            /\ Reply(call'[c]) = Effect(Logs[LedgerOf(call[c])], call[c].request).outcome
            /\ Logs' = [Logs EXCEPT ![LedgerOf(call[c])] =
                          Effect(Logs[LedgerOf(call[c])], call[c].request).bundle]
         \/ /\ Status(call[c]) = "applied" /\ Status(call'[c]) = "answered"
            /\ Reply(call'[c]) = Reply(call[c]) /\ UNCHANGED Logs
         \/ /\ Status(call[c]) = "pending" /\ Status(call'[c]) = "refused"
            /\ UNCHANGED Logs
         \/ /\ Status(call[c]) \in {"pending", "applied"} /\ Status(call'[c]) = "unknown"
            /\ UNCHANGED Logs
  PROVE  [Atomic!Next]_Atomic!vars
<1>1. CASE /\ Status(call'[c]) = Status(call[c]) /\ Reply(call'[c]) = Reply(call[c])
           /\ UNCHANGED Logs
  BY <1>1, Stutters
<1> DEFINE On == [d \in Calls |-> LedgerOf(call[d])]
           Asks == [d \in Calls |-> call[d].request]
<1>2. UNCHANGED <<On, Asks>>
  OBVIOUS
<1>3. CASE /\ Status(call[c]) = "pending" /\ Status(call'[c]) = "applied"
           /\ LedgerOf(call[c]) \in DOMAIN Logs
           /\ Reply(call'[c]) = Effect(Logs[LedgerOf(call[c])], call[c].request).outcome
           /\ Logs' = [Logs EXCEPT ![LedgerOf(call[c])] =
                         Effect(Logs[LedgerOf(call[c])], call[c].request).bundle]
  <2>1. Atomic!Apply(c)
    BY <1>2, <1>3 DEF Atomic!Apply
  <2> QED
    BY <2>1 DEF Atomic!Next
<1>4. CASE /\ Status(call[c]) = "applied" /\ Status(call'[c]) = "answered"
           /\ Reply(call'[c]) = Reply(call[c]) /\ UNCHANGED Logs
  <2>1. Atomic!Answer(c)
    BY <1>2, <1>4 DEF Atomic!Answer
  <2> QED
    BY <2>1 DEF Atomic!Next
<1>5. CASE /\ Status(call[c]) = "pending" /\ Status(call'[c]) = "refused"
           /\ UNCHANGED Logs
  <2>1. Reply(call'[c]) = Reply(call[c])
    BY <1>5 DEF Reply
  <2>2. Atomic!Refuse(c)
    BY <1>2, <1>5, <2>1 DEF Atomic!Refuse
  <2> QED
    BY <2>2 DEF Atomic!Next
<1>6. CASE /\ Status(call[c]) \in {"pending", "applied"} /\ Status(call'[c]) = "unknown"
           /\ UNCHANGED Logs
  <2>1. Reply(call'[c]) = None
    BY <1>6 DEF Reply
  <2>2. Atomic!Doubt
    <3>1. {c} \in SUBSET {d \in Calls : Status(call[d]) \in {"pending", "applied"}}
      BY <1>6
    <3>2. /\ [d \in Calls |-> Status(call'[d])] =
               [d \in Calls |-> IF d \in {c} THEN "unknown" ELSE Status(call[d])]
          /\ [d \in Calls |-> Reply(call'[d])] =
               [d \in Calls |-> IF d \in {c} THEN None ELSE Reply(call[d])]
          /\ UNCHANGED <<Logs, Copies, On, Asks>>
      BY <1>2, <1>6, <2>1
    <3> QED
      BY <3>1, <3>2 DEF Atomic!Doubt
  <2> QED
    BY <2>2 DEF Atomic!Next
<1> QED
  BY <1>1, <1>3, <1>4, <1>5, <1>6

\* A call that has its turn is on the file of its handle, and has not ended.
LEMMA TurnIsOnItsLedger ==
  ASSUME RInv, NEW c \in Calls, Turn(c)
  PROVE  /\ call[c].phase \notin {"idle", "done"}
         /\ call[c].kind # "close" =>
              /\ LedgerOf(call[c]) = FileOf(c)
              /\ Status(call[c]) = IF call[c].took THEN "applied" ELSE "pending"
BY DEF Turn, Status, LedgerOf, FileOf, HandleOf

LEMMA TransactionRefines ==
  ASSUME RInv, NEW c \in Calls, OwnStep(c), Outcome(c)
  PROVE  [Atomic!Next]_Atomic!vars
<1>1. /\ call[c].phase \notin {"idle", "done"}
      /\ call[c].kind # "close" =>
           /\ LedgerOf(call[c]) = FileOf(c)
           /\ Status(call[c]) = IF call[c].took THEN "applied" ELSE "pending"
  BY TurnIsOnItsLedger DEF OwnStep
<1>2. /\ \A d \in Calls \ {c} : call'[d] = call[d]
      /\ call'[c].request = call[c].request /\ call'[c].handle = call[c].handle
      /\ backup' = backup /\ call'[c].phase # "idle"
      /\ call'[c].kind = "close" <=> call[c].kind = "close"
  BY DEF OwnStep, OwnCall, environment, Outcome, TookStep
<1>3. \A d \in Calls : LedgerOf(call[d])' = LedgerOf(call[d])
  <2>1. \A h \in Handles : handle'[h].inode = handle[h].inode
    BY DEF OwnStep, OwnHandle
  <2>2. \A d \in Calls : /\ call'[d].handle = call[d].handle
                         /\ call'[d].kind = "close" <=> call[d].kind = "close"
    BY <1>2
  <2> QED
    BY <2>1, <2>2, LedgersStay
<1>4. UNCHANGED Copies
  BY <1>2 DEF Copies
<1>5. ASSUME UNCHANGED disk
      PROVE  UNCHANGED Logs
  BY <1>5 DEF Logs
<1>6. CASE call[c].kind = "close"
  <2>1. Status(call'[c]) = "idle" /\ Status(call[c]) = "idle"
    BY <1>2, <1>6 DEF Status
  <2>2. ~TakesEffect(c)
    BY <1>6 DEF TakesEffect, RInv, IInv, CallsInv, Active
  <2>3. UNCHANGED disk
    BY <2>2 DEF Outcome, Continues, Ends
  <2> QED
    BY <1>2, <1>3, <1>4, <1>5, <2>1, <2>3, OneMoves DEF Reply
<1>7. CASE call[c].kind # "close" /\ Continues(c)
  <2>1. Status(call'[c]) = Status(call[c])
    BY <1>1, <1>2, <1>7 DEF Continues, Status
  <2>2. Reply(call'[c]) = Reply(call[c])
    BY <1>1, <1>2, <1>7, <2>1 DEF Continues, Reply
  <2> QED
    BY <1>2, <1>3, <1>4, <1>5, <1>7, <2>1, <2>2, OneMoves DEF Continues
<1>8. CASE call[c].kind # "close" /\ TakesEffect(c)
  <2> DEFINE i == FileOf(c)
  <2>1. /\ call[c].seen = disk[i] /\ disk[i] \in Stored /\ i \in Inodes
        /\ Result(c) \in Stored /\ Result(c).bundle = Effect(disk[i].bundle, call[c].request).bundle
    BY <1>1, <1>8, ServingFacts DEF TakesEffect, RInv, Serving, Active, Result, After
  <2>2. disk' = [disk EXCEPT ![i] = Result(c)] /\ disk \in [Inodes -> Stored \cup {None, Blank}]
    BY <1>8 DEF TakesEffect, RInv, IInv, TypeOK
  <2> HIDE DEF i
  <2>3. i \in DOMAIN Logs /\ Logs[i] = disk[i].bundle
    BY <2>1 DEF Logs
  <2>4. Logs' = [Logs EXCEPT ![i] = Result(c).bundle]
    <3>1. {j \in Inodes : disk'[j] \in Stored} = {j \in Inodes : disk[j] \in Stored}
      BY <2>1, <2>2
    <3>2. \A j \in Inodes : disk'[j].bundle = IF j = i THEN Result(c).bundle ELSE disk[j].bundle
      BY <2>2
    <3> QED
      BY <3>1, <3>2, <2>1 DEF Logs
  <2>5. ~call[c].took
    BY <1>8 DEF TakesEffect, RInv, TookInv, IInv, CallsInv, Active
  <2>6. Status(call[c]) = "pending" /\ Status(call'[c]) = "applied"
    BY <1>1, <1>2, <1>8, <2>5 DEF TakesEffect, Status
  <2>7. Reply(call'[c]) = Effect(Logs[i], call[c].request).outcome
    BY <1>2, <1>8, <2>1, <2>3, <2>6 DEF TakesEffect, Reply
  <2> QED
    BY <1>1, <1>2, <1>3, <1>4, <1>8, <2>1, <2>3, <2>4, <2>6, <2>7, OneMoves DEF i
<1>9. CASE call[c].kind # "close" /\ Ends(c)
  <2>1. UNCHANGED Logs
    BY <1>5, <1>9 DEF Ends
  <2>2. CASE call'[c].code = "ACK"
    <3>1. Status(call[c]) = "applied" /\ Status(call'[c]) = "answered"
      BY <1>1, <1>2, <1>9, <2>2 DEF Ends, RInv, TookInv, Status
    <3>2. Reply(call'[c]) = Reply(call[c])
      BY <1>2, <1>9, <2>2, <3>1 DEF Ends, Reply
    <3> QED
      BY <1>2, <1>3, <1>4, <2>1, <3>1, <3>2, OneMoves
  <2>3. CASE call'[c].code # "ACK" /\ call'[c].code \in Doubts
    <3>1. Status(call[c]) \in {"pending", "applied"} /\ Status(call'[c]) = "unknown"
      BY <1>1, <1>2, <1>9, <2>3 DEF Ends, Status
    <3> QED
      BY <1>2, <1>3, <1>4, <2>1, <3>1, OneMoves
  <2>4. CASE call'[c].code # "ACK" /\ call'[c].code \notin Doubts
    <3>1. ~call[c].took
      BY <1>9, <2>4 DEF Ends, Outcome, TookStep
    <3>2. Status(call[c]) = "pending" /\ Status(call'[c]) = "refused"
      BY <1>1, <1>2, <1>9, <2>4, <3>1 DEF Ends, Status
    <3> QED
      BY <1>2, <1>3, <1>4, <2>1, <3>2, OneMoves
  <2> QED
    BY <2>2, <2>3, <2>4
<1> QED
  BY <1>6, <1>7, <1>8, <1>9 DEF Outcome

LEMMA AskRefines ==
  ASSUME RInv, NEW c \in Calls, NEW kind, NEW request, Asked(c, kind, request),
         \/ kind = "close" /\ request = None
         \/ kind \in {"open", "transact"} /\ request \in Requests
  PROVE  [Atomic!Next]_Atomic!vars
<1>1. UNCHANGED <<Logs, Copies>>
  BY DEF Asked, Logs, Copies
<1>2. Status(call[c]) = "idle" /\ LedgerOf(call[c]) = None
  BY DEF Asked, Status, LedgerOf
<1>3. \A d \in Calls \ {c} : LedgerOf(call[d])' = LedgerOf(call[d])
  <2> SUFFICES ASSUME NEW d \in Calls \ {c}, call[d].kind # "close"
               PROVE  handle'[call[d].handle].inode = handle[call[d].handle].inode
    BY DEF Asked, LedgerOf
  <2>1. call[d].handle \in Handles /\ handle[call[d].handle].state # "unused"
    BY DEF RInv, TookInv, IInv, CallsInv, HandleOf
  <2> QED
    BY <2>1 DEF Asked
<1>4. CASE kind = "close" /\ request = None
  <2>1. /\ Status(call'[c]) = "idle" /\ call'[c].request = call[c].request
        /\ LedgerOf(call[c])' = None
    BY <1>4 DEF Asked, Status, LedgerOf
  <2>2. Reply(call'[c]) = Reply(call[c])
    BY <1>2, <2>1 DEF Reply
  <2>3. \A d \in Calls : LedgerOf(call[d])' = LedgerOf(call[d])
    BY <1>2, <1>3, <2>1
  <2> QED
    BY <1>1, <1>2, <2>1, <2>2, <2>3, OneMoves DEF Asked
<1>5. CASE kind \in {"open", "transact"} /\ request \in Requests
  <2> DEFINE i == handle'[call'[c].handle].inode
  <2>1. Status(call'[c]) = "pending"
    BY <1>5 DEF Asked, Status
  <2>2. Reply(call'[c]) = Reply(call[c])
    BY <1>2, <2>1 DEF Reply
  <2>3. i \in Inodes /\ LedgerOf(call[c])' = i
    BY <1>5 DEF Asked, LedgerOf
  <2>4. /\ \A d \in Calls \ {c} : call'[d] = call[d]
        /\ call'[c].request = request
    BY DEF Asked
  <2> HIDE DEF i
  <2>5. [d \in Calls |-> LedgerOf(call[d])]' = [[d \in Calls |-> LedgerOf(call[d])] EXCEPT ![c] = i]
    BY <1>3, <2>3
  <2>6. Atomic!Ask(c, i, request)
    BY <1>1, <1>2, <2>1, <2>2, <2>4, <2>5 DEF Atomic!Ask
  <2> QED
    BY <1>5, <2>3, <2>6 DEF Atomic!Next
<1> QED
  BY <1>4, <1>5

LEMMA CrashRefines ==
  ASSUME RInv, NEW p \in Processes, Crash(p)
  PROVE  [Atomic!Next]_Atomic!vars
<1> DEFINE lost == {c \in Calls \cap Range(queue[p]) : call[c].kind # "close"}
<1>1. UNCHANGED <<Logs, Copies>>
  BY CrashFacts DEF Logs, Copies
<1>2. \A c \in Calls : /\ call'[c].request = call[c].request /\ call'[c].handle = call[c].handle
                       /\ call'[c].kind = call[c].kind
  BY CrashFacts
<1>3. \A c \in Calls : LedgerOf(call[c])' = LedgerOf(call[c])
  BY <1>2, CrashFacts, LedgersStay
<1>4. \A c \in lost : Status(call[c]) \in {"pending", "applied"} /\ Status(call'[c]) = "unknown"
  BY CrashFacts DEF Status, Doubts
<1>5. \A c \in Calls \ lost : Status(call'[c]) = Status(call[c]) /\ Reply(call'[c]) = Reply(call[c])
  <2>1. \A c \in Calls \ Range(queue[p]) : call'[c] = call[c]
    BY CrashFacts
  <2>2. ASSUME NEW c \in Calls, c \in Range(queue[p]), call[c].kind = "close"
        PROVE  Status(call'[c]) = "idle" /\ Status(call[c]) = "idle"
    BY <2>2, CrashFacts DEF Status
  <2> QED
    BY <2>1, <2>2 DEF Reply
<1>6. \A c \in lost : Reply(call'[c]) = None
  BY <1>4 DEF Reply
<1> HIDE DEF lost
<1>7. lost \in SUBSET {c \in Calls : Status(call[c]) \in {"pending", "applied"}}
  BY <1>4 DEF lost
<1>8. /\ [c \in Calls |-> Status(call'[c])] =
           [c \in Calls |-> IF c \in lost THEN "unknown" ELSE Status(call[c])]
      /\ [c \in Calls |-> Reply(call'[c])] =
           [c \in Calls |-> IF c \in lost THEN None ELSE Reply(call[c])]
      /\ UNCHANGED <<[c \in Calls |-> call[c].request], [c \in Calls |-> LedgerOf(call[c])]>>
  BY <1>2, <1>3, <1>4, <1>5, <1>6
<1>9. Atomic!Doubt
  BY <1>1, <1>7, <1>8 DEF Atomic!Doubt
<1> QED
  BY <1>9 DEF Atomic!Next

\* A file gets its first ledger.
LEMMA FileBegins ==
  ASSUME RInv, NEW i \in Inodes, disk[i] \notin Stored, NEW stored \in Stored,
         disk' = [disk EXCEPT ![i] = stored], UNCHANGED <<Copies, call>>,
         \A h \in Handles : handle[h].state # "unused" => handle'[h].inode = handle[h].inode
  PROVE  Atomic!Begins(i, stored.bundle)
<1>1. disk \in [Inodes -> Stored \cup {None, Blank}]
  BY DEF RInv, IInv, TypeOK
<1>2. i \notin DOMAIN Logs /\ DOMAIN Logs = {j \in Inodes : disk[j] \in Stored}
  BY DEF Logs
<1>3. {j \in Inodes : disk'[j] \in Stored} = {j \in Inodes : disk[j] \in Stored} \cup {i}
  BY <1>1
<1>4. \A j \in Inodes : disk'[j] = IF j = i THEN stored ELSE disk[j]
  BY <1>1
<1>5. Logs' = [k \in DOMAIN Logs \cup {i} |-> IF k = i THEN stored.bundle ELSE Logs[k]]
  BY <1>2, <1>3, <1>4 DEF Logs
<1>6. \A c \in Calls : LedgerOf(call[c])' = LedgerOf(call[c])
  BY LedgersStay
<1>7. UNCHANGED [c \in Calls |-> LedgerOf(call[c])]
  BY <1>6
<1> QED
  BY <1>2, <1>5, <1>7 DEF Atomic!Begins

LEMMA CreationRefines ==
  ASSUME RInv, NEW h \in Handles,
         \/ \E p \in Processes, i \in Inodes : MakeFile(h, p, i)
         \/ Initialise(h) \/ InitialiseFails(h)
  PROVE  [Atomic!Next]_Atomic!vars
<1>1. /\ handle \in [Handles -> HandleRecord] /\ disk \in [Inodes -> Stored \cup {None, Blank}]
      /\ UNCHANGED <<call, Copies>>
  BY DEF RInv, IInv, TypeOK, MakeFile, Initialise, InitialiseFails, environment, Copies
<1>2. \A g \in Handles : handle[g].state # "unused" => handle'[g].inode = handle[g].inode
  <2>1. ASSUME handle[h].state = "unused", \E record : handle' = [handle EXCEPT ![h] = record]
        PROVE  \A g \in Handles : handle[g].state # "unused" => handle'[g].inode = handle[g].inode
    BY <1>1, <2>1
  <2>2. ASSUME NEW state, handle' = [handle EXCEPT ![h].state = state]
        PROVE  \A g \in Handles : handle'[g].inode = handle[g].inode
    BY <1>1, <2>2 DEF HandleRecord
  <2> QED
    BY <2>1, <2>2 DEF MakeFile, Initialise, InitialiseFails
<1>3. CASE UNCHANGED Logs
  <2>1. \A c \in Calls : LedgerOf(call[c])' = LedgerOf(call[c])
    BY <1>1, <1>2, LedgersStay
  <2> QED
    BY <1>1, <1>3, <2>1, Stutters
<1>4. CASE UNCHANGED disk
  BY <1>3, <1>4 DEF Logs
<1>5. ASSUME NEW p \in Processes, NEW i \in Inodes, MakeFile(h, p, i)
      PROVE  UNCHANGED Logs
  <2>1. disk[i] = None /\ disk' = [disk EXCEPT ![i] = Blank]
    BY <1>5 DEF MakeFile, Vacant
  <2>2. \A j \in Inodes : disk'[j] \in Stored <=> disk[j] \in Stored
    BY <1>1, <2>1, StoreAssumption
  <2>3. \A j \in Inodes : disk[j] \in Stored => disk'[j] = disk[j]
    BY <1>1, <2>1, StoreAssumption
  <2> QED
    BY <2>2, <2>3 DEF Logs
<1>6. CASE \E p \in Processes, i \in Inodes : MakeFile(h, p, i)
  BY <1>3, <1>5, <1>6
<1>7. CASE (Initialise(h) \/ InitialiseFails(h)) /\ disk' # disk
  <2> DEFINE i == handle[h].inode
             empty == [version |-> 0, bundle |-> <<>>]
  <2>1. i \in Inodes /\ disk[i] = Blank /\ disk' = [disk EXCEPT ![i] = empty]
    BY <1>7 DEF Initialise, InitialiseFails, RInv, IInv, HandlesInv
  <2>2. empty \in Stored /\ disk[i] \notin Stored
    BY <2>1, EffectAssumption, StoreAssumption DEF Stored
  <2> HIDE DEF i
  <2>3. Atomic!Begins(i, <<>>)
    BY <1>1, <1>2, <2>1, <2>2, FileBegins
  <2> QED
    BY <2>1, <2>3 DEF Atomic!Create, Atomic!Next
<1> QED
  BY <1>4, <1>6, <1>7

\* The operator puts a ledger aside, or in the place of the one at the path.
LEMMA CopyingRefines ==
  ASSUME RInv, TakeBackup \/ \E i \in Inodes : ReplaceFile(i)
  PROVE  [Atomic!Next]_Atomic!vars
<1>1. \A c \in Calls : LedgerOf(call[c])' = LedgerOf(call[c])
  BY DEF TakeBackup, ReplaceFile, LedgerOf
<1>2. CASE TakeBackup
  <2>1. /\ path \in Inodes /\ disk[path] \in Stored /\ backup = None /\ backup' = disk[path]
        /\ UNCHANGED <<disk, call>>
    BY <1>2 DEF TakeBackup, RInv, IInv, TypeOK
  <2>2. path \in DOMAIN Logs /\ Logs[path] = disk[path].bundle /\ UNCHANGED Logs
    BY <2>1 DEF Logs
  <2>3. Copies = {} /\ Copies' = {disk[path].bundle}
    BY <2>1, StoreAssumption DEF Copies
  <2>4. UNCHANGED [c \in Calls |-> LedgerOf(call[c])]
    BY <1>1
  <2>5. Atomic!Copy(path)
    BY <2>1, <2>2, <2>3, <2>4 DEF Atomic!Copy
  <2> QED
    BY <2>1, <2>5 DEF Atomic!Next
<1>3. ASSUME NEW i \in Inodes, ReplaceFile(i)
      PROVE  [Atomic!Next]_Atomic!vars
  <2>1. /\ backup \in Stored /\ disk[i] = None /\ disk' = [disk EXCEPT ![i] = backup]
        /\ UNCHANGED <<backup, handle, call>>
    BY <1>3 DEF ReplaceFile, RInv, IInv, TypeOK
  <2>2. disk[i] \notin Stored /\ backup.bundle \in Copies /\ UNCHANGED Copies
    BY <2>1, StoreAssumption DEF Copies
  <2>3. Atomic!Begins(i, backup.bundle)
    BY <2>1, <2>2, FileBegins
  <2>4. Atomic!Restore(i)
    BY <2>2, <2>3 DEF Atomic!Restore
  <2> QED
    BY <2>4 DEF Atomic!Next
<1> QED
  BY <1>2, <1>3

LEMMA StepRefines ==
  ASSUME RInv, [Next]_vars
  PROVE  [Atomic!Next]_Atomic!vars
<1>1. CASE UNCHANGED <<disk, backup, handle, call>>
  BY <1>1, Stutters DEF Logs, Copies, LedgerOf
<1>2. ASSUME NEW c \in Calls, TransactionStep(c)
      PROVE  [Atomic!Next]_Atomic!vars
  BY <1>2, TransactionIsOwnStep, TransactionOutcome, TransactionRefines DEF RInv
<1>3. ASSUME NEW h \in Handles, NEW c \in Calls,
             \/ \E p \in Processes : \E expected \in {None} \cup Checkpoints : Open(c, h, p, expected)
             \/ \E request \in Requests : Transact(c, h, request)
             \/ Close(c, h)
      PROVE  [Atomic!Next]_Atomic!vars
  BY <1>3, AskFacts, AskRefines
<1>4. CASE \E i \in Inodes : ReaderMoves(i)
  BY <1>1, <1>4 DEF ReaderMoves
<1>5. CASE UNCHANGED vars
  BY <1>1, <1>5 DEF vars
<1> QED
  BY <1>2, <1>3, <1>4, <1>5, CreationRefines, CrashRefines, CopyingRefines
     DEF Next, ProcessStep, ClientStep, EnvironmentStep

\* Whatever handles, processes, timeouts, errors, crashes and replaced files lie behind it,
\* each file is one atomic ledger: a call takes effect on it once, at the COMMIT between its
\* request and its answer, and a refusal means that it never will (store.ts:69-192).
THEOREM StoreImplementsAtomicLedger == Spec => ImplementsAtomicLedger
<1>1. ASSUME Init
      PROVE  Atomic!Init
  <2>1. Logs = <<>>
    <3>1. {j \in Inodes : disk[j] \in Stored} = {}
      BY <1>1, StoreAssumption DEF Init
    <3>2. DOMAIN Logs = {} /\ Logs = [i \in DOMAIN Logs |-> Logs[i]]
      BY <3>1 DEF Logs
    <3> QED
      BY <3>2
  <2>2. Copies = {}
    BY <1>1 DEF Init, Copies
  <2> QED
    BY <1>1, <2>1, <2>2 DEF Init, NoCall, Atomic!Init, LedgerOf, Status, Reply
<1>2. RInv /\ [Next]_vars => [Atomic!Next]_Atomic!vars
  BY StepRefines
<1> QED
  BY <1>1, <1>2, RInvAlways, PTL DEF Spec, ImplementsAtomicLedger, Atomic!Spec
-----------------------------------------------------------------------------
(***************************************************************************)
(* The ledgers that the store keeps.                                       *)
(***************************************************************************)
\* A ledger that submissions alone have made, one after the other.
Healthy(bundle) == \E sim : Sound(sim) /\ sim.records = bundle

\* All ledgers that the store keeps, has put aside or has read are of this kind.
HealthInv ==
  /\ \A i \in Inodes : disk[i] \in Stored => Healthy(disk[i].bundle)
  /\ backup \in Stored => Healthy(backup.bundle)
  /\ \A c \in Calls : call[c].seen \in Stored => Healthy(call[c].seen.bundle)

\* The inductive invariant.
HInv == IInv /\ HealthInv
-----------------------------------------------------------------------------
(***************************************************************************)
(* What a submission makes of a stored ledger.                             *)
(***************************************************************************)
LEMMA EmptyIsHealthy == Healthy(<<>>)
<1>1. Fresh.records = <<>>
  BY DEF Fresh
<1> QED
  BY <1>1, FreshIsSound DEF Healthy

LEMMA HealthyRestores ==
  ASSUME NEW b, Healthy(b)
  PROVE  Sound(Restore(b)) /\ Restore(b).records = b
BY SoundRestores DEF Healthy

LEMMA ExecuteKeepsHealth ==
  ASSUME NEW b, Healthy(b), NEW r \in LedgerRequests
  PROVE  Healthy(Execute(b, r).bundle)
<1>1. CASE r = Read
  BY <1>1 DEF Execute
<1>2. CASE r # Read
  <2>1. r \in Submissions
    BY <1>2 DEF LedgerRequests
  <2>2. Sound(Transacted(Restore(b), r))
    BY <2>1, HealthyRestores, TransactedIsSound
  <2>3. Execute(b, r).bundle = Transacted(Restore(b), r).records
    BY <1>2 DEF Execute
  <2> QED
    BY <2>2, <2>3 DEF Healthy
<1> QED
  BY <1>1, <1>2

\* What the store assumes of its operations is true of submissions and views: on ledgers
\* that they have made, they make another such ledger, with at most one record more
\* (ledger.ts:35-66).
THEOREM OperationsFitTheStore ==
  LET Ledgers == {b \in Seq(Records) : Healthy(b)}
  IN  /\ <<>> \in Ledgers
      /\ \A b \in Ledgers : Execute(b, Read).bundle = b
      /\ \A b \in Ledgers, r \in LedgerRequests :
           LET after == Execute(b, r).bundle
           IN  after \in Ledgers /\ (after = b \/ (Len(after) = Len(b) + 1 /\ Front(after) = b))
<1> DEFINE Ledgers == {b \in Seq(Records) : Healthy(b)}
<1>1. <<>> \in Ledgers
  BY EmptyIsHealthy
<1>2. \A b \in Ledgers : Execute(b, Read).bundle = b
  BY DEF Execute
<1>3. ASSUME NEW b \in Ledgers, NEW r \in LedgerRequests
      PROVE  LET after == Execute(b, r).bundle
             IN  after \in Ledgers /\ (after = b \/ (Len(after) = Len(b) + 1 /\ Front(after) = b))
  <2> DEFINE sim == Restore(b)
             after == Execute(b, r).bundle
  <2>1. b \in Seq(Records) /\ Healthy(b) /\ Sound(sim) /\ sim.records = b
    BY HealthyRestores
  <2>2. Healthy(after)
    BY <2>1, ExecuteKeepsHealth
  <2> HIDE DEF sim
  <2>3. CASE r = Read
    BY <2>1, <2>3 DEF Execute
  <2>4. CASE r # Read /\ Silent(sim, r)
    BY <2>1, <2>4 DEF Execute, Transacted, sim
  <2>5. CASE r # Read /\ ~Silent(sim, r)
    <3>1. r \in Submissions /\ sim \in Simulations
      BY <2>1, <2>5 DEF LedgerRequests, Sound
    <3>2. after = Recorded(sim, sim, r).records
      BY <2>5 DEF Execute, Transacted, sim
    <3>3. /\ after \in Seq(Records) /\ Len(after) = Len(b) + 1
          /\ \A n \in 1 .. Len(b) : after[n] = b[n]
      <4> DEFINE next == Recorded(sim, sim, r)
      <4>1. /\ next \in Simulations /\ Len(next.records) = Len(sim.records) + 1
            /\ \A n \in 1 .. Len(sim.records) : next.records[n] = sim.records[n]
        BY <3>1, RecordedFacts
      <4> HIDE DEF next
      <4>2. next.records \in Seq(Records)
        BY <4>1 DEF Simulations
      <4>3. after = next.records
        BY <3>2 DEF next
      <4> HIDE DEF after
      <4> QED
        BY <2>1, <4>1, <4>2, <4>3
    <3> HIDE DEF after
    <3>4. SubSeq(after, 1, Len(b)) = b
      <4>1. /\ SubSeq(after, 1, Len(b)) \in Seq(Records) /\ Len(SubSeq(after, 1, Len(b))) = Len(b)
            /\ \A n \in 1 .. Len(b) : SubSeq(after, 1, Len(b))[n] = b[n]
        BY <2>1, <3>3
      <4> QED
        BY <2>1, <4>1, SeqEqual
    <3>5. Front(after) = b
      BY <2>1, <3>3, <3>4 DEF Front
    <3> QED
      BY <2>2, <3>3, <3>5 DEF after
  <2> QED
    BY <2>3, <2>4, <2>5
<1> QED
  BY <1>1, <1>2, <1>3
-----------------------------------------------------------------------------
(***************************************************************************)
(* Every ledger that is stored, put aside or read is healthy.              *)
(***************************************************************************)
LEMMA ResultIsHealthy ==
  ASSUME HealthInv, NEW c \in Calls, call[c].seen \in Stored, call[c].request \in Requests
  PROVE  Healthy(Result(c).bundle)
<1>1. call[c].seen.bundle \in Bundles /\ Healthy(call[c].seen.bundle)
  BY DEF HealthInv, Stored
<1>2. Result(c).bundle = Execute(call[c].seen.bundle, call[c].request).bundle
  BY <1>1, LedgerAssumption DEF Result, After
<1> QED
  BY <1>1, <1>2, ExecuteKeepsHealth, LedgerAssumption

LEMMA WellDoneKeepsHealth ==
  ASSUME IInv, HealthInv, WellDone
  PROVE  HealthInv'
<1>1. ASSUME NEW i \in Inodes, disk'[i] \in Stored
      PROVE  Healthy(disk'[i].bundle)
  BY <1>1, ResultIsHealthy, EmptyIsHealthy DEF WellDone, Written, HealthInv
<1>2. ASSUME backup' \in Stored
      PROVE  Healthy(backup'.bundle)
  BY <1>2 DEF WellDone, HealthInv
<1>3. ASSUME NEW c \in Calls, call'[c].seen \in Stored
      PROVE  Healthy(call'[c].seen.bundle)
  BY <1>3, StoreAssumption DEF WellDone, ReadBy, HealthInv
<1> QED
  BY <1>1, <1>2, <1>3 DEF HealthInv

LEMMA AlwaysHealthy == Spec => []HInv
<1>1. Init => HInv
  <2>1. ASSUME Init
        PROVE  HealthInv
    BY <2>1, StoreAssumption DEF Init, HealthInv, NoCall
  <2> QED
    BY <2>1, InitIInv DEF HInv
<1>2. ASSUME HInv, [Next]_vars
      PROVE  HInv'
  <2>1. IInv'
    BY <1>2, NextKeepsIInv DEF HInv
  <2>2. WellDone
    BY <1>2, NextIsWellDone DEF HInv
  <2> QED
    BY <1>2, <2>1, <2>2, WellDoneKeepsHealth DEF HInv
<1> QED
  BY <1>1, <1>2, PTL DEF Spec
-----------------------------------------------------------------------------
\* Whatever is stored replays, after any history of submissions, crashes and uncertain
\* commits: the next operation can always rebuild the ledger (ledger.ts:43, store.ts:103).
THEOREM StoredLedgersReplay == Spec => []StoredLedgerReplays
<1>1. HInv => StoredLedgerReplays
  BY HealthyRestores DEF HInv, HealthInv, StoredLedgerReplays, ReplayMatches
<1> QED
  BY <1>1, AlwaysHealthy, PTL

\* Retries after lost answers, crashes and uncertain commits, through whatever handle of
\* whatever process, never apply a request twice (ledger.ts:42-49).
THEOREM RetriesApplyOnce == Spec => []AppliedOnceOnDisk
<1>1. HInv => AppliedOnceOnDisk
  BY DEF HInv, HealthInv, AppliedOnceOnDisk, Healthy, Sound
<1> QED
  BY <1>1, AlwaysHealthy, PTL

\* The outcome that a call is answered with.
OutcomeOf(c) == Effect(call[c].seen.bundle, call[c].request).outcome

\* A request with an id that is submitted again, by whatever process and after whatever
\* failures, is answered as it was the first time: only a request that lost its id to
\* another one, or found the chain full, has no answer to repeat (engine.ts:164-166,
\* ledger.ts:42-49).
RetriesAgree ==
  \A c, d \in Calls :
    /\ Answered(c) /\ Answered(d) /\ FileOf(c) = FileOf(d)
    /\ call[c].request = call[d].request /\ call[c].request # Read /\ call[c].request.key # None
    /\ OutcomeOf(c).code \notin {"IDEMPOTENCY_CONFLICT", "AUDIT_CAPACITY"}
    /\ OutcomeOf(d).code \notin {"IDEMPOTENCY_CONFLICT", "AUDIT_CAPACITY"}
    => OutcomeOf(c) = OutcomeOf(d)

\* What a call was answered is on the record of the ledger that its file has now.
LEMMA AnswerStaysOnRecord ==
  ASSUME HInv, NEW c \in Calls, Answered(c), call[c].request # Read, call[c].request.key # None,
         OutcomeOf(c).code \notin {"IDEMPOTENCY_CONFLICT", "AUDIT_CAPACITY"},
         NEW sim, Sound(sim), sim.records = disk[FileOf(c)].bundle
  PROVE  OnRecord(sim, Slot(call[c].request), Digest(call[c].request), OutcomeOf(c))
<1> DEFINE s == call[c].request
           base == Restore(call[c].seen.bundle)
<1>1. /\ call[c].seen \in Stored /\ disk[FileOf(c)] \in Stored
      /\ IsPrefix(Result(c).bundle, disk[FileOf(c)].bundle)
      /\ s \in Requests
  BY DEF HInv, IInv, KeptInv, CallsInv
<1>2. s \in Submissions /\ call[c].seen.bundle \in Bundles
  BY <1>1, LedgerAssumption DEF LedgerRequests, Stored
<1>3. Sound(base)
  BY <1>1, HealthyRestores DEF HInv, HealthInv
<1>4. Effect(call[c].seen.bundle, s) = [bundle |-> Transacted(base, s).records, outcome |-> Answer(base, s)]
  BY <1>1, <1>2, LedgerAssumption DEF Execute
<1>5. OutcomeOf(c) = Answer(base, s) /\ Result(c).bundle = Transacted(base, s).records
  BY <1>4 DEF OutcomeOf, Result, After
<1> HIDE DEF base
<1>6. OnRecord(Transacted(base, s), Slot(s), Digest(s), OutcomeOf(c))
  BY <1>2, <1>3, <1>5, AnswerIsOnRecord
<1>7. Result(c).bundle \in Seq(Records) /\ sim.records \in Seq(Records)
  BY <1>2, <1>3, <1>5, TransactedIsSound DEF Sound, Simulations
<1>8. \A n \in DOMAIN Result(c).bundle : n \in DOMAIN sim.records /\ sim.records[n] = Result(c).bundle[n]
  <2>1. /\ Len(Result(c).bundle) <= Len(sim.records)
        /\ \A n \in 1 .. Len(Result(c).bundle) : Result(c).bundle[n] = sim.records[n]
    BY <1>1, <1>7, PrefixPointwise
  <2> HIDE DEF s
  <2> QED
    BY <1>7, <2>1
<1> QED
  BY <1>5, <1>6, <1>8 DEF OnRecord

THEOREM AnswersAreRepeated == Spec => []RetriesAgree
<1>1. ASSUME HInv, NEW c \in Calls, NEW d \in Calls,
             Answered(c), Answered(d), FileOf(c) = FileOf(d),
             call[c].request = call[d].request, call[c].request # Read, call[c].request.key # None,
             OutcomeOf(c).code \notin {"IDEMPOTENCY_CONFLICT", "AUDIT_CAPACITY"},
             OutcomeOf(d).code \notin {"IDEMPOTENCY_CONFLICT", "AUDIT_CAPACITY"}
      PROVE  OutcomeOf(c) = OutcomeOf(d)
  <2>1. disk[FileOf(c)] \in Stored /\ FileOf(c) \in Inodes
    BY <1>1 DEF HInv, IInv, KeptInv, CallsInv, HandlesInv, Answered, FileOf, HandleOf
  <2>2. PICK sim : Sound(sim) /\ sim.records = disk[FileOf(c)].bundle
    BY <1>1, <2>1 DEF HInv, HealthInv, Healthy
  <2>3. OnRecord(sim, Slot(call[c].request), Digest(call[c].request), OutcomeOf(c))
    BY <1>1, <2>2, AnswerStaysOnRecord
  <2>4. OnRecord(sim, Slot(call[c].request), Digest(call[c].request), OutcomeOf(d))
    BY <1>1, <2>2, AnswerStaysOnRecord
  <2> QED
    BY <2>2, <2>3, <2>4, RecordIsOne DEF Sound
<1>2. HInv => RetriesAgree
  BY <1>1 DEF RetriesAgree
<1> QED
  BY <1>2, AlwaysHealthy, PTL
=============================================================================
