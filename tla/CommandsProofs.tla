---------------------------- MODULE CommandsProofs ----------------------------
(***************************************************************************)
(* What the commands of src/cli.ts do to files, and what they let through, *)
(* proved for any number of processes, files, names and command lines.     *)
(***************************************************************************)
EXTENDS Commands, SequenceTheorems, TLAPS

\* Sequences over whatever they hold.
LEMMA SeqIsSeq ==
  ASSUME NEW S, NEW s \in Seq(S)
  PROVE  IsSeq(s)
<1> DEFINE T == {s[at] : at \in DOMAIN s}
<1>1. s = [at \in 1 .. Len(s) |-> s[at]] /\ Len(s) \in Nat /\ DOMAIN s = 1 .. Len(s)
  BY LenProperties, ElementOfSeq
<1>2. \A at \in 1 .. Len(s) : s[at] \in T
  BY <1>1
<1> HIDE DEF T
<1>3. s \in Seq(T)
  BY <1>1, <1>2
<1> QED
  BY <1>3 DEF IsSeq, T

LEMMA SeqLen ==
  ASSUME NEW s, IsSeq(s)
  PROVE  Len(s) \in Nat /\ DOMAIN s = 1 .. Len(s)
BY LenProperties DEF IsSeq

LEMMA EmptyIsSeq == IsSeq(<< >>)
<1>1. << >> \in Seq({})
  OBVIOUS
<1> QED
  BY <1>1, SeqIsSeq

LEMMA OneIsSeq ==
  ASSUME NEW x
  PROVE  IsSeq(<<x>>)
<1>1. <<x>> \in Seq({x})
  OBVIOUS
<1> QED
  BY <1>1, SeqIsSeq

LEMMA FunctionIsSeq ==
  ASSUME NEW n \in Nat, NEW s, DOMAIN s = 1 .. n, s = [at \in 1 .. n |-> s[at]]
  PROVE  IsSeq(s) /\ Len(s) = n
<1> DEFINE T == {s[at] : at \in DOMAIN s}
<1>1. \A at \in 1 .. n : s[at] \in T
  OBVIOUS
<1> HIDE DEF T
<1>2. s \in Seq(T) /\ Len(s) = n
  BY <1>1
<1> QED
  BY <1>2, SeqIsSeq

LEMMA TailIsSeq ==
  ASSUME NEW s, IsSeq(s), s # << >>
  PROVE  /\ IsSeq(Tail(s)) /\ Len(Tail(s)) = Len(s) - 1
         /\ \A at \in DOMAIN Tail(s) : at + 1 \in DOMAIN s /\ Tail(s)[at] = s[at + 1]
         /\ Len(s) >= 1 /\ 1 \in DOMAIN s /\ Head(s) = s[1]
<1> DEFINE T == {s[at] : at \in DOMAIN s}
<1>1. s \in Seq(T)
  BY DEF IsSeq
<1> HIDE DEF T
<1>2. Tail(s) \in Seq(T)
  BY <1>1
<1>3. Len(s) \in Nat /\ Len(s) # 0
  BY <1>1, EmptySeq
<1>4. Len(Tail(s)) = Len(s) - 1 /\ \A at \in 1 .. Len(Tail(s)) : Tail(s)[at] = s[at + 1]
  BY <1>1, <1>3
<1>5. IsSeq(Tail(s))
  BY <1>2, SeqIsSeq
<1>7. Head(s) = s[1]
  BY <1>1
<1>6. DOMAIN s = 1 .. Len(s) /\ DOMAIN Tail(s) = 1 .. Len(Tail(s))
  BY <1>5, SeqLen
<1> QED
  BY <1>3, <1>4, <1>5, <1>6, <1>7

LEMMA ConcatIsSeq ==
  ASSUME NEW s, NEW t, IsSeq(s), IsSeq(t)
  PROVE  /\ IsSeq(s \o t) /\ Len(s \o t) = Len(s) + Len(t)
         /\ \A at \in DOMAIN (s \o t) :
              \/ at \in DOMAIN s /\ (s \o t)[at] = s[at]
              \/ at - Len(s) \in DOMAIN t /\ (s \o t)[at] = t[at - Len(s)]
         /\ \A at \in DOMAIN s : (s \o t)[at] = s[at]
<1> DEFINE S == {s[at] : at \in DOMAIN s}
           T == {t[at] : at \in DOMAIN t}
           U == S \union T
<1>1. s \in Seq(S) /\ t \in Seq(T)
  BY DEF IsSeq
<1> HIDE DEF S, T
<1>2. s \in Seq(U) /\ t \in Seq(U)
  BY <1>1
<1> HIDE DEF U
<1>3. s \o t \in Seq(U) /\ Len(s \o t) = Len(s) + Len(t)
  BY <1>2
<1>4. \A at \in 1 .. Len(s) + Len(t) :
        (s \o t)[at] = IF at <= Len(s) THEN s[at] ELSE t[at - Len(s)]
  BY <1>2
<1>5. IsSeq(s \o t)
  BY <1>3, SeqIsSeq
<1>6. /\ DOMAIN s = 1 .. Len(s) /\ DOMAIN t = 1 .. Len(t) /\ Len(s) \in Nat /\ Len(t) \in Nat
      /\ DOMAIN (s \o t) = 1 .. Len(s) + Len(t)
  BY <1>3, <1>5, SeqLen
<1> QED
  BY <1>3, <1>4, <1>5, <1>6

LEMMA AppendIsSeq ==
  ASSUME NEW s, NEW x, IsSeq(s)
  PROVE  /\ IsSeq(Append(s, x)) /\ Len(Append(s, x)) = Len(s) + 1
         /\ \A at \in DOMAIN Append(s, x) :
              \/ Append(s, x)[at] = x
              \/ at \in DOMAIN s /\ Append(s, x)[at] = s[at]
<1> DEFINE S == {s[at] : at \in DOMAIN s}
           U == S \union {x}
<1>1. s \in Seq(S)
  BY DEF IsSeq
<1> HIDE DEF S
<1>2. s \in Seq(U) /\ x \in U
  BY <1>1
<1> HIDE DEF U
<1>3. Append(s, x) \in Seq(U) /\ Len(Append(s, x)) = Len(s) + 1
  BY <1>2
<1>4. \A at \in 1 .. Len(s) + 1 : Append(s, x)[at] = IF at <= Len(s) THEN s[at] ELSE x
  BY <1>2
<1>5. IsSeq(Append(s, x))
  BY <1>3, SeqIsSeq
<1>6. /\ DOMAIN s = 1 .. Len(s) /\ Len(s) \in Nat
      /\ DOMAIN Append(s, x) = 1 .. Len(s) + 1
  BY <1>3, <1>5, SeqLen
<1> QED
  BY <1>3, <1>4, <1>5, <1>6

LEMMA SubSeqIsSeq ==
  ASSUME NEW s, IsSeq(s), NEW m \in 1 .. Len(s) + 1, NEW n \in 0 .. Len(s)
  PROVE  /\ IsSeq(SubSeq(s, m, n)) /\ Len(SubSeq(s, m, n)) = IF m <= n THEN n - m + 1 ELSE 0
         /\ \A at \in 1 .. n - m + 1 : SubSeq(s, m, n)[at] = s[m + at - 1]
<1> DEFINE S == {s[at] : at \in DOMAIN s}
<1>1. s \in Seq(S)
  BY DEF IsSeq
<1> HIDE DEF S
<1>2. Len(s) \in Nat
  BY <1>1
<1>3. SubSeq(s, m, n) \in Seq(S) /\ Len(SubSeq(s, m, n)) = IF m <= n THEN n - m + 1 ELSE 0
  BY <1>1, <1>2, SubSeqProperties
<1>4. \A at \in 1 .. n - m + 1 : SubSeq(s, m, n)[at] = s[m + at - 1]
  BY <1>1, <1>2, SubSeqProperties
<1> QED
  BY <1>3, <1>4, SeqIsSeq

-----------------------------------------------------------------------------
(***************************************************************************)
(* The inductive invariant. A write adds one to the writes of its file, so *)
(* a file with as many writes as before is as it was before.               *)
(***************************************************************************)
Serving(stage) ==
  CASE stage = "create" -> {"keygen"}
    [] stage = "read" -> {"verify", "badge", "inspect", "export"}
    [] stage \in {"stat input", "stat output"} -> {"badge", "export"}
    [] stage \in {"load key", "hash"} -> {"attest", "verify"}
    [] stage = "open" -> {"attest", "badge", "export"}
    [] stage = "write" -> {"keygen", "attest", "badge", "export"}
    [] OTHER -> {}
Active == {"create", "read", "stat input", "stat output", "load key", "hash", "open", "write"}

\* A receipt that was not changed is one of those that were signed.
SignedIn(data, receipts) == data[1] = "receipt" /\ ~data[2].changed => data[2] \in receipts

IsFile(file, receipts) ==
  /\ file = [data |-> file.data, writes |-> file.writes]
  /\ file.writes \in Nat
  /\ file.data # Unused => IsData(file.data) /\ SignedIn(file.data, receipts)

LinksOk(links, files) ==
  /\ links \in [Paths -> Inodes \union Paths \union {Missing}]
  /\ \A path \in Paths :
       /\ links[path] \in Paths => links[links[path]] \notin Paths
       /\ links[path] \in Inodes => files[links[path]].data # Unused

IsEntry(entry) ==
  entry.path \in Paths /\ IsSeq(entry.buffer) /\ (entry.undisturbed => entry.cells = entry.opened)

IsReading(reading) ==
  /\ DOMAIN reading = {"inode", "offset", "hashed", "buffer", "opened"}
  /\ reading.inode \in Inodes /\ reading.offset \in Nat /\ IsSeq(reading.buffer)
  /\ reading.opened.writes \in Nat

\* What was hashed is what the file begins with, unless it was written to.
ReadsFrom(reading, file) ==
  /\ reading.opened.writes <= file.writes /\ file.data # Unused
  /\ reading.opened.writes = file.writes =>
       /\ reading.opened = file
       /\ reading.offset <= Len(Cells(file.data))
       /\ reading.hashed = SubSeq(Cells(file.data), 1, reading.offset)

IsOutput(output, receipts) ==
  /\ output = [path |-> output.path, data |-> output.data]
  /\ output.path \in Paths /\ IsData(output.data) /\ SignedIn(output.data, receipts)

Fields == {"stage", "parsed", "receipt", "key", "valid", "todo", "reading", "digests", "outputs",
           "fd", "stat", "moves", "code"}

StateOk(s, n) ==
  /\ DOMAIN s = Fields
  /\ s.stage \in Active \union {"idle", "exited"}
  /\ s.stage \in Active =>
       s.parsed # Missing /\ NamesPaths(s.parsed) /\ s.parsed.command \in Serving(s.stage)
  /\ s.moves \in Nat /\ s.moves <= n

HashingOk(s, files) ==
  /\ s.todo \in Seq(Paths)
  /\ IsSeq(s.digests) /\ \A at \in DOMAIN s.digests : IsEntry(s.digests[at])
  /\ s.reading # Missing =>
       /\ s.stage = "hash" /\ s.todo # << >>
       /\ IsReading(s.reading) /\ ReadsFrom(s.reading, files[s.reading.inode])

OutputsOk(s, files, receipts) ==
  /\ IsSeq(s.outputs) /\ \A at \in DOMAIN s.outputs : IsOutput(s.outputs[at], receipts)
  /\ s.stage \in {"create", "open", "write"} => s.outputs # << >>
  /\ s.stage \in Active \ {"read"} /\ s.parsed.command \in {"keygen", "badge", "export"} =>
       Len(s.outputs) = 1 /\ s.outputs[1].path = OutPath(s.parsed)
  /\ s.stage = "write" => s.fd \in Inodes /\ files[s.fd].data # Unused
  /\ s.stage \in {"stat output", "open", "write"} /\ s.parsed.command \in {"badge", "export"} =>
       s.stat \in Inodes /\ files[s.stat].data # Unused

\* The receipt that is verified passes the policy, if there is one.
Passed(s, receipts) ==
  Gate(s.parsed) =>
    \E r \in receipts : s.receipt = <<"receipt", r>> /\ r.version = "2.0.0" /\ s.key = r.key

GateOk(s, receipts) ==
  /\ s.stage = "load key" /\ s.parsed.command = "verify" =>
       IsData(s.receipt) /\ SignedIn(s.receipt, receipts)
  /\ s.stage = "hash" /\ s.parsed.command = "verify" => Passed(s, receipts)
  /\ s.stage = "exited" /\ s.code = 0 /\ s.parsed # Missing =>
       /\ Gate(s.parsed) /\ Passed(s, receipts)
       /\ CheckFiles(s.parsed) =>
            s.receipt[2].artifacts = [at \in DOMAIN s.digests |-> Digest(s.digests[at])]

ProcessOk(s, files, receipts, n) ==
  StateOk(s, n) /\ HashingOk(s, files) /\ OutputsOk(s, files, receipts) /\ GateOk(s, receipts)

FilesInv ==
  /\ content = [i \in Inodes |-> content[i]]
  /\ \A i \in Inodes : IsFile(content[i], made)
  /\ LinksOk(link, content)

CInv ==
  /\ FilesInv
  /\ moves \in Nat
  /\ process = [p \in Processes |-> process[p]]
  /\ \A p \in Processes : ProcessOk(process[p], content, made, moves)

\* A command that presents a receipt writes to another file, unless names were changed.
SeparateInv ==
  \A p \in Processes :
    process[p].moves = moves /\ process[p].parsed # Missing /\ process[p].parsed.command \in {"badge", "export"} =>
      /\ process[p].stage = "open" => Inode(OutPath(process[p].parsed)) # process[p].stat
      /\ process[p].stage = "write" => process[p].fd # process[p].stat

-----------------------------------------------------------------------------
\* Data, and files that are written to.
Later(before, after) ==
  \A i \in Inodes :
    \/ after[i] = before[i]
    \/ after[i].writes > before[i].writes /\ after[i].data # Unused

LEMMA DataKinds ==
  ASSUME NEW data, IsData(data)
  PROVE  /\ data # Unused
         /\ data[1] = "receipt" => data = <<"receipt", data[2]>> /\ IsReceipt(data[2])
         /\ data[1] = "cells" => data = <<"cells", data[2]>> /\ IsSeq(data[2]) /\ data[2] # << >>
         /\ IsSeq(Cells(data))
<1>1. data # Unused
  BY DEF IsData, Unused
<1>2. /\ data[1] = "receipt" => data = <<"receipt", data[2]>> /\ IsReceipt(data[2])
      /\ data[1] = "cells" => data = <<"cells", data[2]>> /\ IsSeq(data[2]) /\ data[2] # << >>
  BY DEF IsData
<1> QED
  BY <1>1, <1>2, OneIsSeq DEF Cells

LEMMA PlainData ==
  /\ \A receipts : IsData(<<"empty">>) /\ SignedIn(<<"empty">>, receipts)
  /\ \A receipts : IsData(<<"part">>) /\ SignedIn(<<"part">>, receipts)
  /\ \A kind \in {"key", "presentation"} : \A x, receipts :
       IsData(<<kind, x>>) /\ SignedIn(<<kind, x>>, receipts)
  /\ \A x, receipts : IsSeq(x) /\ x # << >> => IsData(<<"cells", x>>) /\ SignedIn(<<"cells", x>>, receipts)
BY DEF IsData, SignedIn

LEMMA NamesLead ==
  ASSUME FilesInv, NEW path \in Paths
  PROVE  /\ Target(path) \in Paths
         /\ Inode(path) = link[Target(path)]
         /\ Inode(path) # Missing => /\ Inode(path) \in Inodes
                                     /\ content[Inode(path)].data # Unused
                                     /\ IsData(DataAt(path)) /\ SignedIn(DataAt(path), made)
<1>1. link \in [Paths -> Inodes \union Paths \union {Missing}]
  BY DEF FilesInv, LinksOk
<1>2. Target(path) \in Paths
  BY DEF Target
<1>3. link[Target(path)] \notin Paths
  BY <1>1 DEF Target, FilesInv, LinksOk
<1>4. ASSUME link[Target(path)] # Missing
      PROVE  link[Target(path)] \in Inodes /\ content[link[Target(path)]].data # Unused
  BY <1>1, <1>2, <1>3, <1>4 DEF FilesInv, LinksOk
<1> QED
  BY <1>2, <1>4 DEF Inode, DataAt, FilesInv, IsFile

LEMMA PutOk ==
  ASSUME FilesInv, NEW i \in Inodes, NEW data, IsData(data), SignedIn(data, made),
         Put(i, data), UNCHANGED <<link, made>>
  PROVE  /\ FilesInv' /\ Later(content, content')
         /\ content'[i].data # Unused /\ \A j \in Inodes \ {i} : content'[j] = content[j]
<1>1. content' = [j \in Inodes |-> IF j = i THEN [data |-> data, writes |-> content[i].writes + 1]
                                   ELSE content[j]]
  BY DEF FilesInv, Put
<1>2. content'[i] = [data |-> data, writes |-> content[i].writes + 1] /\ content[i].writes \in Nat
  BY <1>1 DEF FilesInv, IsFile
<1>3. data # Unused
  BY DataKinds
<1>4. Later(content, content')
  BY <1>1, <1>2, <1>3 DEF Later
<1>5. \A j \in Inodes : IsFile(content'[j], made')
  BY <1>1, <1>2, <1>3 DEF IsFile, FilesInv
<1>6. LinksOk(link', content')
  BY <1>1, <1>2, <1>3 DEF FilesInv, LinksOk
<1> QED
  BY <1>1, <1>2, <1>3, <1>4, <1>5, <1>6 DEF FilesInv

LEMMA CreateOk ==
  ASSUME FilesInv, NEW path \in Paths, Inode(path) = Missing,
         Create(path, <<"empty">>), UNCHANGED made
  PROVE  /\ FilesInv' /\ Later(content, content')
         /\ link'[Target(path)] \in Inodes /\ content'[link'[Target(path)]].data # Unused
         /\ content[link'[Target(path)]].data = Unused
         /\ \A j \in Inodes : content[j].data # Unused => content'[j] = content[j]
         /\ \A name \in Paths, j \in Inodes :
              content[j].data # Unused /\ Inode(name)' = j => Inode(name) = j
<1> DEFINE i == CHOOSE i \in Inodes : content[i].data = Unused
           target == Target(path)
<1>1. i \in Inodes /\ content[i].data = Unused
  BY DEF Create
<1>2. link' = [link EXCEPT ![target] = i] /\ Put(i, <<"empty">>)
  BY DEF Create
<1> HIDE DEF i
<1>3. target \in Paths /\ link[target] = Missing /\ link \in [Paths -> Inodes \union Paths \union {Missing}]
  BY NamesLead DEF FilesInv, LinksOk
<1> HIDE DEF target
<1>4. content' = [j \in Inodes |-> IF j = i THEN [data |-> <<"empty">>, writes |-> content[i].writes + 1]
                                   ELSE content[j]]
  BY <1>1, <1>2 DEF FilesInv, Put
<1>5. content'[i] = [data |-> <<"empty">>, writes |-> content[i].writes + 1] /\ content[i].writes \in Nat
  BY <1>1, <1>4 DEF FilesInv, IsFile
<1>6. IsData(<<"empty">>) /\ SignedIn(<<"empty">>, made) /\ <<"empty">> # Unused
  BY PlainData, DataKinds
<1>7. \A j \in Inodes : IsFile(content'[j], made')
  BY <1>1, <1>4, <1>5, <1>6 DEF IsFile, FilesInv
<1>8. Later(content, content')
  BY <1>1, <1>4, <1>5, <1>6 DEF Later
<1>9. link' \in [Paths -> Inodes \union Paths \union {Missing}]
  BY <1>1, <1>2, <1>3
<1>10. \A name \in Paths : IF name = target THEN link'[name] = i ELSE link'[name] = link[name]
  BY <1>2, <1>3
<1>11. i \notin Paths /\ i # Missing /\ Missing \notin Paths
  BY <1>1, FilesAssumption
<1>12. ASSUME NEW name \in Paths, link'[name] \in Paths
       PROVE  link'[link'[name]] \notin Paths
  BY <1>3, <1>10, <1>11, <1>12 DEF FilesInv, LinksOk
<1>13. ASSUME NEW name \in Paths, link'[name] \in Inodes
       PROVE  content'[link'[name]].data # Unused
  <2>1. CASE name = target
    BY <2>1, <1>5, <1>6, <1>10
  <2>2. CASE name # target
    BY <2>2, <1>1, <1>4, <1>10, <1>13 DEF FilesInv, LinksOk
  <2> QED
    BY <2>1, <2>2
<1>14. FilesInv'
  BY <1>4, <1>7, <1>9, <1>12, <1>13 DEF FilesInv, LinksOk
<1>15. ASSUME NEW name \in Paths, NEW j \in Inodes, content[j].data # Unused, Inode(name)' = j
       PROVE  Inode(name) = j
  <2>1. j # i
    BY <1>1, <1>15
  <2>2. link'[name] \in Paths => link'[name] = link[name]
    BY <1>10, <1>11
  <2>3. CASE link'[name] \in Paths
    <3>1. link'[link'[name]] = j
      BY <2>3, <1>15 DEF Inode, Target
    <3> QED
      BY <2>1, <2>2, <2>3, <3>1, <1>10 DEF Inode, Target
  <2>4. CASE link'[name] \notin Paths
    <3>1. link'[name] = j
      BY <2>4, <1>15 DEF Inode, Target
    <3> QED
      BY <2>1, <2>4, <3>1, <1>10 DEF Inode, Target
  <2> QED
    BY <2>3, <2>4
<1>16. link'[target] = i
  BY <1>3, <1>10
<1>17. \A j \in Inodes : content[j].data # Unused => content'[j] = content[j]
  BY <1>1, <1>4
<1> QED
  BY <1>1, <1>5, <1>6, <1>8, <1>14, <1>15, <1>16, <1>17 DEF target

-----------------------------------------------------------------------------
(***************************************************************************)
(* Processes. What is true of one stays true while others write, and a     *)
(* step of one keeps the invariant if the state it goes to is in order.    *)
(***************************************************************************)
LEMMA StaysOk ==
  ASSUME NEW s, NEW before, NEW after, NEW receipts, NEW more, receipts \subseteq more,
         NEW n \in Nat, NEW m \in Nat, n <= m,
         \A i \in Inodes : before[i].writes \in Nat /\ after[i].writes \in Nat,
         ProcessOk(s, before, receipts, n), Later(before, after)
  PROVE  ProcessOk(s, after, more, m)
<1>1. StateOk(s, m)
  BY DEF ProcessOk, StateOk
<1>2. \A i \in Inodes : before[i].data # Unused => after[i].data # Unused
  BY DEF Later
<1>3. ASSUME s.reading # Missing
      PROVE  ReadsFrom(s.reading, after[s.reading.inode])
  <2>1. s.reading.inode \in Inodes /\ s.reading.opened.writes \in Nat
    BY <1>3 DEF ProcessOk, HashingOk, IsReading
  <2>2. ReadsFrom(s.reading, before[s.reading.inode])
    BY <1>3 DEF ProcessOk, HashingOk
  <2>3. CASE after[s.reading.inode] = before[s.reading.inode]
    BY <2>2, <2>3
  <2>4. CASE after[s.reading.inode].writes > before[s.reading.inode].writes
    BY <1>2, <2>1, <2>2, <2>4 DEF ReadsFrom
  <2> QED
    BY <2>1, <2>3, <2>4 DEF Later
<1>4. HashingOk(s, after)
  BY <1>3 DEF ProcessOk, HashingOk
<1>5. \A data : SignedIn(data, receipts) => SignedIn(data, more)
  BY DEF SignedIn
<1>6. OutputsOk(s, after, more)
  BY <1>2, <1>5 DEF ProcessOk, OutputsOk, IsOutput
<1>7. Passed(s, receipts) => Passed(s, more)
  BY DEF Passed
<1>8. GateOk(s, more)
  BY <1>5, <1>7 DEF ProcessOk, GateOk
<1> QED
  BY <1>1, <1>4, <1>6, <1>8 DEF ProcessOk

StepOk(p, s) ==
  /\ FilesInv' /\ Later(content, content') /\ made \subseteq made'
  /\ moves' = moves /\ Goes(p, s) /\ ProcessOk(s, content', made', moves)

LEMMA StepKeeps ==
  ASSUME CInv, NEW p \in Processes, NEW s, StepOk(p, s)
  PROVE  CInv'
<1>1. /\ process' = [q \in Processes |-> IF q = p THEN s ELSE process[q]]
      /\ moves \in Nat
  BY DEF CInv, StepOk, Goes
<1>2. \A i \in Inodes : content[i].writes \in Nat /\ content'[i].writes \in Nat
  BY DEF StepOk, CInv, FilesInv, IsFile
<1>3. ASSUME NEW q \in Processes
      PROVE  ProcessOk(process'[q], content', made', moves')
  <2>1. CASE q = p
    BY <1>1, <2>1 DEF StepOk
  <2>2. CASE q # p
    <3>1. ProcessOk(process[q], content, made, moves) /\ process'[q] = process[q]
      BY <1>1, <2>2 DEF CInv
    <3> QED
      BY <1>1, <1>2, <3>1, StaysOk DEF StepOk
  <2> QED
    BY <2>1, <2>2
<1> QED
  BY <1>1, <1>3 DEF CInv, StepOk

LEMMA QuietStep ==
  ASSUME CInv, NEW p \in Processes, NEW s, OnlyProcess, Goes(p, s), ProcessOk(s, content, made, moves)
  PROVE  StepOk(p, s)
BY DEF CInv, OnlyProcess, SameFiles, StepOk, FilesInv, Later

Exited(code) == [Idle EXCEPT !.stage = "exited", !.code = code]

LEMMA IdleOk ==
  ASSUME NEW files, NEW receipts, NEW n \in Nat
  PROVE  /\ ProcessOk(Idle, files, receipts, n)
         /\ \A code : ProcessOk(Exited(code), files, receipts, n)
<1>1. << >> \in Seq(Paths) /\ IsSeq(<< >>) /\ DOMAIN << >> = {}
  BY EmptyIsSeq
<1>2. DOMAIN Idle = Fields /\ Idle.moves = 0 /\ 0 <= n
  BY DEF Idle, Fields
<1>3. ProcessOk(Idle, files, receipts, n)
  BY <1>1, <1>2 DEF Idle, ProcessOk, StateOk, HashingOk, OutputsOk, GateOk, Active
<1>4. ASSUME NEW code
      PROVE  ProcessOk(Exited(code), files, receipts, n)
  <2> DEFINE s == Exited(code)
  <2>1. /\ DOMAIN s = Fields /\ s.stage = "exited" /\ s.parsed = Missing /\ s.moves = 0
        /\ s.reading = Missing /\ s.todo = << >> /\ s.digests = << >> /\ s.outputs = << >>
    BY <1>2 DEF Exited, Idle, Fields
  <2> HIDE DEF s
  <2>2. StateOk(s, n) /\ HashingOk(s, files)
    BY <1>1, <1>2, <2>1 DEF StateOk, HashingOk, Active
  <2>3. OutputsOk(s, files, receipts) /\ GateOk(s, receipts)
    BY <1>1, <2>1 DEF OutputsOk, GateOk, Active
  <2> QED
    BY <2>2, <2>3 DEF ProcessOk, s
<1> QED
  BY <1>3, <1>4

LEMMA QuietExit ==
  ASSUME CInv, NEW p \in Processes, NEW code, OnlyProcess, Exits(p, code)
  PROVE  StepOk(p, Exited(code))
BY IdleOk, QuietStep DEF CInv, Exits, Exited

LEMMA InitOk ==
  ASSUME Init
  PROVE  CInv
<1>1. ASSUME NEW i \in Inodes
      PROVE  IsFile(content[i], made)
  <2>1. CASE i \in DOMAIN Contents
    <3>1. content[i] = [data |-> Contents[i], writes |-> 0] /\ IsData(Contents[i])
      BY <2>1, FilesAssumption DEF Init
    <3>2. SignedIn(Contents[i], made)
      BY <2>1 DEF Init, SignedIn
    <3> QED
      BY <3>1, <3>2 DEF IsFile
  <2>2. CASE i \notin DOMAIN Contents
    BY <2>2 DEF Init, IsFile
  <2> QED
    BY <2>1, <2>2
<1>2. LinksOk(link, content)
  <2>1. link = Links /\ link \in [Paths -> Inodes \union Paths \union {Missing}]
    BY FilesAssumption DEF Init
  <2>2. ASSUME NEW path \in Paths, link[path] \in Inodes
        PROVE  content[link[path]].data # Unused
    <3>1. link[path] \in DOMAIN Contents
      BY <2>1, <2>2, FilesAssumption
    <3>2. content[link[path]].data = Contents[link[path]] /\ IsData(Contents[link[path]])
      BY <2>2, <3>1, FilesAssumption DEF Init
    <3> QED
      BY <3>2, DataKinds
  <2> QED
    BY <2>1, <2>2, FilesAssumption DEF LinksOk
<1> QED
  BY <1>1, <1>2, IdleOk DEF Init, CInv, FilesInv

-----------------------------------------------------------------------------
\* One lemma per action: the state that it goes to.
LEMMA OneOutput ==
  ASSUME NEW output, NEW receipts, IsOutput(output, receipts)
  PROVE  /\ IsSeq(<<output>>) /\ Len(<<output>>) = 1 /\ <<output>> # << >> /\ <<output>>[1] = output
         /\ \A at \in DOMAIN <<output>> : IsOutput(<<output>>[at], receipts)
<1>1. IsSeq(<<output>>) /\ Len(<<output>>) = 1
  BY OneIsSeq
<1>2. DOMAIN <<output>> = 1 .. 1
  BY <1>1, SeqLen
<1> QED
  BY <1>1, <1>2

LEMMA IdleFields ==
  /\ DOMAIN Idle = Fields /\ Idle.moves = 0 /\ Idle.reading = Missing
  /\ Idle.todo = << >> /\ Idle.digests = << >> /\ Idle.outputs = << >>
  /\ << >> \in Seq(Paths) /\ IsSeq(<< >>) /\ DOMAIN << >> = {}
BY EmptyIsSeq DEF Idle, Fields

LEMMA KeygenOk ==
  ASSUME CInv, NEW p \in Processes, NEW parsed, OnlyProcess, StartKeygen(p, parsed),
         parsed # Missing, NamesPaths(parsed), parsed.command = "keygen"
  PROVE  \E s : StepOk(p, s)
<1> DEFINE key == [algorithm |-> Or(Flag(parsed, "algo"), "HMAC-SHA256"), id |-> p]
           out == OutPath(parsed)
           output == [path |-> out, data |-> <<"key", key>>]
           s == [Idle EXCEPT !.stage = "create", !.parsed = parsed, !.outputs = <<output>>]
<1>1. CASE out = Missing
  BY <1>1, QuietExit DEF StartKeygen
<1>2. CASE out # Missing
  <2>1. out \in Paths
    BY <1>2 DEF NamesPaths
  <2>2. IsData(<<"key", key>>) /\ SignedIn(<<"key", key>>, made)
    BY PlainData
  <2>3. IsOutput(output, made) /\ output.path = out
    BY <2>1, <2>2 DEF IsOutput
  <2>4. Goes(p, s)
    BY <1>2 DEF StartKeygen
  <2> HIDE DEF output, out
  <2>5. /\ DOMAIN s = Fields /\ s.stage = "create" /\ s.parsed = parsed /\ s.outputs = <<output>>
        /\ s.moves = 0 /\ s.reading = Missing /\ s.todo = << >> /\ s.digests = << >>
    BY IdleFields DEF Fields
  <2> HIDE DEF s
  <2>6. StateOk(s, moves)
    BY <2>5 DEF StateOk, Active, Serving, CInv
  <2>7. HashingOk(s, content)
    BY <1>1, <2>5, IdleFields DEF HashingOk
  <2>8. OutputsOk(s, content, made)
    BY <2>3, <2>5, OneOutput DEF OutputsOk, out
  <2>9. GateOk(s, made)
    BY <2>5 DEF GateOk
  <2> QED
    BY <2>4, <2>6, <2>7, <2>8, <2>9, QuietStep DEF ProcessOk
<1> QED
  BY <1>1, <1>2

LEMMA WorkingState ==
  ASSUME NEW s, NEW n, s.parsed # Missing, NamesPaths(s.parsed), s.stage \in Active,
         s.parsed.command \in Serving(s.stage), s.moves \in Nat, s.moves <= n, DOMAIN s = Fields
  PROVE  StateOk(s, n)
BY DEF StateOk

\* Nothing is hashed or written yet.
Fresh(s) ==
  /\ s.outputs = << >> /\ s.digests = << >> /\ s.reading = Missing
  /\ s.todo \in Seq(Paths) /\ s.moves = 0 /\ DOMAIN s = Fields

LEMMA FreshMoves ==
  ASSUME NEW s, Fresh(s), NEW n \in Nat
  PROVE  s.moves \in Nat /\ s.moves <= n
<1>1. s.moves = 0
  BY DEF Fresh
<1> QED
  BY <1>1

LEMMA AttestState ==
  ASSUME CInv, NEW s, s.parsed # Missing, NamesPaths(s.parsed), s.parsed.command = "attest",
         s.stage \in {"hash", "load key"}, Fresh(s)
  PROVE  ProcessOk(s, content, made, moves)
<1>1. s.parsed.command \in Serving(s.stage) /\ s.stage \in Active
  BY DEF Serving, Active
<1>7. moves \in Nat
  BY DEF CInv
<1>8. DOMAIN s = Fields
  BY DEF Fresh
<1>2. s.moves \in Nat /\ s.moves <= moves
  BY <1>7, FreshMoves
<1>3. StateOk(s, moves)
  BY <1>1, <1>2, <1>8, WorkingState
<1>4. HashingOk(s, content)
  BY IdleFields DEF HashingOk, Fresh
<1>5. OutputsOk(s, content, made)
  BY IdleFields DEF OutputsOk, Fresh
<1>6. GateOk(s, made)
  BY DEF GateOk
<1> QED
  BY <1>3, <1>4, <1>5, <1>6 DEF ProcessOk

LEMMA AttestOk ==
  ASSUME CInv, NEW p \in Processes, NEW parsed, OnlyProcess, StartAttest(p, parsed),
         parsed # Missing, NamesPaths(parsed), parsed.command = "attest"
  PROVE  \E s : StepOk(p, s)
<1> DEFINE key == getFlag(parsed, <<"key">>)
           files == getFlag(parsed, <<"files", "f">>)
           todo == IF files = Missing THEN << >> ELSE FileLists[files]
           state == [Idle EXCEPT !.stage = "hash", !.parsed = parsed, !.todo = todo]
           hash == [state EXCEPT !.key = InlineKeys[key]]
           load == [state EXCEPT !.stage = "load key"]
<1>1. todo \in Seq(Paths)
  BY DEF NamesPaths
<1> HIDE DEF todo
<1>2. /\ DOMAIN state = Fields /\ state.stage = "hash" /\ state.parsed = parsed /\ state.outputs = << >>
      /\ state.moves = 0 /\ state.reading = Missing /\ state.todo = todo /\ state.digests = << >>
  BY IdleFields DEF Fields
<1>3. IF key # Missing THEN Goes(p, hash)
      ELSE IF KeyFile(parsed) # Missing THEN Goes(p, load)
      ELSE Exits(p, 1)
  BY DEF StartAttest, todo
<1> HIDE DEF state
<1>4. ProcessOk(hash, content, made, moves)
  <2>1. hash.stage = "hash" /\ hash.parsed = parsed /\ Fresh(hash)
    BY <1>1, <1>2 DEF Fields, Fresh
  <2> QED
    BY <2>1, AttestState
<1>5. ProcessOk(load, content, made, moves)
  <2>1. load.stage = "load key" /\ load.parsed = parsed /\ Fresh(load)
    BY <1>1, <1>2 DEF Fields, Fresh
  <2> QED
    BY <2>1, AttestState
<1> HIDE DEF hash, load
<1> QED
  BY <1>3, <1>4, <1>5, QuietStep, QuietExit

LEMMA RunOk ==
  ASSUME CInv, NEW p \in Processes, NEW argv \in CommandLines, runCli(p, argv)
  PROVE  \E s : StepOk(p, s)
<1> DEFINE parsed == Parsed(argv)
           s == [Idle EXCEPT !.stage = "read", !.parsed = parsed]
<1>1. OnlyProcess
  BY DEF runCli
<1>2. parsed # Throws => parsed # Missing /\ NamesPaths(parsed)
  BY CommandLinesAssumption
<1>3. \/ Exits(p, 1) \/ Exits(p, 0)
      \/ /\ parsed # Throws /\ parsed.command \in DOMAIN commandFlags
         /\ \/ parsed.command = "keygen" /\ StartKeygen(p, parsed)
            \/ parsed.command = "attest" /\ StartAttest(p, parsed)
            \/ parsed.command \notin {"keygen", "attest"} /\ Goes(p, s)
  BY DEF runCli
<1>4. DOMAIN commandFlags = {"keygen", "attest", "verify", "badge", "inspect", "export"}
  BY DEF commandFlags
<1> HIDE DEF parsed
<1>5. ASSUME parsed # Throws, parsed.command \in {"verify", "badge", "inspect", "export"}, Goes(p, s)
      PROVE  StepOk(p, s)
  <2>1. /\ DOMAIN s = Fields /\ s.stage = "read" /\ s.parsed = parsed /\ s.outputs = << >>
        /\ s.moves = 0 /\ s.reading = Missing /\ s.todo = << >> /\ s.digests = << >>
    BY IdleFields DEF Fields
  <2> HIDE DEF s
  <2>2. StateOk(s, moves)
    BY <1>2, <1>5, <2>1 DEF StateOk, Active, Serving, CInv
  <2>3. HashingOk(s, content)
    BY <1>1, <2>1, IdleFields DEF HashingOk
  <2>4. OutputsOk(s, content, made)
    BY <2>1, IdleFields DEF OutputsOk
  <2>5. GateOk(s, made)
    BY <2>1 DEF GateOk
  <2> QED
    BY <1>1, <1>5, <2>2, <2>3, <2>4, <2>5, QuietStep DEF ProcessOk
<1> QED
  BY <1>1, <1>2, <1>3, <1>4, <1>5, KeygenOk, AttestOk, QuietExit

\* What is known of a process that is at work.
LEMMA AtWork ==
  ASSUME CInv, NEW p \in Processes
  PROVE  /\ ProcessOk(process[p], content, made, moves) /\ FilesInv /\ moves \in Nat
         /\ DOMAIN process[p] = Fields
         /\ process[p].stage \in Active =>
              /\ process[p].parsed # Missing /\ NamesPaths(process[p].parsed)
              /\ process[p].parsed.command \in Serving(process[p].stage)
         /\ process[p].stage \in {"create", "open", "write"} =>
              /\ process[p].outputs # << >> /\ IsSeq(process[p].outputs)
              /\ 1 \in DOMAIN process[p].outputs
              /\ Head(process[p].outputs) = process[p].outputs[1]
              /\ IsOutput(Head(process[p].outputs), made)
<1>1. ProcessOk(process[p], content, made, moves) /\ FilesInv /\ moves \in Nat
  BY DEF CInv
<1>2. ASSUME process[p].stage \in {"create", "open", "write"}
      PROVE  /\ process[p].outputs # << >> /\ IsSeq(process[p].outputs)
             /\ \A at \in DOMAIN process[p].outputs : IsOutput(process[p].outputs[at], made)
  BY <1>1, <1>2 DEF ProcessOk, OutputsOk
<1>3. /\ DOMAIN process[p] = Fields
      /\ process[p].stage \in Active =>
           /\ process[p].parsed # Missing /\ NamesPaths(process[p].parsed)
           /\ process[p].parsed.command \in Serving(process[p].stage)
  BY <1>1 DEF ProcessOk, StateOk
<1> QED
  BY <1>1, <1>2, <1>3, TailIsSeq

LEMMA CreateKeyOk ==
  ASSUME CInv, NEW p \in Processes, writePrivateKeyFile(p)
  PROVE  \E s : StepOk(p, s)
<1> DEFINE state == process[p]
           path == Head(state.outputs).path
           fd == link'[path]
           s == [state EXCEPT !.stage = "write", !.fd = fd]
<1>1. /\ ProcessOk(state, content, made, moves) /\ FilesInv /\ moves \in Nat
      /\ state.stage = "create" /\ DOMAIN state = Fields /\ path \in Paths
      /\ state.parsed.command = "keygen" /\ state.parsed # Missing /\ NamesPaths(state.parsed)
  BY AtWork DEF writePrivateKeyFile, At, Active, Serving, IsOutput
<1>2. CASE link[path] # Missing
  BY <1>2, QuietExit DEF writePrivateKeyFile, OnlyProcess
<1>3. CASE link[path] = Missing
  <2>1. Create(path, <<"empty">>) /\ Goes(p, s) /\ UNCHANGED <<made, changes, moves>>
    BY <1>3 DEF writePrivateKeyFile
  <2>2. Target(path) = path /\ Inode(path) = Missing
    BY <1>1, <1>3, FilesAssumption DEF Target, Inode
  <2>3. FilesInv' /\ Later(content, content') /\ fd \in Inodes /\ content'[fd].data # Unused
    BY <1>1, <2>1, <2>2, CreateOk
  <2> HIDE DEF fd
  <2>4. /\ DOMAIN s = Fields /\ s.stage = "write" /\ s.parsed = state.parsed /\ s.outputs = state.outputs
        /\ s.moves = state.moves /\ s.reading = state.reading /\ s.todo = state.todo
        /\ s.digests = state.digests /\ s.fd = fd
    BY <1>1 DEF Fields
  <2>5. ProcessOk(state, content', made', moves)
    BY <1>1, <2>1, <2>3, StaysOk DEF FilesInv, IsFile
  <2> HIDE DEF s, state, path
  <2>6. StateOk(s, moves)
    BY <1>1, <2>4, <2>5 DEF ProcessOk, StateOk, Active, Serving
  <2>7. HashingOk(s, content')
    BY <1>1, <2>4, <2>5 DEF ProcessOk, HashingOk
  <2>8. OutputsOk(s, content', made')
    BY <1>1, <2>3, <2>4, <2>5 DEF ProcessOk, OutputsOk, Active
  <2>9. GateOk(s, made')
    BY <2>4 DEF GateOk
  <2> QED
    BY <2>1, <2>3, <2>6, <2>7, <2>8, <2>9 DEF ProcessOk, StepOk
<1> QED
  BY <1>2, <1>3

LEMMA OpenOk ==
  ASSUME CInv, NEW p \in Processes, OpenOutput(p)
  PROVE  \E s : StepOk(p, s)
<1> DEFINE state == process[p]
           path == Head(state.outputs).path
           fd == link'[Target(path)]
           s == [state EXCEPT !.stage = "write", !.fd = fd]
<1>1. /\ ProcessOk(state, content, made, moves) /\ FilesInv /\ moves \in Nat
      /\ state.stage = "open" /\ DOMAIN state = Fields /\ path \in Paths
      /\ state.parsed.command \in {"attest", "badge", "export"}
      /\ state.parsed # Missing /\ NamesPaths(state.parsed)
  BY AtWork DEF OpenOutput, At, Active, Serving, IsOutput
<1>2. Goes(p, s) /\ UNCHANGED <<made, changes, moves>>
  BY DEF OpenOutput
<1>3. FilesInv' /\ Later(content, content') /\ fd \in Inodes /\ content'[fd].data # Unused
  <2>1. CASE Inode(path) # Missing
    <3>1. Inode(path) \in Inodes /\ Inode(path) = link[Target(path)]
      BY <1>1, <2>1, NamesLead
    <3>2. Put(Inode(path), <<"empty">>) /\ UNCHANGED link
      BY <2>1 DEF OpenOutput
    <3>3. fd = Inode(path)
      BY <3>1, <3>2
    <3> QED
      BY <1>1, <1>2, <3>1, <3>2, <3>3, PlainData, PutOk
  <2>2. CASE Inode(path) = Missing
    BY <1>1, <1>2, <2>2, CreateOk DEF OpenOutput
  <2> QED
    BY <2>1, <2>2
<1> HIDE DEF fd
<1>4. /\ DOMAIN s = Fields /\ s.stage = "write" /\ s.parsed = state.parsed /\ s.outputs = state.outputs
      /\ s.moves = state.moves /\ s.reading = state.reading /\ s.todo = state.todo
      /\ s.digests = state.digests /\ s.fd = fd /\ s.stat = state.stat
  BY <1>1 DEF Fields
<1>5. ProcessOk(state, content', made', moves)
  BY <1>1, <1>2, <1>3, StaysOk DEF FilesInv, IsFile
<1> HIDE DEF s, state, path
<1>6. StateOk(s, moves)
  BY <1>1, <1>4, <1>5 DEF ProcessOk, StateOk, Active, Serving
<1>7. HashingOk(s, content')
  BY <1>1, <1>4, <1>5 DEF ProcessOk, HashingOk
<1>8. OutputsOk(s, content', made')
  BY <1>1, <1>3, <1>4, <1>5 DEF ProcessOk, OutputsOk, Active
<1>9. GateOk(s, made')
  BY <1>4 DEF GateOk
<1> QED
  BY <1>2, <1>3, <1>6, <1>7, <1>8, <1>9 DEF ProcessOk, StepOk

LEMMA WriteOk ==
  ASSUME CInv, NEW p \in Processes, WriteOutput(p)
  PROVE  \E s : StepOk(p, s)
<1> DEFINE state == process[p]
           output == Head(state.outputs)
           rest == Tail(state.outputs)
           s == [state EXCEPT !.stage = "open", !.outputs = rest, !.fd = Missing]
<1>1. /\ ProcessOk(state, content, made, moves) /\ FilesInv /\ moves \in Nat
      /\ state.stage = "write" /\ DOMAIN state = Fields /\ IsOutput(output, made)
      /\ state.outputs # << >> /\ IsSeq(state.outputs)
      /\ state.parsed.command \in {"keygen", "attest", "badge", "export"}
      /\ state.parsed # Missing /\ NamesPaths(state.parsed)
  BY AtWork DEF WriteOutput, At, Active, Serving
<1>2. /\ Put(state.fd, output.data) /\ UNCHANGED <<link, made, changes, moves>>
      /\ IF rest = << >> THEN Exits(p, 0) ELSE Goes(p, s)
  BY DEF WriteOutput
<1>3. FilesInv' /\ Later(content, content')
  <2>1. state.fd \in Inodes
    BY <1>1 DEF ProcessOk, OutputsOk
  <2> QED
    BY <1>1, <1>2, <2>1, PutOk DEF IsOutput
<1>4. CASE rest = << >>
  BY <1>1, <1>2, <1>3, <1>4, IdleOk DEF StepOk, Exits, Exited
<1>5. CASE rest # << >>
  <2>1. /\ IsSeq(rest) /\ Len(rest) = Len(state.outputs) - 1
        /\ \A at \in DOMAIN rest : at + 1 \in DOMAIN state.outputs /\ rest[at] = state.outputs[at + 1]
    BY <1>1, TailIsSeq
  <2> HIDE DEF rest
  <2>2. /\ DOMAIN s = Fields /\ s.stage = "open" /\ s.parsed = state.parsed /\ s.outputs = rest
        /\ s.moves = state.moves /\ s.reading = state.reading /\ s.todo = state.todo
        /\ s.digests = state.digests
    BY <1>1 DEF Fields
  <2>3. ProcessOk(state, content', made', moves)
    BY <1>1, <1>2, <1>3, StaysOk DEF FilesInv, IsFile
  <2> HIDE DEF s, state
  <2>4. Len(rest) # 0
    BY <1>5, <2>1, EmptySeq DEF IsSeq
  <2>5. state.parsed.command = "attest"
    BY <1>1, <2>1, <2>4 DEF ProcessOk, OutputsOk, Active
  <2>6. StateOk(s, moves)
    BY <1>1, <2>2, <2>3, <2>5 DEF ProcessOk, StateOk, Active, Serving
  <2>7. HashingOk(s, content')
    BY <1>1, <2>2, <2>3 DEF ProcessOk, HashingOk
  <2>8. OutputsOk(s, content', made')
    BY <1>5, <2>1, <2>2, <2>3, <2>5 DEF ProcessOk, OutputsOk, Active
  <2>9. GateOk(s, made')
    BY <2>2 DEF GateOk
  <2> QED
    BY <1>2, <1>3, <1>5, <2>6, <2>7, <2>8, <2>9 DEF ProcessOk, StepOk
<1> QED
  BY <1>4, <1>5

LEMMA ReadForPresentationOk ==
  ASSUME CInv, NEW p \in Processes, readReceiptForPresentation(p)
  PROVE  \E s : StepOk(p, s)
<1> DEFINE state == process[p]
           data == DataAt(ProofPath(state.parsed))
           out == OutPath(state.parsed)
           output == [path |-> out, data |-> <<"presentation", data[2]>>]
           s == [state EXCEPT !.stage = "stat input", !.outputs = <<output>>]
<1>1. /\ ProcessOk(state, content, made, moves) /\ moves \in Nat
      /\ state.stage = "read" /\ DOMAIN state = Fields
      /\ state.parsed.command \in {"badge", "inspect", "export"}
      /\ state.parsed # Missing /\ NamesPaths(state.parsed)
  BY AtWork DEF readReceiptForPresentation, At, Is, Active
<1>2. \/ Exits(p, 1) \/ Exits(p, 0)
      \/ state.parsed.command # "inspect" /\ out # Missing /\ Goes(p, s)
  BY DEF readReceiptForPresentation
<1>3. OnlyProcess
  BY DEF readReceiptForPresentation
<1>4. ASSUME state.parsed.command # "inspect", out # Missing, Goes(p, s)
      PROVE  StepOk(p, s)
  <2>1. IsOutput(output, made) /\ output.path = out
    BY <1>1, <1>4, PlainData DEF IsOutput, NamesPaths
  <2> HIDE DEF output
  <2>2. /\ DOMAIN s = Fields /\ s.stage = "stat input" /\ s.parsed = state.parsed /\ s.outputs = <<output>>
        /\ s.moves = state.moves /\ s.reading = state.reading /\ s.todo = state.todo
        /\ s.digests = state.digests
    BY <1>1 DEF Fields
  <2> HIDE DEF s, state
  <2>3. StateOk(s, moves)
    BY <1>1, <1>4, <2>2 DEF ProcessOk, StateOk, Active, Serving
  <2>4. HashingOk(s, content)
    BY <1>1, <2>2 DEF ProcessOk, HashingOk
  <2>5. OutputsOk(s, content, made)
    BY <2>1, <2>2, OneOutput DEF OutputsOk
  <2>6. GateOk(s, made)
    BY <2>2 DEF GateOk
  <2> QED
    BY <1>3, <1>4, <2>3, <2>4, <2>5, <2>6, QuietStep DEF ProcessOk
<1> HIDE DEF s, out, state
<1> QED
  BY <1>2, <1>3, <1>4, QuietExit

LEMMA Equals == \A n \in Nat : \A m : m = n => m \in Nat /\ m <= n
OBVIOUS

LEMMA StatInputOk ==
  ASSUME CInv, NEW p \in Processes, StatInput(p)
  PROVE  \E s : StepOk(p, s)
<1> DEFINE state == process[p]
           input == Inode(ProofPath(state.parsed))
           s == [state EXCEPT !.stage = "stat output", !.stat = input, !.moves = moves]
<1>1. /\ ProcessOk(state, content, made, moves) /\ FilesInv /\ moves \in Nat
      /\ state.stage = "stat input" /\ DOMAIN state = Fields
      /\ state.parsed.command \in {"badge", "export"}
      /\ state.parsed # Missing /\ NamesPaths(state.parsed)
  BY AtWork DEF StatInput, At, Active, Serving
<1>2. IF input = Missing THEN Exits(p, 1) ELSE Goes(p, s)
  BY DEF StatInput
<1>3. OnlyProcess
  BY DEF StatInput
<1>4. ASSUME input # Missing, Goes(p, s)
      PROVE  StepOk(p, s)
  <2>1. input \in Inodes /\ content[input].data # Unused
    BY <1>1, <1>4, NamesLead DEF NamesPaths
  <2> HIDE DEF input
  <2>2. /\ DOMAIN s = Fields /\ s.stage = "stat output" /\ s.parsed = state.parsed /\ s.outputs = state.outputs
        /\ s.moves = moves /\ s.reading = state.reading /\ s.todo = state.todo
        /\ s.digests = state.digests /\ s.stat = input
    BY <1>1 DEF Fields
  <2> HIDE DEF s, state
  <2>3. StateOk(s, moves)
    <3>1. s.parsed.command \in Serving(s.stage) /\ s.stage \in Active
      BY <1>1, <2>2 DEF Serving, Active
    <3>2. s.moves \in Nat /\ s.moves <= moves
      BY <1>1, <2>2, Equals, Zenon
    <3> QED
      BY <1>1, <2>2, <3>1, <3>2, WorkingState, Zenon
  <2>4. HashingOk(s, content)
    BY <1>1, <2>2 DEF ProcessOk, HashingOk
  <2>5. OutputsOk(s, content, made)
    BY <1>1, <2>1, <2>2 DEF ProcessOk, OutputsOk, Active
  <2>6. GateOk(s, made)
    BY <2>2 DEF GateOk
  <2> QED
    BY <1>3, <1>4, <2>3, <2>4, <2>5, <2>6, QuietStep DEF ProcessOk
<1> HIDE DEF s, input, state
<1> QED
  BY <1>2, <1>3, <1>4, QuietExit

LEMMA SeparateOutputOk ==
  ASSUME CInv, NEW p \in Processes, requireSeparateReceiptOutput(p)
  PROVE  \E s : StepOk(p, s)
<1> DEFINE state == process[p]
           s == [state EXCEPT !.stage = "open"]
<1>1. /\ ProcessOk(state, content, made, moves) /\ moves \in Nat
      /\ state.stage = "stat output" /\ DOMAIN state = Fields
      /\ state.parsed.command \in {"badge", "export"}
      /\ state.parsed # Missing /\ NamesPaths(state.parsed)
  BY AtWork DEF requireSeparateReceiptOutput, At, Active, Serving
<1>2. Exits(p, 1) \/ Goes(p, s)
  BY DEF requireSeparateReceiptOutput
<1>3. OnlyProcess
  BY DEF requireSeparateReceiptOutput
<1>4. ASSUME Goes(p, s)
      PROVE  StepOk(p, s)
  <2>2. /\ DOMAIN s = Fields /\ s.stage = "open" /\ s.parsed = state.parsed /\ s.outputs = state.outputs
        /\ s.moves = state.moves /\ s.reading = state.reading /\ s.todo = state.todo
        /\ s.digests = state.digests /\ s.stat = state.stat
    BY <1>1 DEF Fields
  <2> HIDE DEF s, state
  <2>3. StateOk(s, moves)
    BY <1>1, <2>2 DEF ProcessOk, StateOk, Active, Serving
  <2>4. HashingOk(s, content)
    BY <1>1, <2>2 DEF ProcessOk, HashingOk
  <2>5. OutputsOk(s, content, made)
    <3>1. Len(state.outputs) = 1
      BY <1>1 DEF ProcessOk, OutputsOk, Active
    <3>2. state.outputs # << >>
      BY <3>1
    <3> QED
      BY <1>1, <2>2, <3>2 DEF ProcessOk, OutputsOk, Active
  <2>6. GateOk(s, made)
    BY <2>2 DEF GateOk
  <2> QED
    BY <1>3, <1>4, <2>3, <2>4, <2>5, <2>6, QuietStep DEF ProcessOk
<1> HIDE DEF s, state
<1> QED
  BY <1>2, <1>3, <1>4, QuietExit

LEMMA LoadSigningOk ==
  ASSUME CInv, NEW p \in Processes, LoadSigningKey(p)
  PROVE  \E s : StepOk(p, s)
<1> DEFINE state == process[p]
           key == loadKeyMaterial(KeyFile(state.parsed), "sign", Or(Flag(state.parsed, "algo"), "HMAC-SHA256"))
           s == [state EXCEPT !.stage = "hash", !.key = key]
<1>1. /\ ProcessOk(state, content, made, moves) /\ moves \in Nat
      /\ state.stage = "load key" /\ DOMAIN state = Fields /\ state.parsed.command = "attest"
      /\ state.parsed # Missing /\ NamesPaths(state.parsed)
  BY AtWork DEF LoadSigningKey, At, Is, Active
<1> HIDE DEF key
<1>2. Exits(p, 1) \/ Goes(p, s)
  BY DEF LoadSigningKey, key
<1>3. OnlyProcess
  BY DEF LoadSigningKey
<1>4. ASSUME Goes(p, s)
      PROVE  StepOk(p, s)
  <2>2. /\ DOMAIN s = Fields /\ s.stage = "hash" /\ s.parsed = state.parsed /\ s.outputs = state.outputs
        /\ s.moves = state.moves /\ s.reading = state.reading /\ s.todo = state.todo
        /\ s.digests = state.digests
    BY <1>1 DEF Fields
  <2> HIDE DEF s, state
  <2>3. StateOk(s, moves)
    BY <1>1, <2>2 DEF ProcessOk, StateOk, Active, Serving
  <2>4. HashingOk(s, content)
    BY <1>1, <2>2 DEF ProcessOk, HashingOk
  <2>5. OutputsOk(s, content, made)
    BY <1>1, <2>2 DEF ProcessOk, OutputsOk
  <2>6. GateOk(s, made)
    BY <1>1, <2>2 DEF GateOk
  <2> QED
    BY <1>3, <1>4, <2>3, <2>4, <2>5, <2>6, QuietStep DEF ProcessOk
<1> HIDE DEF s, state
<1> QED
  BY <1>2, <1>3, <1>4, QuietExit

LEMMA ReadForVerificationOk ==
  ASSUME CInv, NEW p \in Processes, readReceiptForVerification(p)
  PROVE  \E s : StepOk(p, s)
<1> DEFINE state == process[p]
           proof == ProofPath(state.parsed)
           data == DataAt(proof)
           s == [state EXCEPT !.stage = "load key", !.receipt = data]
<1>1. /\ ProcessOk(state, content, made, moves) /\ FilesInv /\ moves \in Nat
      /\ state.stage = "read" /\ DOMAIN state = Fields /\ state.parsed.command = "verify"
      /\ state.parsed # Missing /\ NamesPaths(state.parsed)
  BY AtWork DEF readReceiptForVerification, At, Is, Active
<1>2. Exits(p, 1) \/ (Inode(proof) # Missing /\ Goes(p, s))
  BY DEF readReceiptForVerification
<1>3. OnlyProcess
  BY DEF readReceiptForVerification
<1>4. ASSUME Inode(proof) # Missing, Goes(p, s)
      PROVE  StepOk(p, s)
  <2>1. IsData(data) /\ SignedIn(data, made)
    BY <1>1, <1>4, NamesLead DEF NamesPaths
  <2> HIDE DEF data
  <2>2. /\ DOMAIN s = Fields /\ s.stage = "load key" /\ s.parsed = state.parsed /\ s.outputs = state.outputs
        /\ s.moves = state.moves /\ s.reading = state.reading /\ s.todo = state.todo
        /\ s.digests = state.digests /\ s.receipt = data
    BY <1>1 DEF Fields
  <2> HIDE DEF s, state
  <2>3. StateOk(s, moves)
    BY <1>1, <2>2 DEF ProcessOk, StateOk, Active, Serving
  <2>4. HashingOk(s, content)
    BY <1>1, <2>2 DEF ProcessOk, HashingOk
  <2>5. OutputsOk(s, content, made)
    BY <1>1, <2>2 DEF ProcessOk, OutputsOk
  <2>6. GateOk(s, made)
    BY <2>1, <2>2 DEF GateOk
  <2> QED
    BY <1>3, <1>4, <2>3, <2>4, <2>5, <2>6, QuietStep DEF ProcessOk
<1> HIDE DEF s, state, proof
<1> QED
  BY <1>2, <1>3, <1>4, QuietExit

\* A receipt that is accepted under the policy is one that was signed, in version 2, with the key.
LEMMA VerdictPassed ==
  ASSUME NEW data, NEW key, NEW algorithm, NEW receipts,
         IsData(data), SignedIn(data, receipts), PolicyPassed(Verdict(data, key, algorithm))
  PROVE  \E r \in receipts : data = <<"receipt", r>> /\ r.version = "2.0.0" /\ key = r.key
<1>1. data[1] = "receipt" /\ ~data[2].changed /\ key # Missing /\ key = data[2].key
  BY DEF Verdict, PolicyPassed
<1>2. data[2].version = "2.0.0"
  BY <1>1 DEF Verdict, PolicyPassed
<1>3. data = <<"receipt", data[2]>> /\ data[2] \in receipts
  BY <1>1, DataKinds DEF SignedIn
<1> QED
  BY <1>1, <1>2, <1>3

LEMMA PathsOfReceipt ==
  ASSUME NEW data, IsData(data), data[1] = "receipt"
  PROVE  [at \in DOMAIN data[2].artifacts |-> data[2].artifacts[at].path] \in Seq(Paths)
<1> DEFINE artifacts == data[2].artifacts
           n == Len(artifacts)
<1>1. IsSeq(artifacts) /\ \A at \in DOMAIN artifacts : artifacts[at].path \in Paths
  BY DataKinds DEF IsReceipt
<1> HIDE DEF artifacts
<1>2. n \in Nat /\ DOMAIN artifacts = 1 .. n
  BY <1>1, SeqLen
<1> HIDE DEF n
<1>3. [at \in 1 .. n |-> artifacts[at].path] \in Seq(Paths)
  BY <1>1, <1>2
<1> QED
  BY <1>2, <1>3 DEF artifacts

LEMMA LoadVerifyingOk ==
  ASSUME CInv, NEW p \in Processes, LoadVerifyingKey(p)
  PROVE  \E s : StepOk(p, s)
<1> DEFINE state == process[p]
           inline == Flag(state.parsed, "key")
           algorithm == getFlag(state.parsed, <<"algo", "algorithm">>)
           loaded == loadKeyMaterial(KeyFile(state.parsed), "verify", algorithm)
           key == IF inline \notin {Missing, ""} THEN InlineKeys[inline]
                  ELSE IF KeyFile(state.parsed) # Missing THEN IF loaded = Throws THEN Blank ELSE loaded
                  ELSE IF inline = "" THEN Blank ELSE Missing
           verdict == Verdict(state.receipt, key, algorithm)
           todo == IF CheckFiles(state.parsed)
                   THEN [at \in DOMAIN state.receipt[2].artifacts |-> state.receipt[2].artifacts[at].path]
                   ELSE << >>
           s == [state EXCEPT !.stage = "hash", !.key = key, !.valid = TRUE, !.todo = todo]
<1>1. /\ ProcessOk(state, content, made, moves) /\ moves \in Nat
      /\ state.stage = "load key" /\ DOMAIN state = Fields /\ state.parsed.command = "verify"
      /\ state.parsed # Missing /\ NamesPaths(state.parsed)
  BY AtWork DEF LoadVerifyingKey, At, Is, Active
<1>2. \/ Exits(p, 1)
      \/ verdict.valid /\ (Gate(state.parsed) => PolicyPassed(verdict)) /\ Goes(p, s)
  BY DEF LoadVerifyingKey
<1>3. OnlyProcess
  BY DEF LoadVerifyingKey
<1> HIDE DEF key, algorithm
<1>4. ASSUME verdict.valid, Gate(state.parsed) => PolicyPassed(verdict), Goes(p, s)
      PROVE  StepOk(p, s)
  <2>1. IsData(state.receipt) /\ SignedIn(state.receipt, made)
    BY <1>1 DEF ProcessOk, GateOk
  <2>2. state.receipt[1] = "receipt"
    BY <1>4 DEF Verdict
  <2>3. todo \in Seq(Paths)
    BY <2>1, <2>2, PathsOfReceipt
  <2>4. Gate(state.parsed) =>
          \E r \in made : state.receipt = <<"receipt", r>> /\ r.version = "2.0.0" /\ key = r.key
    BY <1>4, <2>1, VerdictPassed
  <2> HIDE DEF todo
  <2>5. /\ DOMAIN s = Fields /\ s.stage = "hash" /\ s.parsed = state.parsed /\ s.outputs = state.outputs
        /\ s.moves = state.moves /\ s.reading = state.reading /\ s.todo = todo
        /\ s.digests = state.digests /\ s.receipt = state.receipt /\ s.key = key
    BY <1>1 DEF Fields
  <2> HIDE DEF s, state
  <2>6. StateOk(s, moves)
    BY <1>1, <2>5 DEF ProcessOk, StateOk, Active, Serving
  <2>7. HashingOk(s, content)
    BY <1>1, <2>3, <2>5 DEF ProcessOk, HashingOk
  <2>8. OutputsOk(s, content, made)
    BY <1>1, <2>5 DEF ProcessOk, OutputsOk
  <2>9. GateOk(s, made)
    BY <2>4, <2>5 DEF GateOk, Passed
  <2> QED
    BY <1>3, <1>4, <2>6, <2>7, <2>8, <2>9, QuietStep DEF ProcessOk
<1> HIDE DEF s, state, verdict
<1> QED
  BY <1>2, <1>3, <1>4, QuietExit

-----------------------------------------------------------------------------
(***************************************************************************)
(* Hashing a file, as much of it at a time as the buffer takes.            *)
(***************************************************************************)
LEMMA SameSeq ==
  ASSUME NEW s, IsSeq(s), NEW t, IsSeq(t), Len(s) = Len(t), \A at \in 1 .. Len(s) : s[at] = t[at]
  PROVE  s = t
<1>1. \E S : s \in Seq(S)
  BY DEF IsSeq
<1>2. \E T : t \in Seq(T)
  BY DEF IsSeq
<1>3. PICK S : s \in Seq(S)
  BY <1>1
<1>4. PICK T : t \in Seq(T)
  BY <1>2
<1>5. s \in Seq(S \union T) /\ t \in Seq(S \union T)
  BY <1>3, <1>4
<1> QED
  BY <1>5, SeqEqual

LEMMA FilledOk ==
  ASSUME NEW buffer, IsSeq(buffer), NEW read, IsSeq(read)
  PROVE  IsSeq(Filled(buffer, read)) /\ Hashed(Filled(buffer, read), Len(read)) = read
<1> DEFINE rest == SubSeq(buffer, Len(read) + 1, Len(buffer))
           first == [at \in 1 .. Len(read) |-> read[at]]
<1>1. Len(read) \in Nat /\ Len(buffer) \in Nat /\ DOMAIN read = 1 .. Len(read)
  BY SeqLen
<1>2. first = read
  BY <1>1 DEF IsSeq
<1>3. IsSeq(rest)
  <2>1. CASE Len(buffer) < Len(read) + 1
    <3>1. rest = << >>
      BY <1>1, <2>1, SubSeqEmpty
    <3> QED
      BY <3>1, EmptyIsSeq
  <2>2. CASE Len(read) + 1 <= Len(buffer)
    BY <1>1, <2>2, SubSeqIsSeq
  <2> QED
    BY <1>1, <2>1, <2>2
<1> HIDE DEF rest, first
<1>4. Filled(buffer, read) = read \o rest
  BY <1>2 DEF Filled, rest, first
<1>5. /\ IsSeq(read \o rest) /\ Len(read) <= Len(read \o rest)
      /\ \A at \in DOMAIN read : (read \o rest)[at] = read[at]
  BY <1>1, <1>3, ConcatIsSeq, SeqLen
<1> DEFINE whole == read \o rest
           hashed == SubSeq(whole, 1, Len(read))
<1>6. /\ IsSeq(whole) /\ Len(read) <= Len(whole) /\ Len(whole) \in Nat
      /\ \A at \in DOMAIN read : whole[at] = read[at]
  BY <1>5, SeqLen
<1> HIDE DEF whole
<1>7. /\ IsSeq(hashed) /\ Len(hashed) = Len(read)
      /\ \A at \in 1 .. Len(read) : hashed[at] = whole[at]
  BY <1>1, <1>6, SubSeqIsSeq
<1> HIDE DEF hashed
<1>8. DOMAIN hashed = DOMAIN read /\ \A at \in DOMAIN read : hashed[at] = read[at]
  BY <1>1, <1>6, <1>7, SeqLen
<1>9. hashed = read
  BY <1>1, <1>7, <1>8, SameSeq
<1> QED
  BY <1>4, <1>5, <1>9 DEF Hashed, hashed, whole

ReadEnd(cells, offset) == IF Len(cells) < offset + Buffer THEN Len(cells) ELSE offset + Buffer
ReadAt(cells, offset) == SubSeq(cells, offset + 1, ReadEnd(cells, offset))

LEMMA ReadCells ==
  ASSUME NEW cells, IsSeq(cells), NEW offset \in Nat
  PROVE  /\ IsSeq(ReadAt(cells, offset)) /\ Len(ReadAt(cells, offset)) \in Nat
         /\ offset <= Len(cells) =>
              /\ SubSeq(cells, 1, offset) \o ReadAt(cells, offset) =
                   SubSeq(cells, 1, offset + Len(ReadAt(cells, offset)))
              /\ offset + Len(ReadAt(cells, offset)) <= Len(cells)
              /\ ReadAt(cells, offset) = << >> => SubSeq(cells, 1, offset) = cells
<1> DEFINE end == ReadEnd(cells, offset)
           read == ReadAt(cells, offset)
<1>1. Len(cells) \in Nat /\ end \in Nat /\ end <= Len(cells)
  BY SeqLen DEF Buffer, ReadEnd
<1>4. offset <= Len(cells) => end >= offset /\ (offset < Len(cells) => offset < end)
  BY <1>1 DEF Buffer, ReadEnd
<1>5. read = SubSeq(cells, offset + 1, end)
  BY DEF ReadAt
<1> HIDE DEF end, read
<1>2. CASE offset > Len(cells)
  <2>1. end < offset + 1 /\ ~(offset <= Len(cells))
    BY <1>1, <1>2
  <2>2. read = << >>
    BY <1>1, <1>5, <2>1, SubSeqEmpty
  <2>3. IsSeq(read) /\ Len(read) \in Nat
    BY <2>2, EmptyIsSeq, SeqLen
  <2> QED
    BY <2>1, <2>3 DEF read
<1>3. CASE offset <= Len(cells)
  <2>1. end >= offset /\ (offset < Len(cells) => offset < end)
    BY <1>3, <1>4
  <2>6. offset + 1 \in 1 .. Len(cells) + 1 /\ end \in 0 .. Len(cells)
    BY <1>1, <1>3
  <2>7. /\ IsSeq(SubSeq(cells, offset + 1, end))
        /\ Len(SubSeq(cells, offset + 1, end)) = IF offset + 1 <= end THEN end - (offset + 1) + 1 ELSE 0
    BY <2>6, SubSeqIsSeq
  <2>2. IsSeq(read) /\ Len(read) = end - offset
    BY <1>1, <1>3, <1>5, <2>1, <2>7
  <2>8. 1 \in 1 .. Len(cells) + 1 /\ offset \in 0 .. Len(cells) /\ end \in offset .. Len(cells)
    BY <1>1, <1>3, <2>1
  <2>9. PICK S : cells \in Seq(S)
    BY DEF IsSeq
  <2>3. SubSeq(cells, 1, offset) \o read = SubSeq(cells, 1, end)
    BY <1>5, <2>8, <2>9, ConcatAdjacentSubSeq
  <2>4. ASSUME read = << >>
        PROVE  SubSeq(cells, 1, offset) = cells
    <3>2. Len(read) = 0
      BY <2>4
    <3>1. offset = Len(cells)
      BY <1>1, <1>3, <2>1, <2>2, <3>2
    <3> QED
      BY <3>1, <2>9, SubSeqFull
  <2>5. offset + Len(read) = end
    BY <1>1, <2>1, <2>2
  <2>10. offset + Len(read) <= Len(cells) /\ Len(read) \in Nat
    BY <1>1, <2>1, <2>2
  <2>11. SubSeq(cells, 1, offset) \o read = SubSeq(cells, 1, offset + Len(read))
    BY <2>3, <2>5, Zenon
  <2> QED
    BY <2>2, <2>4, <2>10, <2>11, Zenon DEF read
<1> QED
  BY <1>1, <1>2, <1>3

LEMMA TodoRest ==
  ASSUME NEW todo \in Seq(Paths), todo # << >>
  PROVE  Head(todo) \in Paths /\ Tail(todo) \in Seq(Paths)
BY HeadTailProperties

LEMMA OpenArtifactOk ==
  ASSUME CInv, NEW p \in Processes, OpenArtifact(p)
  PROVE  \E s : StepOk(p, s)
<1> DEFINE state == process[p]
           path == Head(state.todo)
           i == Inode(path)
           buffer == IF state.digests = << >> THEN << >> ELSE Last(state.digests).buffer
           reading == [inode |-> i, offset |-> 0, hashed |-> << >>, buffer |-> buffer, opened |-> content[i]]
           opened == [state EXCEPT !.reading = reading]
           passed == [state EXCEPT !.valid = FALSE, !.todo = Tail(@)]
<1>1. /\ ProcessOk(state, content, made, moves) /\ FilesInv /\ moves \in Nat
      /\ state.stage = "hash" /\ DOMAIN state = Fields /\ state.parsed.command \in {"attest", "verify"}
      /\ state.parsed # Missing /\ NamesPaths(state.parsed)
      /\ state.todo # << >> /\ state.reading = Missing
  BY AtWork DEF OpenArtifact, At, Active, Serving
<1>2. \/ i # Missing /\ Goes(p, opened)
      \/ Exits(p, 1)
      \/ Goes(p, passed)
  BY DEF OpenArtifact
<1>3. OnlyProcess
  BY DEF OpenArtifact
<1>4. path \in Paths /\ Tail(state.todo) \in Seq(Paths)
  BY <1>1, TodoRest DEF ProcessOk, HashingOk
<1>5. ASSUME i # Missing, Goes(p, opened)
      PROVE  StepOk(p, opened)
  <2>1. i \in Inodes /\ IsData(content[i].data) /\ content[i].writes \in Nat /\ content[i].data # Unused
    BY <1>1, <1>4, <1>5, NamesLead DEF DataAt, FilesInv, IsFile
  <2>2. IsSeq(buffer)
    <3>1. CASE state.digests = << >>
      BY <3>1, EmptyIsSeq
    <3>2. CASE state.digests # << >>
      <4>1. IsSeq(state.digests) /\ \A at \in DOMAIN state.digests : IsSeq(state.digests[at].buffer)
        BY <1>1 DEF ProcessOk, HashingOk, IsEntry
      <4>2. Len(state.digests) \in DOMAIN state.digests
        BY <3>2, <4>1, TailIsSeq, SeqLen
      <4> QED
        BY <3>2, <4>1, <4>2 DEF Last
    <3> QED
      BY <3>1, <3>2
  <2> HIDE DEF i, buffer
  <2>3. /\ DOMAIN reading = {"inode", "offset", "hashed", "buffer", "opened"}
        /\ reading.inode = i /\ reading.offset = 0 /\ reading.hashed = << >>
        /\ reading.buffer = buffer /\ reading.opened = content[i]
    OBVIOUS
  <2> HIDE DEF reading
  <2>4. IsReading(reading)
    BY <2>1, <2>2, <2>3 DEF IsReading
  <2>5. ReadsFrom(reading, content[i])
    <3> DEFINE cells == Cells(content[i].data)
    <3>1. IsSeq(cells)
      BY <2>1, DataKinds
    <3> HIDE DEF cells
    <3>2. Len(cells) >= 0 /\ SubSeq(cells, 1, 0) = << >>
      BY <3>1, SeqLen, SubSeqEmpty
    <3> QED
      BY <2>1, <2>3, <3>2 DEF ReadsFrom, cells
  <2>6. /\ DOMAIN opened = Fields /\ opened.stage = "hash" /\ opened.parsed = state.parsed
        /\ opened.outputs = state.outputs /\ opened.moves = state.moves /\ opened.reading = reading
        /\ opened.todo = state.todo /\ opened.digests = state.digests
        /\ opened.receipt = state.receipt /\ opened.key = state.key
    BY <1>1 DEF Fields
  <2> HIDE DEF opened, state
  <2>7. StateOk(opened, moves)
    BY <1>1, <2>6 DEF ProcessOk, StateOk, Active, Serving
  <2>8. HashingOk(opened, content)
    BY <1>1, <2>3, <2>4, <2>5, <2>6 DEF ProcessOk, HashingOk
  <2>9. OutputsOk(opened, content, made)
    BY <1>1, <2>6 DEF ProcessOk, OutputsOk
  <2>10. GateOk(opened, made)
    BY <1>1, <2>6 DEF ProcessOk, GateOk, Passed
  <2> QED
    BY <1>3, <1>5, <2>7, <2>8, <2>9, <2>10, QuietStep DEF ProcessOk
<1>6. ASSUME Goes(p, passed)
      PROVE  StepOk(p, passed)
  <2>1. /\ DOMAIN passed = Fields /\ passed.stage = "hash" /\ passed.parsed = state.parsed
        /\ passed.outputs = state.outputs /\ passed.moves = state.moves /\ passed.reading = state.reading
        /\ passed.todo = Tail(state.todo) /\ passed.digests = state.digests
        /\ passed.receipt = state.receipt /\ passed.key = state.key
    BY <1>1 DEF Fields
  <2> HIDE DEF passed, state
  <2>2. StateOk(passed, moves)
    BY <1>1, <2>1 DEF ProcessOk, StateOk, Active, Serving
  <2>3. HashingOk(passed, content)
    BY <1>1, <1>4, <2>1 DEF ProcessOk, HashingOk
  <2>4. OutputsOk(passed, content, made)
    BY <1>1, <2>1 DEF ProcessOk, OutputsOk
  <2>5. GateOk(passed, made)
    BY <1>1, <2>1 DEF ProcessOk, GateOk, Passed
  <2> QED
    BY <1>3, <1>6, <2>2, <2>3, <2>4, <2>5, QuietStep DEF ProcessOk
<1> HIDE DEF opened, passed, i, state
<1> QED
  BY <1>2, <1>3, <1>5, <1>6, QuietExit

LEMMA ReadArtifactOk ==
  ASSUME CInv, NEW p \in Processes, ReadArtifact(p)
  PROVE  \E s : StepOk(p, s)
<1> DEFINE state == process[p]
           reading == state.reading
           file == content[reading.inode]
           cells == Cells(file.data)
           read == ReadAt(cells, reading.offset)
           buffer == Filled(reading.buffer, read)
           more == [reading EXCEPT !.offset = @ + Len(read), !.buffer = buffer,
                                   !.hashed = @ \o Hashed(buffer, Len(read))]
           entry == [path |-> Head(state.todo), cells |-> reading.hashed, buffer |-> reading.buffer,
                     opened |-> Cells(reading.opened.data), undisturbed |-> file = reading.opened]
           reads == [state EXCEPT !.reading = more]
           ends == [state EXCEPT !.reading = Missing, !.todo = Tail(@), !.digests = Append(@, entry)]
<1>1. /\ ProcessOk(state, content, made, moves) /\ FilesInv /\ moves \in Nat
      /\ state.stage = "hash" /\ DOMAIN state = Fields /\ state.parsed.command \in {"attest", "verify"}
      /\ state.parsed # Missing /\ NamesPaths(state.parsed) /\ reading # Missing
  BY AtWork DEF ReadArtifact, At, Active, Serving
<1>2. \/ read # << >> /\ Goes(p, reads)
      \/ read = << >> /\ Goes(p, ends)
  BY DEF ReadArtifact, ReadAt, ReadEnd
<1>3. OnlyProcess
  BY DEF ReadArtifact
<1>4. /\ IsReading(reading) /\ ReadsFrom(reading, file) /\ state.todo # << >>
      /\ state.todo \in Seq(Paths) /\ IsSeq(state.digests)
      /\ \A at \in DOMAIN state.digests : IsEntry(state.digests[at])
  BY <1>1 DEF ProcessOk, HashingOk
<1>5. IsSeq(cells) /\ file.writes \in Nat /\ reading.offset \in Nat /\ IsSeq(reading.buffer)
  <2>1. reading.inode \in Inodes /\ file.data # Unused /\ reading.offset \in Nat /\ IsSeq(reading.buffer)
    BY <1>4 DEF IsReading, ReadsFrom
  <2>2. IsData(file.data) /\ file.writes \in Nat
    BY <1>1, <2>1 DEF FilesInv, IsFile
  <2> QED
    BY <2>1, <2>2, DataKinds
<1>6. IsSeq(read) /\ Len(read) \in Nat
  BY <1>5, ReadCells
<1>7. reading.offset <= Len(cells) =>
        /\ SubSeq(cells, 1, reading.offset) \o read = SubSeq(cells, 1, reading.offset + Len(read))
        /\ reading.offset + Len(read) <= Len(cells)
        /\ read = << >> => SubSeq(cells, 1, reading.offset) = cells
  BY <1>5, ReadCells
<1> HIDE DEF read
<1>8. IsSeq(buffer) /\ Hashed(buffer, Len(read)) = read
  BY <1>5, <1>6, FilledOk
<1> HIDE DEF buffer, cells
<1>9. ASSUME Goes(p, reads)
      PROVE  StepOk(p, reads)
  <2>1. /\ DOMAIN more = {"inode", "offset", "hashed", "buffer", "opened"}
        /\ more.inode = reading.inode /\ more.opened = reading.opened /\ more.buffer = buffer
        /\ more.offset = reading.offset + Len(read) /\ more.hashed = reading.hashed \o read
    BY <1>4, <1>8 DEF IsReading
  <2>2. IsReading(more)
    BY <1>4, <1>6, <1>8, <2>1 DEF IsReading
  <2>3. ReadsFrom(more, content[more.inode])
    BY <1>4, <1>7, <2>1 DEF ReadsFrom, cells
  <2> HIDE DEF more
  <2>4. /\ DOMAIN reads = Fields /\ reads.stage = "hash" /\ reads.parsed = state.parsed
        /\ reads.outputs = state.outputs /\ reads.moves = state.moves /\ reads.reading = more
        /\ reads.todo = state.todo /\ reads.digests = state.digests
        /\ reads.receipt = state.receipt /\ reads.key = state.key
    BY <1>1 DEF Fields
  <2> HIDE DEF reads, reading, state
  <2>5. StateOk(reads, moves)
    BY <1>1, <2>4 DEF ProcessOk, StateOk, Active, Serving
  <2>6. HashingOk(reads, content)
    BY <1>4, <2>2, <2>3, <2>4 DEF HashingOk
  <2>7. OutputsOk(reads, content, made)
    BY <1>1, <2>4 DEF ProcessOk, OutputsOk
  <2>8. GateOk(reads, made)
    BY <1>1, <2>4 DEF ProcessOk, GateOk, Passed
  <2> QED
    BY <1>3, <1>9, <2>5, <2>6, <2>7, <2>8, QuietStep DEF ProcessOk
<1>10. ASSUME read = << >>, Goes(p, ends)
       PROVE  StepOk(p, ends)
  <2>1. Head(state.todo) \in Paths /\ Tail(state.todo) \in Seq(Paths)
    BY <1>4, TodoRest
  <2>2. file = reading.opened => reading.hashed = Cells(reading.opened.data)
    BY <1>4, <1>7, <1>10 DEF ReadsFrom, cells
  <2>3. IsEntry(entry)
    BY <1>5, <2>1, <2>2 DEF IsEntry
  <2> HIDE DEF entry
  <2>4. /\ IsSeq(Append(state.digests, entry))
        /\ \A at \in DOMAIN Append(state.digests, entry) : IsEntry(Append(state.digests, entry)[at])
    BY <1>4, <2>3, AppendIsSeq
  <2>5. /\ DOMAIN ends = Fields /\ ends.stage = "hash" /\ ends.parsed = state.parsed
        /\ ends.outputs = state.outputs /\ ends.moves = state.moves /\ ends.reading = Missing
        /\ ends.todo = Tail(state.todo) /\ ends.digests = Append(state.digests, entry)
        /\ ends.receipt = state.receipt /\ ends.key = state.key
    BY <1>1 DEF Fields
  <2> HIDE DEF ends, reading, state
  <2>6. StateOk(ends, moves)
    BY <1>1, <2>5 DEF ProcessOk, StateOk, Active, Serving
  <2>7. HashingOk(ends, content)
    BY <2>1, <2>4, <2>5 DEF HashingOk
  <2>8. OutputsOk(ends, content, made)
    BY <1>1, <2>5 DEF ProcessOk, OutputsOk
  <2>9. GateOk(ends, made)
    BY <1>1, <2>5 DEF ProcessOk, GateOk, Passed
  <2> QED
    BY <1>3, <1>10, <2>6, <2>7, <2>8, <2>9, QuietStep DEF ProcessOk
<1> HIDE DEF reads, ends, state
<1> QED
  BY <1>2, <1>9, <1>10

\* What is written after a receipt was created.
Presentation(path, receipt) ==
  IF path = Missing THEN << >> ELSE <<[path |-> path, data |-> <<"presentation", receipt>>]>>

LEMMA PresentationOutputs ==
  ASSUME NEW path \in Paths \union {Missing}, NEW receipt, NEW receipts
  PROVE  /\ IsSeq(Presentation(path, receipt))
         /\ \A at \in DOMAIN Presentation(path, receipt) : IsOutput(Presentation(path, receipt)[at], receipts)
<1>1. CASE path = Missing
  BY <1>1, EmptyIsSeq, IdleFields DEF Presentation
<1>2. CASE path # Missing
  <2> DEFINE output == [path |-> path, data |-> <<"presentation", receipt>>]
  <2>1. IsOutput(output, receipts)
    BY <1>2, PlainData DEF IsOutput
  <2> HIDE DEF output
  <2>2. Presentation(path, receipt) = <<output>>
    BY <1>2 DEF Presentation, output
  <2> QED
    BY <2>1, <2>2, OneOutput
<1> QED
  BY <1>1, <1>2

LEMMA OutputsConcat ==
  ASSUME NEW receipts, NEW s, IsSeq(s), \A at \in DOMAIN s : IsOutput(s[at], receipts),
         NEW t, IsSeq(t), \A at \in DOMAIN t : IsOutput(t[at], receipts), s # << >>
  PROVE  /\ IsSeq(s \o t) /\ s \o t # << >>
         /\ \A at \in DOMAIN (s \o t) : IsOutput((s \o t)[at], receipts)
<1> DEFINE u == s \o t
<1>1. IsSeq(u) /\ Len(u) = Len(s) + Len(t) /\ Len(s) >= 1 /\ Len(t) \in Nat
  BY ConcatIsSeq, TailIsSeq, SeqLen
<1>2. \A at \in DOMAIN u : (\E n \in DOMAIN s : u[at] = s[n]) \/ (\E n \in DOMAIN t : u[at] = t[n])
  BY ConcatIsSeq
<1> HIDE DEF u
<1>3. u # << >>
  <2>1. Len(u) # 0
    BY <1>1, SeqLen
  <2> QED
    BY <2>1
<1> QED
  BY <1>1, <1>2, <1>3 DEF u

LEMMA CreateReceiptOk ==
  ASSUME CInv, NEW p \in Processes, CreateReceipt(p),
         CanSign(process[p].key, Or(Flag(process[p].parsed, "algo"), "HMAC-SHA256"))
  PROVE  \E s : StepOk(p, s)
<1> DEFINE state == process[p]
           algorithm == Or(Flag(state.parsed, "algo"), "HMAC-SHA256")
           key == VerifyingKey(state.key, algorithm)
           artifacts == [at \in DOMAIN state.digests |-> Digest(state.digests[at])]
           receipt == [version |-> "2.0.0", key |-> key, algorithm |-> algorithm, changed |-> FALSE,
                       artifacts |-> artifacts]
           first == [path |-> OutPath(state.parsed), data |-> <<"receipt", receipt>>]
           badge == Presentation(Or(Flag(state.parsed, "badge"), Missing), receipt)
           html == Presentation(Or(Flag(state.parsed, "html"), Missing), receipt)
           outputs == <<first>> \o badge \o html
           s == [state EXCEPT !.stage = "open", !.outputs = outputs]
<1>1. /\ ProcessOk(state, content, made, moves) /\ FilesInv /\ moves \in Nat
      /\ state.stage = "hash" /\ DOMAIN state = Fields /\ state.parsed.command = "attest"
      /\ state.parsed # Missing /\ NamesPaths(state.parsed)
  BY AtWork DEF CreateReceipt, At, Is, Active
<1>2. /\ Goes(p, s) /\ made' = made \union {receipt} /\ UNCHANGED <<link, content, changes, moves>>
      /\ state.reading = Missing
  BY DEF CreateReceipt, SameFiles, Presentation
<1>3. IsSeq(artifacts) /\ \A at \in DOMAIN artifacts : artifacts[at].path \in Paths
  <2>1. IsSeq(state.digests) /\ \A at \in DOMAIN state.digests : state.digests[at].path \in Paths
    BY <1>1 DEF ProcessOk, HashingOk, IsEntry
  <2>2. Len(state.digests) \in Nat /\ DOMAIN state.digests = 1 .. Len(state.digests)
    BY <2>1, SeqLen
  <2>3. \A at \in DOMAIN artifacts : artifacts[at].path = state.digests[at].path
    BY DEF Digest
  <2>4. DOMAIN artifacts = 1 .. Len(state.digests)
    BY <2>2
  <2>5. artifacts = [at \in 1 .. Len(state.digests) |-> artifacts[at]]
    BY <2>2
  <2> HIDE DEF artifacts
  <2>6. IsSeq(artifacts)
    BY <2>2, <2>4, <2>5, FunctionIsSeq
  <2> QED
    BY <2>1, <2>2, <2>3, <2>4, <2>6
<1> HIDE DEF artifacts, key, algorithm
<1>4. IsReceipt(receipt) /\ receipt \in made'
  BY <1>2, <1>3 DEF IsReceipt
<1> HIDE DEF receipt
<1>5. IsOutput(first, made')
  <2>1. OutPath(state.parsed) \in Paths
    BY <1>1 DEF NamesPaths
  <2>2. IsData(<<"receipt", receipt>>) /\ SignedIn(<<"receipt", receipt>>, made')
    BY <1>4 DEF IsData, SignedIn
  <2> QED
    BY <2>1, <2>2 DEF IsOutput
<1> HIDE DEF first
<1>6. /\ IsSeq(badge) /\ \A at \in DOMAIN badge : IsOutput(badge[at], made')
      /\ IsSeq(html) /\ \A at \in DOMAIN html : IsOutput(html[at], made')
  <2>1. \A flag \in {"badge", "html"} : Or(Flag(state.parsed, flag), Missing) \in Paths \union {Missing}
    BY <1>1 DEF NamesPaths
  <2> QED
    BY <2>1, PresentationOutputs
<1> HIDE DEF badge, html
<1>7. /\ IsSeq(outputs) /\ outputs # << >>
      /\ \A at \in DOMAIN outputs : IsOutput(outputs[at], made')
  <2> DEFINE two == <<first>> \o badge
  <2>1. /\ IsSeq(<<first>>) /\ <<first>> # << >>
        /\ \A at \in DOMAIN <<first>> : IsOutput(<<first>>[at], made')
    BY <1>5, OneOutput
  <2>2. IsSeq(two) /\ two # << >> /\ \A at \in DOMAIN two : IsOutput(two[at], made')
    BY <1>6, <2>1, OutputsConcat
  <2> HIDE DEF two
  <2>3. IsSeq(two \o html) /\ two \o html # << >> /\ \A at \in DOMAIN (two \o html) : IsOutput((two \o html)[at], made')
    BY <1>6, <2>2, OutputsConcat
  <2> QED
    BY <2>3 DEF two
<1> HIDE DEF outputs
<1>8. /\ DOMAIN s = Fields /\ s.stage = "open" /\ s.parsed = state.parsed /\ s.outputs = outputs
      /\ s.moves = state.moves /\ s.reading = Missing /\ s.todo = state.todo /\ s.digests = state.digests
  BY <1>1, <1>2 DEF Fields
<1>9. FilesInv' /\ Later(content, content') /\ made \subseteq made'
  BY <1>1, <1>2 DEF FilesInv, Later, IsFile, SignedIn
<1> HIDE DEF s, state
<1>10. StateOk(s, moves)
  BY <1>1, <1>8 DEF ProcessOk, StateOk, Active, Serving
<1>11. HashingOk(s, content')
  BY <1>1, <1>8 DEF ProcessOk, HashingOk
<1>12. OutputsOk(s, content', made')
  BY <1>1, <1>7, <1>8 DEF OutputsOk
<1>13. GateOk(s, made')
  BY <1>8 DEF GateOk
<1> QED
  BY <1>2, <1>9, <1>10, <1>11, <1>12, <1>13 DEF ProcessOk, StepOk

LEMMA SigningOk ==
  ASSUME CInv, NEW p \in Processes, CreateReceipt(p)
  PROVE  \E s : StepOk(p, s)
<1> DEFINE usable == CanSign(process[p].key, Or(Flag(process[p].parsed, "algo"), "HMAC-SHA256"))
<1>1. CASE usable
  BY <1>1, CreateReceiptOk
<1>2. CASE ~usable
  <2>1. Exits(p, 1) /\ OnlyProcess
    BY <1>2 DEF CreateReceipt, OnlyProcess
  <2> QED
    BY <2>1, QuietExit
<1> QED
  BY <1>1, <1>2

LEMMA VerifiedOk ==
  ASSUME CInv, NEW p \in Processes, Verified(p)
  PROVE  \E s : StepOk(p, s)
<1> DEFINE state == process[p]
           recorded == [at \in DOMAIN state.digests |-> Digest(state.digests[at])]
           valid == state.valid /\ (CheckFiles(state.parsed) => recorded = state.receipt[2].artifacts)
           s == [state EXCEPT !.stage = "exited", !.code = 0]
<1>1. /\ ProcessOk(state, content, made, moves) /\ moves \in Nat
      /\ state.stage = "hash" /\ DOMAIN state = Fields /\ state.parsed.command = "verify"
  BY AtWork DEF Verified, At, Is, Active
<1>2. \/ valid /\ Gate(state.parsed) /\ Goes(p, s)
      \/ Exits(p, 0) \/ Exits(p, 1)
  BY DEF Verified
<1>3. OnlyProcess /\ state.reading = Missing
  BY DEF Verified
<1>4. ASSUME valid, Gate(state.parsed), Goes(p, s)
      PROVE  StepOk(p, s)
  <2>1. CheckFiles(state.parsed) =>
          state.receipt[2].artifacts = [at \in DOMAIN state.digests |-> Digest(state.digests[at])]
    BY <1>4
  <2>2. /\ DOMAIN s = Fields /\ s.stage = "exited" /\ s.parsed = state.parsed /\ s.outputs = state.outputs
        /\ s.moves = state.moves /\ s.reading = Missing /\ s.todo = state.todo
        /\ s.digests = state.digests /\ s.receipt = state.receipt /\ s.key = state.key
    BY <1>1, <1>3 DEF Fields
  <2> HIDE DEF s, state
  <2>3. StateOk(s, moves)
    BY <1>1, <2>2 DEF ProcessOk, StateOk, Active
  <2>4. HashingOk(s, content)
    BY <1>1, <2>2 DEF ProcessOk, HashingOk
  <2>5. OutputsOk(s, content, made)
    BY <1>1, <2>2 DEF ProcessOk, OutputsOk, Active
  <2>6. GateOk(s, made)
    <3>1. Passed(s, made)
      BY <1>1, <2>2 DEF ProcessOk, GateOk, Passed
    <3> QED
      BY <1>4, <2>1, <2>2, <3>1 DEF GateOk
  <2> QED
    BY <1>3, <1>4, <2>3, <2>4, <2>5, <2>6, QuietStep DEF ProcessOk
<1> HIDE DEF s, valid, state
<1> QED
  BY <1>2, <1>3, <1>4, QuietExit

LEMMA CrashOk ==
  ASSUME CInv, NEW p \in Processes, Crash(p)
  PROVE  \E s : StepOk(p, s)
<1> DEFINE state == process[p]
<1>1. ProcessOk(state, content, made, moves) /\ FilesInv /\ moves \in Nat
  BY AtWork
<1>2. CASE SameFiles
  BY <1>2, QuietExit DEF Crash, OnlyProcess
<1>3. CASE At(p, "write") /\ Put(state.fd, <<"part">>) /\ UNCHANGED link
  <2>1. Goes(p, Exited(Missing)) /\ UNCHANGED <<made, changes, moves>>
    BY DEF Crash, Exits, Exited
  <2>2. state.fd \in Inodes
    BY <1>1, <1>3 DEF ProcessOk, OutputsOk, At
  <2>3. IsData(<<"part">>) /\ SignedIn(<<"part">>, made)
    BY PlainData
  <2>4. FilesInv' /\ Later(content, content')
    BY <1>1, <1>3, <2>1, <2>2, <2>3, PutOk
  <2> QED
    BY <1>1, <2>1, <2>4, IdleOk DEF StepOk
<1> QED
  BY <1>2, <1>3 DEF Crash

-----------------------------------------------------------------------------
\* What others do.
LEMMA OthersKeep ==
  ASSUME CInv, FilesInv', Later(content, content'), UNCHANGED <<process, made>>,
         moves' \in Nat, moves <= moves'
  PROVE  CInv'
<1>1. \A i \in Inodes : content[i].writes \in Nat /\ content'[i].writes \in Nat
  BY DEF CInv, FilesInv, IsFile
<1>2. ASSUME NEW p \in Processes
      PROVE  ProcessOk(process[p], content', made, moves')
  BY <1>1, StaysOk DEF CInv
<1> QED
  BY <1>2 DEF CInv

LEMMA EditData ==
  ASSUME NEW data, IsData(data), NEW receipts
  PROVE  /\ data[1] = "cells" =>
              \A cells \in {<<"new">> \o Tail(data[2]), Front(data[2]) \o <<"new">>, Append(data[2], "new")} :
                IsData(<<"cells", cells>>) /\ SignedIn(<<"cells", cells>>, receipts)
         /\ data[1] = "receipt" =>
              LET edited == <<"receipt", [data[2] EXCEPT !.changed = TRUE]>>
              IN  IsData(edited) /\ SignedIn(edited, receipts)
<1>1. ASSUME data[1] = "cells",
             NEW cells \in {<<"new">> \o Tail(data[2]), Front(data[2]) \o <<"new">>, Append(data[2], "new")}
      PROVE  IsData(<<"cells", cells>>) /\ SignedIn(<<"cells", cells>>, receipts)
  <2> DEFINE before == data[2]
  <2>1. IsSeq(before) /\ before # << >>
    BY <1>1, DataKinds
  <2> HIDE DEF before
  <2>2. IsSeq(<<"new">>) /\ Len(<<"new">>) = 1 /\ IsSeq(Tail(before)) /\ Len(before) >= 1 /\ Len(before) \in Nat
    BY <2>1, OneIsSeq, TailIsSeq, SeqLen
  <2>3. IsSeq(Front(before)) /\ Len(Front(before)) \in Nat
    <3>1. Front(before) = SubSeq(before, 1, Len(before) - 1)
      BY DEF Front
    <3>2. IsSeq(SubSeq(before, 1, Len(before) - 1))
      BY <2>1, <2>2, SubSeqIsSeq
    <3> QED
      BY <3>1, <3>2, SeqLen
  <2>4. IsSeq(cells) /\ Len(cells) >= 1
    <3>1. CASE cells = <<"new">> \o Tail(before)
      BY <2>2, <3>1, ConcatIsSeq, SeqLen
    <3>2. CASE cells = Front(before) \o <<"new">>
      BY <2>2, <2>3, <3>2, ConcatIsSeq
    <3>3. CASE cells = Append(before, "new")
      BY <2>1, <2>2, <3>3, AppendIsSeq
    <3> QED
      BY <1>1, <3>1, <3>2, <3>3 DEF before
  <2>5. cells # << >>
    <3>1. Len(cells) # 0
      BY <2>4, SeqLen
    <3> QED
      BY <3>1
  <2> QED
    BY <2>4, <2>5, PlainData
<1>2. ASSUME data[1] = "receipt"
      PROVE  LET edited == <<"receipt", [data[2] EXCEPT !.changed = TRUE]>>
             IN  IsData(edited) /\ SignedIn(edited, receipts)
  <2> DEFINE before == data[2]
             receipt == [before EXCEPT !.changed = TRUE]
  <2>1. IsReceipt(before)
    BY <1>2, DataKinds
  <2> HIDE DEF before
  <2>2. before = [version |-> before.version, key |-> before.key, algorithm |-> before.algorithm,
                  changed |-> before.changed, artifacts |-> before.artifacts]
    BY <2>1 DEF IsReceipt
  <2>3. receipt = [version |-> before.version, key |-> before.key, algorithm |-> before.algorithm,
                   changed |-> TRUE, artifacts |-> before.artifacts]
    <3>1. DOMAIN before = {"version", "key", "algorithm", "changed", "artifacts"}
      BY <2>2
    <3>2. /\ DOMAIN receipt = {"version", "key", "algorithm", "changed", "artifacts"}
          /\ receipt.version = before.version /\ receipt.key = before.key
          /\ receipt.algorithm = before.algorithm /\ receipt.changed = TRUE
          /\ receipt.artifacts = before.artifacts
      BY <3>1
    <3>3. receipt = [field \in {"version", "key", "algorithm", "changed", "artifacts"} |-> receipt[field]]
      BY <3>1
    <3> HIDE DEF receipt
    <3> QED
      BY <3>2, <3>3
  <2> HIDE DEF receipt
  <2>4. IsReceipt(receipt) /\ receipt.changed
    BY <2>1, <2>3 DEF IsReceipt
  <2>5. IsData(<<"receipt", receipt>>) /\ SignedIn(<<"receipt", receipt>>, receipts)
    BY <2>4 DEF IsData, SignedIn
  <2> QED
    BY <2>5 DEF receipt, before
<1> QED
  BY <1>1, <1>2

LEMMA EditOk ==
  ASSUME CInv, NEW i \in Inodes, Edit(i)
  PROVE  CInv'
<1> DEFINE data == content[i].data
<1>1. UNCHANGED <<process, made, link, moves>>
  BY DEF Edit, Other
<1>2. PICK new : Put(i, new) /\ IsData(new) /\ SignedIn(new, made)
  <2>1. data # Unused /\ (data[1] = "cells" \/ data[1] = "receipt")
    BY DEF Edit, Unused
  <2>2. IsData(data)
    BY <2>1 DEF CInv, FilesInv, IsFile
  <2> HIDE DEF data
  <2>3. CASE data[1] = "cells"
    <3>1. PICK cells \in {<<"new">> \o Tail(data[2]), Front(data[2]) \o <<"new">>, Append(data[2], "new")} :
            Put(i, <<"cells", cells>>)
      BY <2>3 DEF Edit, data
    <3> QED
      BY <2>2, <2>3, <3>1, EditData
  <2>4. CASE data[1] = "receipt"
    <3>1. Put(i, <<"receipt", [data[2] EXCEPT !.changed = TRUE]>>)
      BY <2>4 DEF Edit, data
    <3> QED
      BY <2>2, <2>4, <3>1, EditData
  <2> QED
    BY <2>1, <2>3, <2>4 DEF data
<1>3. FilesInv' /\ Later(content, content')
  BY <1>1, <1>2, PutOk DEF CInv
<1>4. moves' \in Nat /\ moves <= moves'
  BY <1>1 DEF CInv
<1> QED
  BY <1>1, <1>3, <1>4, OthersKeep

LEMMA LinksKeep ==
  ASSUME CInv, UNCHANGED <<content, process, made>>, moves' = moves + 1, LinksOk(link', content)
  PROVE  CInv'
<1>1. FilesInv' /\ Later(content, content')
  BY DEF CInv, FilesInv, Later
<1>2. moves' \in Nat /\ moves <= moves'
  BY DEF CInv
<1> QED
  BY <1>1, <1>2, OthersKeep

LEMMA UnlinkOk ==
  ASSUME CInv, NEW path \in Movable, Unlink(path)
  PROVE  CInv'
<1>1. link' = [link EXCEPT ![path] = Missing] /\ UNCHANGED <<content, process, made>> /\ moves' = moves + 1
  BY DEF Unlink, Other
<1>2. LinksOk(link, content) /\ path \in Paths /\ Missing \notin Inodes \union Paths
  BY FilesAssumption DEF CInv, FilesInv
<1>3. LinksOk(link', content)
  BY <1>1, <1>2 DEF LinksOk
<1> QED
  BY <1>1, <1>3, LinksKeep

LEMMA RelinkOk ==
  ASSUME CInv, NEW path \in Movable, NEW from \in Movable, Relink(path, from)
  PROVE  CInv'
<1>1. UNCHANGED <<content, process, made>> /\ moves' = moves + 1 /\ link[from] \in Inodes /\ path # from
  BY DEF Relink, Other
<1>2. /\ LinksOk(link, content) /\ path \in Paths /\ from \in Paths
      /\ Missing \notin Inodes \union Paths /\ Inodes \intersect Paths = {}
  BY FilesAssumption DEF CInv, FilesInv
<1>3. LinksOk(link', content)
  <2>1. CASE link' = [link EXCEPT ![path] = link[from]]
    BY <1>1, <1>2, <2>1 DEF LinksOk
  <2>2. CASE (\A other \in Paths : link[other] # path) /\ link' = [link EXCEPT ![path] = from]
    BY <1>1, <1>2, <2>2 DEF LinksOk
  <2>3. CASE link' = [link EXCEPT ![path] = link[from], ![from] = Missing]
    BY <1>1, <1>2, <2>3 DEF LinksOk
  <2> QED
    BY <2>1, <2>2, <2>3 DEF Relink
<1> QED
  BY <1>1, <1>3, LinksKeep

-----------------------------------------------------------------------------
ProcessStep(p) ==
  \/ \E argv \in CommandLines : runCli(p, argv)
  \/ writePrivateKeyFile(p) \/ OpenOutput(p) \/ WriteOutput(p)
  \/ readReceiptForPresentation(p) \/ StatInput(p) \/ requireSeparateReceiptOutput(p)
  \/ LoadSigningKey(p) \/ readReceiptForVerification(p) \/ LoadVerifyingKey(p)
  \/ OpenArtifact(p) \/ ReadArtifact(p) \/ CreateReceipt(p) \/ Verified(p)
  \/ Crash(p)

LEMMA NextCases ==
  ASSUME Next
  PROVE  \/ \E p \in Processes : ProcessStep(p)
         \/ \E i \in Inodes : Edit(i)
         \/ \E path, from \in Movable : Relink(path, from)
         \/ \E path \in Movable : Unlink(path)
BY DEF Next, ProcessStep

LEMMA ProcessSteps ==
  ASSUME CInv, NEW p \in Processes, ProcessStep(p)
  PROVE  \E s : StepOk(p, s)
BY RunOk, CreateKeyOk, OpenOk, WriteOk, ReadForPresentationOk, StatInputOk, SeparateOutputOk, LoadSigningOk,
   ReadForVerificationOk, LoadVerifyingOk, OpenArtifactOk, ReadArtifactOk, SigningOk, VerifiedOk, CrashOk
   DEF ProcessStep

LEMMA CNext ==
  ASSUME CInv, [Next]_vars
  PROVE  CInv'
<1>1. ASSUME NEW p \in Processes, \E s : StepOk(p, s)
      PROVE  CInv'
  BY <1>1, StepKeeps
<1>2. CASE UNCHANGED vars
  BY <1>2 DEF vars, CInv, FilesInv
<1>3. CASE Next
  BY <1>1, <1>3, NextCases, ProcessSteps, EditOk, RelinkOk, UnlinkOk
<1> QED
  BY <1>2, <1>3

\* The invariant holds throughout: files and names are well formed, a receipt that was not
\* changed is one that was signed, and every process is where its command can be with what it
\* read in order (cli.ts 213-640, receipt.ts 173-189).
THEOREM FilesAndProcesses == Spec => []CInv
BY InitOk, CNext, PTL DEF Spec

LEMMA GateHolds ==
  ASSUME CInv
  PROVE  GateOnlyPassesSigned
<1> SUFFICES ASSUME NEW p \in Processes, At(p, "exited"), process[p].code = 0, process[p].parsed # Missing
             PROVE  \E r \in made :
                      /\ process[p].receipt = <<"receipt", r>> /\ r.version = "2.0.0"
                      /\ process[p].key = r.key
                      /\ CheckFiles(process[p].parsed) =>
                           r.artifacts = [at \in DOMAIN process[p].digests |-> Digest(process[p].digests[at])]
  BY DEF GateOnlyPassesSigned
<1> DEFINE s == process[p]
           recorded == [at \in DOMAIN s.digests |-> Digest(s.digests[at])]
<1>1. GateOk(s, made)
  BY DEF CInv, ProcessOk
<1>2. /\ Gate(s.parsed) /\ Passed(s, made)
      /\ CheckFiles(s.parsed) => s.receipt[2].artifacts = recorded
  BY <1>1 DEF GateOk, At
<1>3. PICK r \in made : s.receipt = <<"receipt", r>> /\ r.version = "2.0.0" /\ s.key = r.key
  BY <1>2 DEF Passed
<1>4. s.receipt[2] = r
  BY <1>3
<1> QED
  BY <1>2, <1>3, <1>4

\* verify with --require-trusted-v2 exits with 0 only for a receipt that was signed as it was
\* read, in version 2, with the key it was given, and with --check-files only if each file had
\* the recorded digest, whatever others do meanwhile (cli.ts 416-506).
THEOREM GateIsSound == Spec => []GateOnlyPassesSigned
BY FilesAndProcesses, GateHolds, PTL

LEMMA DigestsHold ==
  ASSUME CInv
  PROVE  DigestsAreExact
BY DEF CInv, ProcessOk, HashingOk, IsEntry, DigestsAreExact

\* The digest of a file that nobody wrote to while it was read is that of its content,
\* however long it is and whichever file was read before it (receipt.ts 173-189).
THEOREM DigestsAreOfContents == Spec => []DigestsAreExact
BY FilesAndProcesses, DigestsHold, PTL

-----------------------------------------------------------------------------
\* The process that takes a step is the one whose state changes.
LEMMA WhoSteps ==
  ASSUME CInv, Next, NEW p \in Processes, Steps(p)
  PROVE  ProcessStep(p)
<1>1. ~UNCHANGED process
  BY DEF Steps
<1>2. PICK q \in Processes : ProcessStep(q)
  BY <1>1, NextCases DEF Edit, Relink, Unlink, Other
<1>3. PICK s : StepOk(q, s)
  BY <1>2, ProcessSteps
<1>4. process' = [process EXCEPT ![q] = s]
  BY <1>3 DEF StepOk, Goes
<1>5. q = p
  BY <1>4 DEF Steps, CInv
<1> QED
  BY <1>2, <1>5

LEMMA KeygenWrites ==
  ASSUME CInv, NEW p \in Processes, ProcessStep(p), Is(p, {"keygen"}),
         NEW i \in Inodes, content[i].data # Unused, i # process[p].fd
  PROVE  content'[i] = content[i]
<1>1. FilesInv /\ (process[p].stage \in Active => process[p].parsed.command \in Serving(process[p].stage))
  BY AtWork
<1>2. CASE UNCHANGED content
  BY <1>2
<1>3. ASSUME NEW data, Put(process[p].fd, data)
      PROVE  content'[i] = content[i]
  BY <1>1, <1>3 DEF Put, FilesInv
<1>4. CASE writePrivateKeyFile(p)
  <2> DEFINE path == Head(process[p].outputs).path
  <2>1. path \in Paths
    BY <1>4, AtWork DEF writePrivateKeyFile, At, IsOutput
  <2>2. CASE link[path] # Missing
    BY <1>4, <2>2 DEF writePrivateKeyFile, SameFiles
  <2>3. CASE link[path] = Missing
    <3>1. Create(path, <<"empty">>) /\ UNCHANGED made
      BY <1>4, <2>3 DEF writePrivateKeyFile
    <3>2. Inode(path) = Missing
      BY <2>1, <2>3, FilesAssumption DEF Target, Inode
    <3> QED
      BY <1>1, <2>1, <3>1, <3>2, CreateOk
  <2> QED
    BY <2>2, <2>3
<1>5. CASE WriteOutput(p)
  BY <1>3, <1>5 DEF WriteOutput
<1>6. CASE Crash(p)
  BY <1>2, <1>3, <1>6 DEF Crash, SameFiles
<1>7. ~OpenOutput(p)
  BY <1>1 DEF OpenOutput, At, Active, Serving, Is
<1>8. ASSUME NEW argv, runCli(p, argv)
      PROVE  UNCHANGED content
  BY <1>8 DEF runCli, OnlyProcess, SameFiles
<1>9. ASSUME \/ readReceiptForPresentation(p) \/ StatInput(p) \/ requireSeparateReceiptOutput(p)
             \/ LoadSigningKey(p) \/ readReceiptForVerification(p) \/ LoadVerifyingKey(p)
      PROVE  UNCHANGED content
  BY <1>9 DEF OnlyProcess, SameFiles, readReceiptForPresentation, StatInput, requireSeparateReceiptOutput,
              LoadSigningKey, readReceiptForVerification, LoadVerifyingKey
<1>10. ASSUME OpenArtifact(p) \/ ReadArtifact(p) \/ CreateReceipt(p) \/ Verified(p)
       PROVE  UNCHANGED content
  BY <1>10 DEF OnlyProcess, SameFiles, OpenArtifact, ReadArtifact, CreateReceipt, Verified
<1> QED
  BY <1>2, <1>4, <1>5, <1>6, <1>7, <1>8, <1>9, <1>10 DEF ProcessStep

\* keygen changes no file but the one it made, whatever its --out leads to and whoever makes
\* a file of that name or writes to it meanwhile (cli.ts 213-222, 330-351).
THEOREM KeysReplaceNothing == Spec => KeygenReplacesNothing
<1>1. ASSUME CInv, [Next]_vars
      PROVE  [\A p \in Processes, i \in Inodes :
                /\ Steps(p) /\ Is(p, {"keygen"})
                /\ content[i].data # Unused /\ i # process[p].fd
                => content'[i] = content[i]]_vars
  BY <1>1, WhoSteps, KeygenWrites
<1> QED
  BY <1>1, FilesAndProcesses, PTL DEF Spec, KeygenReplacesNothing

-----------------------------------------------------------------------------
(***************************************************************************)
(* A command that presents a receipt writes to another file than the one   *)
(* it was read from, as long as nobody changes names.                      *)
(***************************************************************************)
Presents(p) == process[p].parsed # Missing /\ process[p].parsed.command \in {"badge", "export"}

LEMMA SingleIsSeq ==
  ASSUME NEW s, IsSeq(s), Len(s) = 1
  PROVE  s # << >> /\ 1 \in DOMAIN s /\ Head(s) = s[1] /\ Tail(s) = << >>
<1>1. s # << >>
  OBVIOUS
<1>2. 1 \in DOMAIN s /\ Head(s) = s[1] /\ IsSeq(Tail(s)) /\ Len(Tail(s)) = 0
  BY <1>1, TailIsSeq
<1>3. Tail(s) = << >>
  BY <1>2, EmptySeq DEF IsSeq
<1> QED
  BY <1>1, <1>2, <1>3

LEMMA Presenting ==
  ASSUME CInv, NEW p \in Processes, Presents(p), process[p].stage \in {"stat output", "open", "write"}
  PROVE  /\ OutPath(process[p].parsed) \in Paths
         /\ Head(process[p].outputs).path = OutPath(process[p].parsed)
         /\ Tail(process[p].outputs) = << >>
         /\ process[p].stat \in Inodes /\ content[process[p].stat].data # Unused
<1> DEFINE s == process[p]
<1>1. /\ IsSeq(s.outputs) /\ Len(s.outputs) = 1 /\ s.outputs[1].path = OutPath(s.parsed)
      /\ \A at \in DOMAIN s.outputs : IsOutput(s.outputs[at], made)
      /\ s.stat \in Inodes /\ content[s.stat].data # Unused
  BY DEF CInv, ProcessOk, OutputsOk, Active, Presents
<1>3. /\ s.outputs # << >> /\ 1 \in DOMAIN s.outputs /\ Head(s.outputs) = s.outputs[1]
      /\ Tail(s.outputs) = << >>
  BY <1>1, SingleIsSeq, Zenon
<1> HIDE DEF s
<1>5. IsOutput(s.outputs[1], made)
  BY <1>1, <1>3
<1> QED
  BY <1>1, <1>3, <1>5 DEF IsOutput, s

\* A process writes to no file but the one it opens or has open, unless that is a new file.
LEMMA FilesWritten ==
  ASSUME CInv, NEW p \in Processes, ProcessStep(p)
  PROVE  \/ UNCHANGED <<link, content>>
         \/ /\ process[p].stage = "write" /\ UNCHANGED link
            /\ \E data : Put(process[p].fd, data)
         \/ /\ process[p].stage = "open" /\ OpenOutput(p)
            /\ Inode(Head(process[p].outputs).path) # Missing /\ UNCHANGED link
            /\ Put(Inode(Head(process[p].outputs).path), <<"empty">>)
         \/ \E path \in Paths : Inode(path) = Missing /\ Create(path, <<"empty">>) /\ UNCHANGED made
<1> DEFINE path == Head(process[p].outputs).path
<1>1. CASE writePrivateKeyFile(p)
  <2>1. path \in Paths
    BY <1>1, AtWork DEF writePrivateKeyFile, At, IsOutput
  <2>2. CASE link[path] # Missing
    BY <1>1, <2>2 DEF writePrivateKeyFile, SameFiles
  <2>3. CASE link[path] = Missing
    <3>1. Create(path, <<"empty">>) /\ UNCHANGED made
      BY <1>1, <2>3 DEF writePrivateKeyFile
    <3>2. Inode(path) = Missing
      BY <2>1, <2>3, FilesAssumption DEF Target, Inode
    <3> QED
      BY <2>1, <3>1, <3>2
  <2> QED
    BY <2>2, <2>3
<1>2. CASE OpenOutput(p)
  <2>1. path \in Paths
    BY <1>2, AtWork DEF OpenOutput, At, IsOutput
  <2>2. process[p].stage = "open" /\ UNCHANGED made
    BY <1>2 DEF OpenOutput, At
  <2>3. CASE Inode(path) # Missing
    BY <1>2, <2>2, <2>3 DEF OpenOutput
  <2>4. CASE Inode(path) = Missing
    <3>1. Create(path, <<"empty">>)
      BY <1>2, <2>4 DEF OpenOutput
    <3> QED
      BY <2>1, <2>2, <2>4, <3>1
  <2> QED
    BY <2>3, <2>4
<1>3. CASE WriteOutput(p)
  BY <1>3 DEF WriteOutput, At
<1>4. CASE Crash(p)
  BY <1>4 DEF Crash, SameFiles, At
<1>5. ASSUME NEW argv, runCli(p, argv)
      PROVE  UNCHANGED <<link, content>>
  BY <1>5 DEF runCli, OnlyProcess, SameFiles
<1>6. ASSUME \/ readReceiptForPresentation(p) \/ StatInput(p) \/ requireSeparateReceiptOutput(p)
             \/ LoadSigningKey(p) \/ readReceiptForVerification(p) \/ LoadVerifyingKey(p)
      PROVE  UNCHANGED <<link, content>>
  BY <1>6 DEF OnlyProcess, SameFiles, readReceiptForPresentation, StatInput, requireSeparateReceiptOutput,
              LoadSigningKey, readReceiptForVerification, LoadVerifyingKey
<1>7. ASSUME OpenArtifact(p) \/ ReadArtifact(p) \/ CreateReceipt(p) \/ Verified(p)
      PROVE  UNCHANGED <<link, content>>
  BY <1>7 DEF OnlyProcess, SameFiles, OpenArtifact, ReadArtifact, CreateReceipt, Verified
<1> HIDE DEF path
<1> QED
  BY <1>1, <1>2, <1>3, <1>4, <1>5, <1>6, <1>7 DEF ProcessStep

\* Names that led to a file still do, and no other name leads to it.
LEMMA NamesStay ==
  ASSUME CInv, NEW p \in Processes, ProcessStep(p), NEW name \in Paths, NEW i \in Inodes,
         content[i].data # Unused, Inode(name)' = i
  PROVE  Inode(name) = i
<1>1. FilesInv
  BY DEF CInv
<1>2. CASE UNCHANGED link
  BY <1>2 DEF Inode, Target
<1>3. CASE \E path \in Paths : Inode(path) = Missing /\ Create(path, <<"empty">>) /\ UNCHANGED made
  BY <1>1, <1>3, CreateOk
<1> QED
  BY <1>2, <1>3, FilesWritten

\* A process that presents a receipt comes to write from having compared the files.
LEMMA ComesToWrite ==
  ASSUME CInv, NEW p \in Processes, ProcessStep(p), process[p]'.stage \in {"open", "write"}, Presents(p)'
  PROVE  requireSeparateReceiptOutput(p) \/ OpenOutput(p)
<1>1. \A s : Goes(p, s) => process'[p] = s
  BY DEF Goes, CInv
<1>2. \A code : ~Exits(p, code)
  <2>1. ASSUME NEW code, Exits(p, code)
        PROVE  FALSE
    <3>1. process'[p] = [Idle EXCEPT !.stage = "exited", !.code = code]
      BY <1>1, <2>1 DEF Exits
    <3> QED
      BY <3>1 DEF Idle
  <2> QED
    BY <2>1
<1>3. \A s : Goes(p, s) => s.stage \in {"open", "write"} /\ s.parsed # Missing /\ s.parsed.command \in {"badge", "export"}
  BY <1>1 DEF Presents
<1>4. DOMAIN process[p] = Fields
  BY AtWork
<1>5. ASSUME NEW argv, runCli(p, argv)
      PROVE  FALSE
  <2> DEFINE parsed == Parsed(argv)
             s == [Idle EXCEPT !.stage = "read", !.parsed = parsed]
  <2>1. \/ StartKeygen(p, parsed)
        \/ StartAttest(p, parsed)
        \/ Goes(p, s)
    BY <1>2, <1>5 DEF runCli
  <2> HIDE DEF parsed
  <2>2. ASSUME StartKeygen(p, parsed)
        PROVE  FALSE
    <3> DEFINE key == [algorithm |-> Or(Flag(parsed, "algo"), "HMAC-SHA256"), id |-> p]
               state == [Idle EXCEPT !.stage = "create", !.parsed = parsed,
                                     !.outputs = <<[path |-> OutPath(parsed), data |-> <<"key", key>>]>>]
    <3>1. Exits(p, 0) \/ Goes(p, state)
      BY <2>2 DEF StartKeygen
    <3>2. state.stage = "create"
      BY DEF Idle
    <3> HIDE DEF state
    <3> QED
      BY <1>2, <1>3, <3>1, <3>2
  <2>3. ASSUME StartAttest(p, parsed)
        PROVE  FALSE
    <3> DEFINE todo == IF getFlag(parsed, <<"files", "f">>) = Missing THEN << >>
                       ELSE FileLists[getFlag(parsed, <<"files", "f">>)]
               state == [Idle EXCEPT !.stage = "hash", !.parsed = parsed, !.todo = todo]
               hash == [state EXCEPT !.key = InlineKeys[getFlag(parsed, <<"key">>)]]
               load == [state EXCEPT !.stage = "load key"]
    <3>1. Exits(p, 1) \/ Goes(p, hash) \/ Goes(p, load)
      BY <2>3 DEF StartAttest
    <3> HIDE DEF todo
    <3>2. hash.stage = "hash" /\ load.stage = "load key"
      <4>1. state.stage = "hash" /\ DOMAIN state = Fields
        BY IdleFields DEF Fields
      <4> HIDE DEF state
      <4> QED
        BY <4>1 DEF Fields
    <3> HIDE DEF hash, load
    <3> QED
      BY <1>2, <1>3, <3>1, <3>2
  <2>4. s.stage = "read"
    BY DEF Idle
  <2> HIDE DEF s
  <2> QED
    BY <1>3, <2>1, <2>2, <2>3, <2>4
<1>6. process[p].stage \in Active => process[p].parsed.command \in Serving(process[p].stage)
  BY AtWork
<1>7. ~writePrivateKeyFile(p)
  <2> DEFINE s == [process[p] EXCEPT !.stage = "write", !.fd = link'[Head(process[p].outputs).path]]
  <2>1. writePrivateKeyFile(p) => process[p].stage = "create" /\ (Exits(p, 1) \/ Goes(p, s))
    BY DEF writePrivateKeyFile, At
  <2>2. s.parsed = process[p].parsed
    BY <1>4 DEF Fields
  <2> HIDE DEF s
  <2>3. process[p].stage = "create" => process[p].parsed.command = "keygen"
    BY <1>6 DEF Active, Serving
  <2> QED
    BY <1>2, <1>3, <2>1, <2>2, <2>3
<1>8. ~WriteOutput(p)
  <2> DEFINE s == [process[p] EXCEPT !.stage = "open", !.outputs = Tail(process[p].outputs), !.fd = Missing]
  <2>1. WriteOutput(p) =>
          process[p].stage = "write" /\ (Exits(p, 0) \/ (Tail(process[p].outputs) # << >> /\ Goes(p, s)))
    BY DEF WriteOutput, At
  <2>2. s.parsed = process[p].parsed
    BY <1>4 DEF Fields
  <2> HIDE DEF s
  <2> QED
    BY <1>2, <1>3, <2>1, <2>2, Presenting DEF Presents
<1>9. ~readReceiptForPresentation(p)
  <2> DEFINE output == [path |-> OutPath(process[p].parsed),
                        data |-> <<"presentation", DataAt(ProofPath(process[p].parsed))[2]>>]
             s == [process[p] EXCEPT !.stage = "stat input", !.outputs = <<output>>]
  <2>1. readReceiptForPresentation(p) => Exits(p, 0) \/ Exits(p, 1) \/ Goes(p, s)
    BY DEF readReceiptForPresentation
  <2> HIDE DEF output
  <2>2. s.stage = "stat input"
    BY <1>4 DEF Fields
  <2> HIDE DEF s
  <2> QED
    BY <1>2, <1>3, <2>1, <2>2
<1>10. ~StatInput(p)
  <2> DEFINE input == Inode(ProofPath(process[p].parsed))
             s == [process[p] EXCEPT !.stage = "stat output", !.stat = input, !.moves = moves]
  <2>1. StatInput(p) => Exits(p, 1) \/ Goes(p, s)
    BY DEF StatInput
  <2> HIDE DEF input
  <2>2. s.stage = "stat output"
    BY <1>4 DEF Fields
  <2> HIDE DEF s
  <2> QED
    BY <1>2, <1>3, <2>1, <2>2
<1>11. ~LoadSigningKey(p)
  <2> DEFINE key == loadKeyMaterial(KeyFile(process[p].parsed), "sign",
                                    Or(Flag(process[p].parsed, "algo"), "HMAC-SHA256"))
             s == [process[p] EXCEPT !.stage = "hash", !.key = key]
  <2> HIDE DEF key
  <2>1. LoadSigningKey(p) => Exits(p, 1) \/ Goes(p, s)
    BY DEF LoadSigningKey, key
  <2>2. s.stage = "hash"
    BY <1>4 DEF Fields
  <2> HIDE DEF s
  <2> QED
    BY <1>2, <1>3, <2>1, <2>2
<1>18. ~readReceiptForVerification(p)
  <2> DEFINE data == DataAt(ProofPath(process[p].parsed))
             s == [process[p] EXCEPT !.stage = "load key", !.receipt = data]
  <2>1. readReceiptForVerification(p) => Exits(p, 1) \/ Goes(p, s)
    BY DEF readReceiptForVerification
  <2> HIDE DEF data
  <2>2. s.stage = "load key"
    BY <1>4 DEF Fields
  <2> HIDE DEF s
  <2> QED
    BY <1>2, <1>3, <2>1, <2>2
<1>12. ~LoadVerifyingKey(p)
  <2>1. ASSUME LoadVerifyingKey(p)
        PROVE  \E key, todo : Goes(p, [process[p] EXCEPT !.stage = "hash", !.key = key, !.valid = TRUE,
                                                        !.todo = todo])
    BY <1>2, <2>1 DEF LoadVerifyingKey
  <2>2. ASSUME NEW key, NEW todo
        PROVE  [process[p] EXCEPT !.stage = "hash", !.key = key, !.valid = TRUE, !.todo = todo].stage = "hash"
    BY <1>4 DEF Fields
  <2> QED
    BY <1>3, <2>1, <2>2
<1>13. ~OpenArtifact(p) /\ ~ReadArtifact(p)
  <2>1. ASSUME OpenArtifact(p) \/ ReadArtifact(p)
        PROVE  /\ process[p].stage = "hash"
               /\ \/ \E reading : Goes(p, [process[p] EXCEPT !.reading = reading])
                  \/ \E todo : Goes(p, [process[p] EXCEPT !.valid = FALSE, !.todo = todo])
                  \/ \E todo, digests :
                       Goes(p, [process[p] EXCEPT !.reading = Missing, !.todo = todo, !.digests = digests])
    <3>1. CASE OpenArtifact(p)
      BY <1>2, <3>1 DEF OpenArtifact, At
    <3>2. CASE ReadArtifact(p)
      BY <3>2 DEF ReadArtifact, At
    <3> QED
      BY <2>1, <3>1, <3>2
  <2>2. ASSUME NEW reading, NEW todo, NEW digests, process[p].stage = "hash"
        PROVE  /\ [process[p] EXCEPT !.reading = reading].stage = "hash"
               /\ [process[p] EXCEPT !.valid = FALSE, !.todo = todo].stage = "hash"
               /\ [process[p] EXCEPT !.reading = Missing, !.todo = todo, !.digests = digests].stage = "hash"
    BY <1>4, <2>2 DEF Fields
  <2> QED
    BY <1>3, <2>1, <2>2
<1>15. ~CreateReceipt(p)
  <2>1. ASSUME CreateReceipt(p)
        PROVE  /\ process[p].parsed.command = "attest"
               /\ \E outputs : Goes(p, [process[p] EXCEPT !.stage = "open", !.outputs = outputs])
    BY <1>2, <2>1 DEF CreateReceipt, Is
  <2>2. ASSUME NEW outputs
        PROVE  [process[p] EXCEPT !.stage = "open", !.outputs = outputs].parsed = process[p].parsed
    BY <1>4 DEF Fields
  <2> QED
    BY <1>3, <2>1, <2>2
<1>16. ~Verified(p)
  <2> DEFINE s == [process[p] EXCEPT !.stage = "exited", !.code = 0]
  <2>1. Verified(p) => Exits(p, 0) \/ Exits(p, 1) \/ Goes(p, s)
    BY DEF Verified
  <2>2. s.stage = "exited"
    BY <1>4 DEF Fields
  <2> HIDE DEF s
  <2> QED
    BY <1>2, <1>3, <2>1, <2>2
<1>17. ~Crash(p)
  BY <1>2 DEF Crash
<1> QED
  BY <1>5, <1>7, <1>8, <1>9, <1>10, <1>11, <1>12, <1>13, <1>15, <1>16, <1>17, <1>18 DEF ProcessStep

LEMMA SeparateInit ==
  ASSUME Init
  PROVE  SeparateInv
BY DEF Init, Idle, SeparateInv

LEMMA Compared ==
  ASSUME CInv, NEW p \in Processes, requireSeparateReceiptOutput(p), Presents(p)',
         process[p]'.stage \in {"open", "write"}
  PROVE  /\ process[p]'.stage = "open" /\ process[p]'.stat = process[p].stat
         /\ Inode(OutPath(process[p].parsed))' # process[p]'.stat
<1> DEFINE s == [process[p] EXCEPT !.stage = "open"]
<1>1. /\ DOMAIN process[p] = Fields
      /\ \A t : Goes(p, t) => process'[p] = t
  BY AtWork DEF Goes, CInv
<1>2. s.stage = "open" /\ s.stat = process[p].stat /\ s.parsed = process[p].parsed
  BY <1>1 DEF Fields
<1>3. UNCHANGED link /\ (Exits(p, 1) \/ (OtherFile(p) /\ Goes(p, s)))
  BY DEF requireSeparateReceiptOutput, OnlyProcess, SameFiles
<1>4. ~Exits(p, 1)
  <2>1. Exits(p, 1) => process'[p].stage = "exited"
    BY <1>1 DEF Exits, Idle
  <2> QED
    BY <2>1
<1> HIDE DEF s
<1>5. process'[p] = s /\ Inode(OutPath(s.parsed)) # s.stat
  BY <1>1, <1>2, <1>3, <1>4 DEF OtherFile
<1>6. Inode(OutPath(process[p].parsed))' = Inode(OutPath(s.parsed))
  BY <1>3, <1>5 DEF Inode, Target
<1> QED
  BY <1>2, <1>5, <1>6

LEMMA Opened ==
  ASSUME CInv, SeparateInv, NEW p \in Processes, OpenOutput(p), Presents(p)', process[p]'.moves = moves
  PROVE  process[p]'.stage = "write" /\ process[p]'.fd # process[p]'.stat
<1> DEFINE path == Head(process[p].outputs).path
           fd == link'[Target(path)]
           s == [process[p] EXCEPT !.stage = "write", !.fd = fd]
<1>1. /\ DOMAIN process[p] = Fields /\ FilesInv
      /\ \A t : Goes(p, t) => process'[p] = t
  BY AtWork DEF Goes, CInv
<1> HIDE DEF fd
<1>2. /\ s.stage = "write" /\ s.stat = process[p].stat /\ s.parsed = process[p].parsed
      /\ s.moves = process[p].moves /\ s.fd = fd
  BY <1>1 DEF Fields
<1>3. process[p].stage = "open" /\ Goes(p, s) /\ UNCHANGED made
  BY DEF OpenOutput, At, fd
<1> HIDE DEF s
<1>4. process'[p] = s /\ Presents(p)
  BY <1>1, <1>2, <1>3 DEF Presents
<1>5. path \in Paths /\ path = OutPath(process[p].parsed) /\ content[process[p].stat].data # Unused
  BY <1>3, <1>4, Presenting
<1>6. Inode(path) # process[p].stat
  BY <1>2, <1>3, <1>4, <1>5 DEF SeparateInv, Presents
<1>7. fd # process[p].stat
  <2>1. CASE Inode(path) # Missing
    <3>1. UNCHANGED link
      BY <2>1 DEF OpenOutput
    <3> QED
      BY <1>6, <3>1 DEF Inode, fd
  <2>2. CASE Inode(path) = Missing
    <3>1. Create(path, <<"empty">>)
      BY <2>2 DEF OpenOutput
    <3>2. content[fd].data = Unused
      BY <1>1, <1>3, <1>5, <2>2, <3>1, CreateOk DEF fd
    <3> QED
      BY <1>5, <3>2
  <2> QED
    BY <2>1, <2>2
<1> QED
  BY <1>2, <1>4, <1>7

LEMMA SeparateNext ==
  ASSUME CInv, SeparateInv, [Next]_vars
  PROVE  SeparateInv'
<1> SUFFICES ASSUME NEW p \in Processes, process'[p].moves = moves', Presents(p)'
             PROVE  /\ process'[p].stage = "open" =>
                         Inode(OutPath(process[p].parsed))' # process'[p].stat
                    /\ process'[p].stage = "write" => process'[p].fd # process'[p].stat
  BY DEF SeparateInv, Presents
<1>1. CASE process'[p] = process[p] /\ moves' = moves
  <2>1. /\ process[p].moves = moves /\ Presents(p)
    BY <1>1 DEF Presents
  <2>2. /\ process[p].stage = "open" => Inode(OutPath(process[p].parsed)) # process[p].stat
        /\ process[p].stage = "write" => process[p].fd # process[p].stat
    BY <2>1 DEF SeparateInv, Presents
  <2>3. ASSUME process[p].stage = "open"
        PROVE  Inode(OutPath(process[p].parsed))' # process'[p].stat
    <3>1. /\ OutPath(process[p].parsed) \in Paths /\ process[p].stat \in Inodes
          /\ content[process[p].stat].data # Unused
      BY <2>1, <2>3, Presenting
    <3>2. OutPath(process[p].parsed)' = OutPath(process[p].parsed)
      BY <1>1 DEF OutPath
    <3> DEFINE name == OutPath(process[p].parsed)
    <3>5. Inode(name)' = link'[IF link'[name] \in Paths THEN link'[name] ELSE name]
      BY <3>2 DEF Inode, Target
    <3>3. CASE UNCHANGED link
      BY <1>1, <2>2, <2>3, <3>2, <3>3, <3>5 DEF Inode, Target
    <3>4. CASE \E q \in Processes : ProcessStep(q)
      <4>1. PICK q \in Processes : ProcessStep(q)
        BY <3>4
      <4>2. \A from \in Paths : Inode(from)' = process[p].stat => Inode(from) = process[p].stat
        BY <3>1, <4>1, NamesStay
      <4>3. \A from \in Paths : from = name => Inode(from)' = Inode(name)'
        BY <3>2 DEF Inode, Target
      <4> QED
        BY <1>1, <2>2, <2>3, <3>1, <4>2, <4>3
    <3> QED
      <4>1. CASE UNCHANGED vars
        BY <3>3, <4>1 DEF vars
      <4>2. CASE Next
        <5>1. moves \in Nat
          BY DEF CInv
        <5>2. moves' # moves + 1
          BY <1>1, <5>1
        <5> QED
          BY <3>3, <3>4, <4>2, <5>2, NextCases DEF Edit, Relink, Unlink
      <4> QED
        BY <4>1, <4>2
  <2> QED
    BY <1>1, <2>2, <2>3
<1>2. CASE process'[p] = process[p] /\ moves' # moves
  <2>1. moves' = moves + 1
    <3>1. ~UNCHANGED moves
      BY <1>2
    <3>2. Next
      BY <3>1 DEF vars
    <3>3. \A q \in Processes : ProcessStep(q) => UNCHANGED moves
      BY ProcessSteps DEF StepOk
    <3> QED
      BY <3>1, <3>2, <3>3, NextCases DEF Edit, Relink, Unlink
  <2>2. process[p].moves <= moves /\ moves \in Nat /\ process[p].moves \in Nat
    BY DEF CInv, ProcessOk, StateOk
  <2> QED
    BY <1>2, <2>1, <2>2
<1>3. CASE Steps(p)
  <2>1. Next
    BY <1>3 DEF Steps, vars
  <2>2. ProcessStep(p)
    BY <1>3, <2>1, WhoSteps
  <2>3. UNCHANGED moves
    BY <2>2, ProcessSteps DEF StepOk
  <2>4. CASE process'[p].stage \notin {"open", "write"}
    BY <2>4
  <2>5. CASE process'[p].stage \in {"open", "write"}
    <3>1. requireSeparateReceiptOutput(p) \/ OpenOutput(p)
      BY <2>2, <2>5, ComesToWrite
    <3>2. CASE requireSeparateReceiptOutput(p)
      BY <2>5, <3>2, Compared
    <3>3. CASE OpenOutput(p)
      BY <2>3, <3>3, Opened
    <3> QED
      BY <3>1, <3>2, <3>3
  <2> QED
    BY <2>4, <2>5
<1> QED
  BY <1>1, <1>2, <1>3 DEF Steps

\* What is written is another file than the one that is presented, from the comparison on, as
\* long as the names stay (cli.ts 126-139).
THEOREM OutputsAreSeparate == Spec => []SeparateInv
<1>1. Init => SeparateInv
  BY SeparateInit
<1>2. CInv /\ SeparateInv /\ [Next]_vars => SeparateInv'
  BY SeparateNext
<1> QED
  BY <1>1, <1>2, FilesAndProcesses, PTL DEF Spec

LEMMA ReceiptStays ==
  ASSUME CInv, SeparateInv, NEW p \in Processes, ProcessStep(p), Is(p, {"badge", "export"}),
         process[p].stage \in {"open", "write"}, moves = process[p].moves
  PROVE  content'[process[p].stat] = content[process[p].stat]
<1> DEFINE stat == process[p].stat
           path == Head(process[p].outputs).path
<1>1. Presents(p) /\ FilesInv
  BY DEF Is, Presents, CInv
<1>2. stat \in Inodes /\ content[stat].data # Unused /\ path = OutPath(process[p].parsed) /\ path \in Paths
  BY <1>1, Presenting
<1>3. /\ process[p].stage = "open" => Inode(path) # stat
      /\ process[p].stage = "write" => process[p].fd # stat
  BY <1>1, <1>2 DEF SeparateInv, Presents
<1> HIDE DEF stat, path
<1>4. ASSUME NEW i, NEW data, Put(i, data), i # stat
      PROVE  content'[stat] = content[stat]
  BY <1>1, <1>2, <1>4 DEF Put, FilesInv
<1>5. CASE \E name \in Paths : Inode(name) = Missing /\ Create(name, <<"empty">>) /\ UNCHANGED made
  BY <1>1, <1>2, <1>5, CreateOk DEF stat
<1> QED
  BY <1>3, <1>4, <1>5, FilesWritten DEF stat, path

\* A command that presents a receipt leaves the file it was read from as it is, under whatever
\* other names it is the output too, unless names were changed since they were compared
\* (cli.ts 126-139, 508-531, 568-640).
THEOREM PresentedReceiptsStay == Spec => PresentationKeepsReceipt
<1>1. ASSUME CInv, SeparateInv, [Next]_vars
      PROVE  [\A p \in Processes :
                /\ Steps(p) /\ Is(p, {"badge", "export"}) /\ process[p].stage \in {"open", "write"}
                /\ moves = process[p].moves
                => content'[process[p].stat] = content[process[p].stat]]_vars
  BY <1>1, WhoSteps, ReceiptStays
<1> QED
  BY <1>1, FilesAndProcesses, OutputsAreSeparate, PTL DEF Spec, PresentationKeepsReceipt
=============================================================================
