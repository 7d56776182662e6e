-------------------------------- MODULE Commands --------------------------------
(***************************************************************************)
(* The commands of src/cli.ts as processes that run at the same time on    *)
(* one file system, each going from one await to the next, while others    *)
(* edit files, link, move and remove them. A name leads to an inode, or to *)
(* another name (a symbolic link), or nowhere (Missing). The content of a  *)
(* file is tagged: cells of data, a receipt, a key, a presentation of a    *)
(* receipt; it is empty once it was opened for writing, and part of it is  *)
(* there when the writer died. A receipt holds what verifyReceipt() goes   *)
(* by: its version, its key, the digests of its artifacts (the cells that  *)
(* were hashed), and whether it was changed since it was signed.           *)
(***************************************************************************)
EXTENDS Integers, FiniteSets, CommandLine

CONSTANTS
  Blank,   \* the empty text
  Processes, Inodes, Paths,
  CommandLines,   \* the argument vectors that are used
  InlineKeys,     \* for the values of --key, the material
  FileLists,      \* for the values of --files, the names in them
  Links, Contents,  \* the files at first
  Movable,        \* the names that others link, move and remove
  MaxChanges      \* bound on what others do

VARIABLES
  process,  \* what each process is at
  link, content,  \* names to inodes or names; inodes to [data, writes]
  made,     \* the receipts signed so far
  changes,  \* how much others did
  moves     \* how much of that changed names

vars == <<process, link, content, made, changes, moves>>

Buffer == 2   \* cells that one read takes
Unused == <<"unused">>   \* what an inode holds that is not a file

Idle == [stage |-> "idle", parsed |-> Missing, receipt |-> Missing, key |-> Missing,
         valid |-> FALSE, todo |-> << >>, reading |-> Missing, digests |-> << >>,
         outputs |-> << >>, fd |-> Missing, stat |-> Missing, moves |-> 0, code |-> Missing]

Init ==
  /\ process = [p \in Processes |-> Idle]
  /\ link = Links
  /\ content = [i \in Inodes |-> [data |-> IF i \in DOMAIN Contents THEN Contents[i] ELSE Unused,
                                  writes |-> 0]]
  /\ made = {Contents[i][2] : i \in {i \in DOMAIN Contents : Contents[i][1] = "receipt"}}
  /\ changes = 0
  /\ moves = 0
-----------------------------------------------------------------------------
Target(path) == IF link[path] \in Paths THEN link[path] ELSE path
Inode(path) == link[Target(path)]
DataAt(path) == content[Inode(path)].data

Goes(p, state) == process' = [process EXCEPT ![p] = state]
Exits(p, code) == Goes(p, [Idle EXCEPT !.stage = "exited", !.code = code])
SameFiles == UNCHANGED <<link, content>>
OnlyProcess == SameFiles /\ UNCHANGED <<made, changes, moves>>

Put(i, data) == content' = [content EXCEPT ![i] = [data |-> data, writes |-> @.writes + 1]]

\* A new file, under a name that leads nowhere; there are as many as there are inodes.
Create(path, data) ==
  LET i == CHOOSE i \in Inodes : content[i].data = Unused
  IN  /\ \E unused \in Inodes : content[unused].data = Unused
      /\ link' = [link EXCEPT ![Target(path)] = i] /\ Put(i, data)

Is(p, commands) == process[p].parsed # Missing /\ process[p].parsed.command \in commands
At(p, stage) == process[p].stage = stage

Or(value, default) == IF value \in {Missing, ""} THEN default ELSE value
ProofPath(parsed) ==
  IF parsed.positionals \notin {<< >>, <<"">>} THEN parsed.positionals[1] ELSE Or(Flag(parsed, "proof"), "proof.json")
OutPath(parsed) ==
  CASE parsed.command = "attest" -> Or(Flag(parsed, "out"), "proof.json")
    [] parsed.command = "badge" -> Or(Flag(parsed, "out"), "badge.svg")
    [] OTHER -> Or(Flag(parsed, "out"), Missing)
KeyFile(parsed) == getFlag(parsed, <<"key-file", "keyFile">>)
Gate(parsed) == Flag(parsed, "require-trusted-v2") = Given
CheckFiles(parsed) == Given \in {Flag(parsed, "checkFiles"), Flag(parsed, "check-files")}
FormatSupported(parsed) ==
  CASE parsed.command = "badge" -> Or(Flag(parsed, "format"), "svg") \in {"svg", "shield", "html"}
    [] parsed.command = "export" ->
         Or(Flag(parsed, "format"), "markdown") \in {"markdown", "jsonld", "json-ld", "html"}
    [] OTHER -> TRUE

IsSeq(s) == s \in Seq({s[at] : at \in DOMAIN s})

IsReceipt(r) ==
  /\ r = [version |-> r.version, key |-> r.key, algorithm |-> r.algorithm,
          changed |-> r.changed, artifacts |-> r.artifacts]
  /\ r.changed \in BOOLEAN
  /\ IsSeq(r.artifacts) /\ \A at \in DOMAIN r.artifacts : r.artifacts[at].path \in Paths

\* What a file can hold.
IsData(data) ==
  \/ data \in {<<"empty">>, <<"part">>}
  \/ /\ data = <<data[1], data[2]>>
     /\ \/ data[1] \in {"key", "presentation"}
        \/ data[1] = "cells" /\ IsSeq(data[2]) /\ data[2] # << >>
        \/ data[1] = "receipt" /\ IsReceipt(data[2])

ASSUME FilesAssumption ==
  /\ Missing \notin Inodes \union Paths /\ Inodes \intersect Paths = {}
  /\ Movable \subseteq Paths /\ DOMAIN Contents \subseteq Inodes
  /\ Links \in [Paths -> DOMAIN Contents \union Paths \union {Missing}]
  /\ \A path \in Paths : Links[path] \in Paths => Links[Links[path]] \notin Paths
  /\ \A i \in DOMAIN Contents : IsData(Contents[i])

\* The files that a command names are names of the file system, and its key is known.
NamesPaths(parsed) ==
  /\ Or(Flag(parsed, "key"), Missing) \in DOMAIN InlineKeys \union {Missing}
  /\ OutPath(parsed) \in IF parsed.command \in {"attest", "badge"} THEN Paths ELSE Paths \union {Missing}
  /\ \A flag \in {"badge", "html"} : Or(Flag(parsed, flag), Missing) \in Paths \union {Missing}
  /\ parsed.command \in {"verify", "badge", "inspect", "export"} => ProofPath(parsed) \in Paths
  /\ LET files == getFlag(parsed, <<"files", "f">>)
     IN  files # Missing => FileLists[files] \in Seq(Paths)

ASSUME CommandLinesAssumption ==
  \A argv \in CommandLines :
    Parsed(argv) # Throws => Parsed(argv) # Missing /\ NamesPaths(Parsed(argv))

\* 32 bytes in hexadecimal: a secret or private key, or the public half of such a key.
Material(id) == <<"hex", id>>
PublicHalf(key) == <<"public", key>>

\* Any text is a secret; only 32 bytes are an Ed25519 key, whatever they were before. Data are
\* no key in PEM.
CanSign(key, algorithm) ==
  \/ algorithm = "HMAC-SHA256"
  \/ algorithm = "Ed25519" /\ key[1] \in {"hex", "public"}

\* Text that begins like JSON has to be a whole key for the configured algorithm.
loadKeyMaterial(path, role, algorithm) ==
  IF Inode(path) = Missing THEN Throws
  ELSE LET data == DataAt(path)
       IN  CASE data = <<"empty">> -> Blank
             [] data[1] = "key" ->
                  IF algorithm # data[2].algorithm THEN Throws
                  ELSE IF role = "verify" /\ algorithm = "Ed25519" THEN PublicHalf(Material(data[2].id))
                  ELSE Material(data[2].id)
             [] data[1] = "cells" -> data
             [] OTHER -> Throws

VerifyingKey(key, algorithm) == IF algorithm = "Ed25519" THEN PublicHalf(key) ELSE key

\* verifyReceipt() without files: what comes out for a receipt that was read, with the key
\* material, Blank if it could not be loaded, and the algorithm that are expected.
Verdict(data, key, algorithm) ==
  LET valid == /\ data[1] = "receipt" /\ ~data[2].changed
               /\ (key = Missing) = (algorithm = Missing) /\ key # Blank
               /\ key # Missing => algorithm = data[2].algorithm /\ key = data[2].key
  IN  [valid |-> valid, trusted |-> valid /\ key # Missing,
       version |-> IF data[1] = "receipt" THEN data[2].version ELSE Missing]

\* Mutant: the policy asks for a valid receipt of version 2 only.
WithoutTrust(verdict) == verdict.valid /\ verdict.version = "2.0.0"

PolicyPassed(verdict) == verdict.valid /\ verdict.trusted /\ verdict.version = "2.0.0"
-----------------------------------------------------------------------------
StartKeygen(p, parsed) ==
  LET key == [algorithm |-> Or(Flag(parsed, "algo"), "HMAC-SHA256"), id |-> p]
      out == OutPath(parsed)
  IN  IF out = Missing THEN Exits(p, 0)
      ELSE Goes(p, [Idle EXCEPT !.stage = "create", !.parsed = parsed,
                                !.outputs = <<[path |-> out, data |-> <<"key", key>>]>>])

StartAttest(p, parsed) ==
  LET key == getFlag(parsed, <<"key">>)
      state == [Idle EXCEPT !.stage = "hash", !.parsed = parsed,
                            !.todo = IF getFlag(parsed, <<"files", "f">>) = Missing THEN << >>
                                     ELSE FileLists[getFlag(parsed, <<"files", "f">>)]]
  IN  IF key # Missing THEN Goes(p, [state EXCEPT !.key = InlineKeys[key]])
      ELSE IF KeyFile(parsed) # Missing THEN Goes(p, [state EXCEPT !.stage = "load key"])
      ELSE Exits(p, 1)

runCli(p, argv) ==
  LET parsed == Parsed(argv)
  IN  /\ At(p, "idle") /\ OnlyProcess
      /\ IF parsed = Throws THEN Exits(p, 1)
         ELSE IF DOMAIN parsed.flags \intersect commonFlags # {} \/ parsed.command \in {Missing, ""} THEN Exits(p, 0)
         ELSE IF parsed.command \notin DOMAIN commandFlags \/ ~FormatSupported(parsed) THEN Exits(p, 1)
         ELSE CASE parsed.command = "keygen" -> StartKeygen(p, parsed)
                [] parsed.command = "attest" -> StartAttest(p, parsed)
                [] OTHER -> Goes(p, [Idle EXCEPT !.stage = "read", !.parsed = parsed])

\* fs.writeFile() truncates what is there, and follows symbolic links, also to nowhere.
OpenOutput(p) ==
  LET state == process[p]
      path == Head(state.outputs).path
  IN  /\ At(p, "open")
      /\ IF Inode(path) # Missing THEN Put(Inode(path), <<"empty">>) /\ UNCHANGED link
         ELSE Create(path, <<"empty">>)
      /\ Goes(p, [state EXCEPT !.stage = "write", !.fd = link'[Target(path)]])
      /\ UNCHANGED <<made, changes, moves>>

WriteOutput(p) ==
  LET state == process[p]
      rest == Tail(state.outputs)
  IN  /\ At(p, "write")
      /\ Put(state.fd, Head(state.outputs).data) /\ UNCHANGED link
      /\ IF rest = << >> THEN Exits(p, 0)
         ELSE Goes(p, [state EXCEPT !.stage = "open", !.outputs = rest, !.fd = Missing])
      /\ UNCHANGED <<made, changes, moves>>

\* Mutant: the key file is opened as every other output.
OpenKeyFile(p) ==
  LET state == process[p]
      path == Head(state.outputs).path
  IN  /\ At(p, "create")
      /\ IF Inode(path) # Missing THEN Put(Inode(path), <<"empty">>) /\ UNCHANGED link
         ELSE Create(path, <<"empty">>)
      /\ Goes(p, [state EXCEPT !.stage = "write", !.fd = link'[Target(path)]])
      /\ UNCHANGED <<made, changes, moves>>

\* With 'wx' the name must lead nowhere, and be no link.
writePrivateKeyFile(p) ==
  LET state == process[p]
      path == Head(state.outputs).path
  IN  /\ At(p, "create")
      /\ IF link[path] # Missing THEN SameFiles /\ Exits(p, 1)
         ELSE /\ Create(path, <<"empty">>)
              /\ Goes(p, [state EXCEPT !.stage = "write", !.fd = link'[path]])
      /\ UNCHANGED <<made, changes, moves>>
-----------------------------------------------------------------------------
readReceiptForPresentation(p) ==
  LET state == process[p]
      data == DataAt(ProofPath(state.parsed))
      out == OutPath(state.parsed)
  IN  /\ At(p, "read") /\ Is(p, {"badge", "inspect", "export"}) /\ OnlyProcess
      /\ IF Inode(ProofPath(state.parsed)) = Missing THEN Exits(p, 1)
         ELSE IF data[1] # "receipt" THEN Exits(p, 1)
         ELSE IF state.parsed.command = "inspect" \/ out = Missing THEN Exits(p, 0)
         ELSE Goes(p, [state EXCEPT !.stage = "stat input",
                                    !.outputs = <<[path |-> out, data |-> <<"presentation", data[2]>>]>>])

StatInput(p) ==
  LET input == Inode(ProofPath(process[p].parsed))
  IN  /\ At(p, "stat input") /\ OnlyProcess
      /\ IF input = Missing THEN Exits(p, 1)
         ELSE Goes(p, [process[p] EXCEPT !.stage = "stat output", !.stat = input, !.moves = moves])

\* Mutant: names are compared in place of files.
OtherName(p) == OutPath(process[p].parsed) # ProofPath(process[p].parsed)

OtherFile(p) == Inode(OutPath(process[p].parsed)) # process[p].stat

requireSeparateReceiptOutput(p) ==
  /\ At(p, "stat output") /\ OnlyProcess
  /\ IF OtherFile(p) THEN Goes(p, [process[p] EXCEPT !.stage = "open"]) ELSE Exits(p, 1)
-----------------------------------------------------------------------------
LoadSigningKey(p) ==
  LET state == process[p]
      key == loadKeyMaterial(KeyFile(state.parsed), "sign", Or(Flag(state.parsed, "algo"), "HMAC-SHA256"))
  IN  /\ At(p, "load key") /\ Is(p, {"attest"}) /\ OnlyProcess
      /\ IF key \in {Throws, Blank} THEN Exits(p, 1)
         ELSE Goes(p, [state EXCEPT !.stage = "hash", !.key = key])

readReceiptForVerification(p) ==
  LET state == process[p]
      proof == ProofPath(state.parsed)
  IN  /\ At(p, "read") /\ Is(p, {"verify"}) /\ OnlyProcess
      /\ IF Inode(proof) = Missing THEN Exits(p, 1)
         ELSE IF DataAt(proof)[1] \in {"empty", "part", "cells", "presentation"} THEN Exits(p, 1)
         ELSE Goes(p, [state EXCEPT !.stage = "load key", !.receipt = DataAt(proof)])

\* Cryptographic checks come before the artifacts, which are opened if those succeed.
LoadVerifyingKey(p) ==
  LET state == process[p]
      inline == Flag(state.parsed, "key")
      algorithm == getFlag(state.parsed, <<"algo", "algorithm">>)
      loaded == loadKeyMaterial(KeyFile(state.parsed), "verify", algorithm)
      key == IF inline \notin {Missing, ""} THEN InlineKeys[inline]
             ELSE IF KeyFile(state.parsed) # Missing THEN IF loaded = Throws THEN Blank ELSE loaded
             ELSE IF inline = "" THEN Blank ELSE Missing
      verdict == Verdict(state.receipt, key, algorithm)
      accepted == verdict.valid /\ (Gate(state.parsed) => PolicyPassed(verdict))
  IN  /\ At(p, "load key") /\ Is(p, {"verify"}) /\ OnlyProcess
      /\ IF ~accepted THEN Exits(p, 1)
         ELSE Goes(p, [state EXCEPT !.stage = "hash", !.key = key, !.valid = TRUE,
                                    !.todo = IF CheckFiles(state.parsed)
                                             THEN [at \in DOMAIN state.receipt[2].artifacts |->
                                                     state.receipt[2].artifacts[at].path]
                                             ELSE << >>])
-----------------------------------------------------------------------------
Cells(data) == IF data[1] = "cells" THEN data[2] ELSE <<data>>

\* A file that is not there ends an attestation, and makes a verification fail later.
OpenArtifact(p) ==
  LET state == process[p]
      path == Head(state.todo)
      i == Inode(path)
  IN  /\ At(p, "hash") /\ state.reading = Missing /\ state.todo # << >> /\ OnlyProcess
      /\ IF i # Missing
         THEN Goes(p, [state EXCEPT !.reading = [inode |-> i, offset |-> 0, hashed |-> << >>,
                                                 buffer |-> IF state.digests = << >> THEN << >>
                                                            ELSE Last(state.digests).buffer,
                                                 opened |-> content[i]]])
         ELSE IF Is(p, {"attest"}) THEN Exits(p, 1)
         ELSE Goes(p, [state EXCEPT !.valid = FALSE, !.todo = Tail(@)])

\* What a read leaves in the buffer, and what is hashed of it.
Filled(buffer, cells) ==
  [at \in 1 .. Len(cells) |-> cells[at]] \o SubSeq(buffer, Len(cells) + 1, Len(buffer))

\* Mutant: the whole buffer is hashed.
WholeBuffer(buffer, count) == buffer

Hashed(buffer, count) == SubSeq(buffer, 1, count)

ReadArtifact(p) ==
  LET state == process[p]
      reading == state.reading
      cells == Cells(content[reading.inode].data)
      read == SubSeq(cells, reading.offset + 1,
                     IF Len(cells) < reading.offset + Buffer THEN Len(cells) ELSE reading.offset + Buffer)
      buffer == Filled(reading.buffer, read)
      path == Head(state.todo)
  IN  /\ At(p, "hash") /\ reading # Missing /\ OnlyProcess
      /\ IF read # << >>
         THEN Goes(p, [state EXCEPT !.reading = [reading EXCEPT
                !.offset = @ + Len(read), !.buffer = buffer, !.hashed = @ \o Hashed(buffer, Len(read))]])
         ELSE Goes(p, [state EXCEPT !.reading = Missing, !.todo = Tail(@),
                !.digests = Append(@, [path |-> path, cells |-> reading.hashed, buffer |-> reading.buffer,
                                       opened |-> Cells(reading.opened.data),
                                       undisturbed |-> content[reading.inode] = reading.opened])])

Digest(entry) == [path |-> entry.path, cells |-> entry.cells]

\* The artifacts are hashed before the key is used. The receipt and what else is asked for are
\* written one after the other.
CreateReceipt(p) ==
  LET state == process[p]
      algorithm == Or(Flag(state.parsed, "algo"), "HMAC-SHA256")
      receipt == [version |-> "2.0.0", key |-> VerifyingKey(state.key, algorithm),
                  algorithm |-> algorithm, changed |-> FALSE,
                  artifacts |-> [at \in DOMAIN state.digests |-> Digest(state.digests[at])]]
      presentation(flag) ==
        LET path == Or(Flag(state.parsed, flag), Missing)
        IN  IF path = Missing THEN << >> ELSE <<[path |-> path, data |-> <<"presentation", receipt>>]>>
  IN  /\ At(p, "hash") /\ Is(p, {"attest"}) /\ state.reading = Missing /\ state.todo = << >>
      /\ SameFiles /\ UNCHANGED <<changes, moves>>
      /\ IF ~CanSign(state.key, algorithm) THEN Exits(p, 1) /\ UNCHANGED made
         ELSE /\ made' = made \union {receipt}
              /\ Goes(p, [state EXCEPT !.stage = "open",
                   !.outputs = <<[path |-> OutPath(state.parsed), data |-> <<"receipt", receipt>>]>>
                                 \o presentation("badge") \o presentation("html")])

\* What a gate let through is kept.
Verified(p) ==
  LET state == process[p]
      recorded == [at \in DOMAIN state.digests |-> Digest(state.digests[at])]
      valid == state.valid /\ (CheckFiles(state.parsed) => recorded = state.receipt[2].artifacts)
  IN  /\ At(p, "hash") /\ Is(p, {"verify"}) /\ state.reading = Missing /\ state.todo = << >>
      /\ OnlyProcess
      /\ IF valid /\ Gate(state.parsed) THEN Goes(p, [state EXCEPT !.stage = "exited", !.code = 0])
         ELSE Exits(p, IF valid THEN 0 ELSE 1)
-----------------------------------------------------------------------------
\* A process dies; what it was writing may be there in part.
Crash(p) ==
  /\ process[p].stage \notin {"idle", "exited"}
  /\ Exits(p, Missing)
  /\ \/ SameFiles
     \/ At(p, "write") /\ Put(process[p].fd, <<"part">>) /\ UNCHANGED link
  /\ UNCHANGED <<made, changes, moves>>

Other == changes < MaxChanges /\ changes' = changes + 1 /\ UNCHANGED <<process, made>>

\* Data are overwritten in place, from either end, or grow; a receipt is edited.
Edit(i) ==
  LET data == content[i].data
  IN  /\ Other /\ UNCHANGED <<link, moves>>
      /\ CASE data[1] = "cells" ->
                \E cells \in {<<"new">> \o Tail(data[2]), Front(data[2]) \o <<"new">>, Append(data[2], "new")} :
                  Put(i, <<"cells", cells>>)
           [] data[1] = "receipt" -> Put(i, <<"receipt", [data[2] EXCEPT !.changed = TRUE]>>)
           [] OTHER -> FALSE

Relink(path, from) ==
  /\ Other /\ moves' = moves + 1 /\ UNCHANGED content
  /\ link[from] \in Inodes /\ path # from
  /\ \/ link' = [link EXCEPT ![path] = link[from]]
     \/ /\ \A other \in Paths : link[other] # path
        /\ link' = [link EXCEPT ![path] = from]
     \/ link' = [link EXCEPT ![path] = link[from], ![from] = Missing]

Unlink(path) ==
  /\ Other /\ moves' = moves + 1 /\ UNCHANGED content
  /\ link[path] # Missing
  /\ link' = [link EXCEPT ![path] = Missing]

Next ==
  \/ \E p \in Processes :
       \/ \E argv \in CommandLines : runCli(p, argv)
       \/ writePrivateKeyFile(p) \/ OpenOutput(p) \/ WriteOutput(p)
       \/ readReceiptForPresentation(p) \/ StatInput(p) \/ requireSeparateReceiptOutput(p)
       \/ LoadSigningKey(p) \/ readReceiptForVerification(p) \/ LoadVerifyingKey(p)
       \/ OpenArtifact(p) \/ ReadArtifact(p) \/ CreateReceipt(p) \/ Verified(p)
       \/ Crash(p)
  \/ \E i \in Inodes : Edit(i)
  \/ \E path, from \in Movable : Relink(path, from)
  \/ \E path \in Movable : Unlink(path)

Spec == Init /\ [][Next]_vars
-----------------------------------------------------------------------------
Steps(p) == process'[p] # process[p]

\* A command that presents a receipt leaves the file that its --proof names as it is, under
\* whatever other names it is the output too, unless names were changed between the check
\* and the write (cli.ts 126-139, 508-531, 568-640).
PresentationKeepsReceipt ==
  [][\A p \in Processes :
       /\ Steps(p) /\ Is(p, {"badge", "export"}) /\ process[p].stage \in {"open", "write"}
       /\ moves = process[p].moves
       => content'[process[p].stat] = content[process[p].stat]]_vars

\* keygen changes no file but the one it made, whatever its --out leads to and whoever makes
\* a file of that name or writes to it meanwhile (cli.ts 213-222, 330-351).
KeygenReplacesNothing ==
  [][\A p \in Processes, i \in Inodes :
       /\ Steps(p) /\ Is(p, {"keygen"})
       /\ content[i].data # Unused /\ i # process[p].fd
       => content'[i] = content[i]]_vars

\* verify with --require-trusted-v2 exits with 0 only for a receipt that was signed as it was
\* read, in version 2, with the key it was given, and with --check-files only if each file
\* had the recorded digest, whatever was written, edited or moved meanwhile (cli.ts 416-506).
GateOnlyPassesSigned ==
  \A p \in Processes :
    At(p, "exited") /\ process[p].code = 0 /\ process[p].parsed # Missing =>
      \E r \in made :
        /\ process[p].receipt = <<"receipt", r>> /\ r.version = "2.0.0"
        /\ process[p].key = r.key
        /\ CheckFiles(process[p].parsed) =>
             r.artifacts = [at \in DOMAIN process[p].digests |-> Digest(process[p].digests[at])]

\* The digest of a file that nobody wrote to while it was read is that of its content,
\* however long it is and whichever file was read before it (receipt.ts 173-189).
DigestsAreExact ==
  \A p \in Processes : \A at \in DOMAIN process[p].digests :
    LET entry == process[p].digests[at]
    IN  entry.undisturbed => entry.cells = entry.opened
=============================================================================
