------------------------------ MODULE Documents ------------------------------
(***************************************************************************)
(* Receipts and bundles on their way from the signer to a reader. A signer *)
(* issues documents; the reader holds one of them, in which fields have    *)
(* been changed, exchanged with those of another document or capitalised,  *)
(* lists cut or extended, or the tree been computed anew, by accident or   *)
(* by a tool that rewrites JSON. The files named in it change as well.     *)
(***************************************************************************)
EXTENDS SignalProfile

CONSTANTS
  Orders,        \* what createReceipt() is asked for
  LegacyOrders,  \* what an emitter of version 1.0.0 was asked for
  BundleOrders,  \* what createSignalProofBundle() is asked for: [options, envelope]
  Contexts,      \* what verifiers know: [publicKeyOrSecret, expectedAlgorithm]
  Alternatives,  \* for some fields of a receipt, the values they may be changed to
  ArtifactAlternatives, EnvelopeAlternatives,  \* likewise for artifacts and envelopes
  Parts,         \* sets of fields that may be exchanged between receipts
  Disk,          \* what is on the disk at first
  MaxSteps       \* bound on documents and changes together

\* Files and what callers pass as data hold bytes of their own: the content of a Signal
\* envelope gets into a receipt through createSignalProofBundle().
IsFile(content) == content = <<"file", content[2]>>

OrderFields == {"name", "status", "artifacts", "metadata", "mirror", "signingKey", "keyId",
                "signerIdentity", "algorithm"}

IsArray(value) == Len(value) \in Nat /\ value = [at \in 1 .. Len(value) |-> value[at]]

\* What the types of CreateReceiptOptions promise. An item without data is a file on the disk.
IsOrder(options) ==
  /\ OrderFields \subseteq DOMAIN options
  /\ options.metadata \in Values
  /\ IsArray(options.artifacts)
  /\ \A at \in DOMAIN options.artifacts :
       LET item == options.artifacts[at]
       IN  IF item.data = Missing THEN RelativePath(item.path) \in DOMAIN Disk ELSE IsFile(item.data)

AllOrders == Orders \union LegacyOrders \union {order.options : order \in BundleOrders}

ASSUME OrdersAssumption == \A options \in AllOrders : IsOrder(options)

\* An envelope has a value for each of its fields, of which three may be lists; what is in the
\* list of evidence may be objects.
IsEnvelope(e) ==
  /\ DOMAIN e = EnvelopeFields
  /\ \A path \in {"attestedScopes", "evidence", "limitations"} :
       e[path] \in {Missing, Garbage} \/ IsArray(e[path])
  /\ e["evidence"] \notin {Missing, Garbage} =>
       \A at \in DOMAIN e["evidence"] :
         LET item == e["evidence"][at]
         IN  item = Garbage \/ item = [ref |-> item.ref, privacy |-> item.privacy, digest |-> item.digest]

ASSUME EnvelopesAssumption == \A order \in BundleOrders : IsEnvelope(order.envelope)

\* What verifies the signatures made with the key of an order.
VerificationKey(options) ==
  IF options.algorithm = "Ed25519" THEN PublicKey(options.signingKey) ELSE options.signingKey

\* Each key that can sign has a verifier that knows it.
ASSUME ContextsAssumption ==
  \A options \in AllOrders :
    (options.algorithm = "Ed25519" => privateEd25519Key(options.signingKey) # Throws) =>
      \E context \in Contexts :
        /\ context.publicKeyOrSecret = VerificationKey(options)
        /\ context.expectedAlgorithm = options.algorithm

\* The receipts of older releases that are looked at are those that the validation of today
\* accepts, with metadata that JSON can carry.
ASSUME LegacyOrdersAssumption ==
  \A options \in LegacyOrders :
    /\ {options.name, options.keyId, options.signerIdentity} \cap {Missing, Garbage, Blank} = {}
    /\ \A at \in DOMAIN options.artifacts :
         RelativePath(options.artifacts[at].path) \notin {Missing, Garbage, Blank}
    /\ canonicalizeLegacy[Parsed[options.metadata]] # Throws

ASSUME DiskAssumption == \A path \in DOMAIN Disk : IsFile(Disk[path])

\* No change forges a signature: the values that a signature or a digest may be changed to
\* are those of other documents (by an exchange), no digests at all, or digests of contents;
\* an object or a list is changed to something that is none, and metadata to other metadata.
ASSUME AlternativesAssumption ==
  /\ \A path \in DOMAIN Alternatives :
       /\ path = "signature.value" => Alternatives[path] \subseteq {Missing, Garbage, Blank}
       /\ path = "metadata" => Alternatives[path] \subseteq Values \union {Missing, Garbage}
       /\ path \in {"task", "environment", "merkle", "signature", "artifacts", "merkle.leaves"} =>
            Alternatives[path] \subseteq {Missing, Garbage}
  /\ "sha256" \in DOMAIN ArtifactAlternatives =>
       \A value \in ArtifactAlternatives["sha256"] :
         value \in {Missing, Garbage, Blank} \/ value = <<"sha256", value[2]>>

VARIABLES
  issued,   \* the documents, in the order in which they were signed
  held,     \* what the reader has, or Missing
  edits,    \* the number of changes
  disk

vars == <<issued, held, edits, disk>>

ProofIds == <<"prf_1", "prf_2", "prf_3">>
NextProofId == ProofIds[Len(issued) + 1]

Init == issued = << >> /\ held = Missing /\ edits = 0 /\ disk = Disk

\* A document is signed in memory and leaves the program as JSON.
Serialised(receipt) == [receipt EXCEPT !["metadata"] = Parsed[@]]

Publish(document) ==
  issued' = Append(issued, document) /\ held' = document /\ UNCHANGED <<edits, disk>>

MayIssue == edits = 0 /\ Len(issued) < Len(ProofIds) /\ Len(issued) < MaxSteps

PublishReceipt(receipt) ==
  /\ MayIssue /\ receipt # Throws
  /\ Publish([profile |-> Missing, bundleVersion |-> Missing, envelope |-> Missing,
              receipt |-> Serialised(receipt)])

Issue(options) == PublishReceipt(createReceipt(options, NextProofId, disk))

\* Receipts of version 1.0.0 come from older releases; only their verification is left.
IssueLegacy(options) ==
  /\ ~AnyThrows(HashedArtifacts(options, disk))
  /\ PublishReceipt(SignedReceipt(Header(options, HashedArtifacts(options, disk), "1.0.0", NextProofId),
                                  options.signingKey))

PublishBundle(bundle) ==
  MayIssue /\ bundle # Throws /\ Publish([bundle EXCEPT !.receipt = Serialised(@)])

IssueBundle(order) ==
  PublishBundle(createSignalProofBundle(order.options, order.envelope, NextProofId, disk))
-----------------------------------------------------------------------------
MayEdit == held # Missing /\ edits + Len(issued) < MaxSteps

Edited(document) == held' = document /\ edits' = edits + 1 /\ UNCHANGED <<issued, disk>>
EditedReceipt(receipt) == Edited([held EXCEPT !.receipt = receipt])

ChangeField(path) ==
  \E value \in Alternatives[path] : EditedReceipt([held.receipt EXCEPT ![path] = value])

ChangeArtifact(at, field) ==
  \E value \in ArtifactAlternatives[field] :
    EditedReceipt([held.receipt EXCEPT !["artifacts"][at] = [@ EXCEPT ![field] = value]])

\* The objects of an envelope may go with all their members.
ChangeEnvelope(path) ==
  \E value \in EnvelopeAlternatives[path] :
    Edited([held EXCEPT !.envelope =
              [p \in EnvelopeFields |->
                 IF p = path THEN value
                 ELSE IF path = "evaluator" /\ p \in {"evaluator.id", "evaluator.version"} THEN Missing
                 ELSE held.envelope[p]]])

ReverseEnvelope(path) == Edited([held EXCEPT !.envelope[path] = Reverse(@)])

DropLast(path) ==
  /\ held.receipt[path] # << >>
  /\ EditedReceipt([held.receipt EXCEPT ![path] = Front(@)])

RepeatLast(path) ==
  /\ held.receipt[path] # << >>
  /\ EditedReceipt([held.receipt EXCEPT ![path] = Append(@, Last(@))])

Upper(digest) == IF digest[1] = "UPPER" THEN digest ELSE <<"UPPER", digest>>

CapitaliseLeaves ==
  EditedReceipt([held.receipt EXCEPT !["merkle.leaves"] = [at \in DOMAIN @ |-> Upper(@[at])]])

Capitalise(path) == EditedReceipt([held.receipt EXCEPT ![path] = Upper(@)])

CapitaliseArtifact(at) ==
  EditedReceipt([held.receipt EXCEPT !["artifacts"][at].sha256 = Upper(@)])

\* A tool that lists the artifacts anew computes the tree over what it finds.
RecomputeTree ==
  ~AnyThrows(receiptLeaves(held.receipt)) /\ EditedReceipt(WithTree(held.receipt, Tree(held.receipt)))

Exchange(part, other) ==
  EditedReceipt([path \in ReceiptFields |->
                   IF path \in part THEN other.receipt[path] ELSE held.receipt[path]])

EditList ==
  \/ \E path \in {"artifacts", "merkle.leaves"} : DropLast(path) \/ RepeatLast(path)
  \/ \E at \in DOMAIN held.receipt["artifacts"] :
       \/ CapitaliseArtifact(at)
       \/ \E field \in DOMAIN ArtifactAlternatives : ChangeArtifact(at, field)
  \/ CapitaliseLeaves
  \/ Capitalise("merkle.root")
  \/ Capitalise("signature.value")
  \/ RecomputeTree

\* What is broken already is not worked on: its lists may be no lists.
WellFormed == validateReceiptEnvelope(held.receipt) = {}

EditEnvelope ==
  \/ \E path \in DOMAIN EnvelopeAlternatives : ChangeEnvelope(path)
  \/ \E path \in {"attestedScopes", "evidence"} : ReverseEnvelope(path)

HoldsBundle == held.envelope # Missing
EnvelopeWellFormed == HoldsBundle /\ validateSignalProofEnvelope(held.envelope) = {}

FileChanges(path, content) ==
  /\ disk[path] # content
  /\ disk' = [disk EXCEPT ![path] = content] /\ edits' = edits + 1 /\ UNCHANGED <<issued, held>>

Next ==
  \/ \E options \in Orders : Issue(options)
  \/ \E options \in LegacyOrders : IssueLegacy(options)
  \/ \E order \in BundleOrders : IssueBundle(order)
  \/ MayEdit /\ WellFormed /\ \E path \in DOMAIN Alternatives : ChangeField(path)
  \/ MayEdit /\ WellFormed /\ EditList
  \/ MayEdit /\ WellFormed /\ \E part \in Parts, i \in DOMAIN issued : Exchange(part, issued[i])
  \/ MayEdit /\ EnvelopeWellFormed /\ EditEnvelope
  \/ MayEdit /\ \E path \in DOMAIN disk, content \in {Missing, <<"file", "new">>} :
       FileChanges(path, content)

Spec == Init /\ [][Next]_vars
-----------------------------------------------------------------------------
With(context, checkFiles) ==
  [publicKeyOrSecret |-> context.publicKeyOrSecret, expectedAlgorithm |-> context.expectedAlgorithm,
   checkFilesOnDisk |-> checkFiles]

Vouches(context, receipt) == verifyReceipt(receipt, With(context, FALSE), disk).trusted

\* The values of a field without the case of its digests, which no digest depends on.
Lowered(path, value) ==
  CASE path = "merkle.leaves" -> [at \in DOMAIN value |-> toLowerCase(value[at])]
    [] path = "signature.value" -> toLowerCase(value)
    [] OTHER -> value

Agree(r, s, paths) == \A path \in paths : Lowered(path, r[path]) = Lowered(path, s[path])
Digests(r) == {toLowerCase(r["artifacts"][at].sha256) : at \in DOMAIN r["artifacts"]}

\* A signature of version 1.0.0 covers neither names nor numbers of artifacts, nor metadata,
\* nor who signed.
SameSigned(r, s) ==
  IF r["version"] = "1.0.0"
  THEN /\ Agree(r, s, Scalars \union TaskFields \union EnvironmentFields \union {"merkle.root"})
       /\ Digests(r) = Digests(s)
  ELSE Agree(r, s, ReceiptFields)

\* Whatever was changed, exchanged or computed anew, a receipt that verifyReceipt() trusts
\* says what one receipt signed with that key says: all of it in version 2.0.0, what the
\* warning for version 1.0.0 leaves (receipt.ts 242-271, 432-463). With disk checks the
\* files under the paths it names have the digests it names (465-490).
TrustedIsWhatWasSigned ==
  held # Missing =>
    \A context \in Contexts :
      Vouches(context, held.receipt) =>
        /\ \E i \in DOMAIN issued : /\ SameSigned(held.receipt, issued[i].receipt)
                                     /\ Vouches(context, issued[i].receipt)
        /\ verifyReceipt(held.receipt, With(context, TRUE), disk).trusted =>
             \A at \in DOMAIN held.receipt["artifacts"] :
               LET artifact == held.receipt["artifacts"][at]
               IN  /\ artifact.path \notin Escaping
                   /\ <<"sha256", ContentAt(disk, artifact.path)>> = toLowerCase(artifact.sha256)

\* For every prefix of the leaves of a receipt, the path that getProof() gives for one leaf
\* leads that leaf, and no other, to the root, and the root of the current profile is the
\* tree head of RFC 6962 (merkle.ts 66-142).
InclusionProofs ==
  held # Missing /\ edits = 0 =>
    \A count \in 0 .. Len(held.receipt["merkle.leaves"]) :
      LET leaves == SubSeq(held.receipt["merkle.leaves"], 1, count)
          profile == profilesFor(held.receipt["version"]).merkle
          root == getRoot(leaves, profile)
      IN  /\ profile = "rfc6962" => root = TreeHead(leaves)
          /\ \A i, j \in DOMAIN leaves :
               verifyProof(leaves[j], getProof(leaves, profile, i - 1), root) <=> leaves[i] = leaves[j]

\* A receipt that createReceipt() made is accepted, with its key, after it went through JSON,
\* and so is the bundle it came in, unless a name in it is empty: what JSON cannot carry was
\* refused when it was signed, and what normalisation changes was changed before
\* (canonical.ts 22-76, receipt.ts 273-346, signal.ts 373-409).
SerialisedReceiptsVerify ==
  held # Missing /\ edits = 0 /\ validateReceiptEnvelope(held.receipt) = {} =>
    \E context \in Contexts :
      /\ Vouches(context, held.receipt)
      /\ HoldsBundle => verifySignalProofBundle(held, With(context, FALSE), disk).valid

\* A bundle that is valid for a reader has the envelope of one bundle that was signed, up to
\* white space and order, and what is reported as authoritative is that envelope's content
\* (signal.ts 542-624).
AuthoritativeIsSigned ==
  LET Justified(result) ==
        result.valid =>
          \E i \in DOMAIN issued :
            /\ issued[i].envelope = cloneAndNormalizeEnvelope(held.envelope)
            /\ SameSigned(held.receipt, issued[i].receipt)
            /\ result.authoritative = Authoritative(issued[i].envelope)
  IN  held # Missing /\ HoldsBundle =>
        \A context \in Contexts, checkFiles \in BOOLEAN :
          Justified(verifySignalProofBundle(held, With(context, checkFiles), disk))

\* What signal.test.ts:416 expects of reserved artifact paths: an artifact that would collide
\* with the envelope's is refused, so that each bundle signed names the envelope's path once.
CollisionsAreRefused ==
  \A i \in DOMAIN issued :
    issued[i].envelope # Missing => Cardinality(EnvelopeArtifacts(issued[i].receipt)) = 1
=============================================================================
