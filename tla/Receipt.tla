------------------------------- MODULE Receipt -------------------------------
(***************************************************************************)
(* Signatures (src/core/signer.ts), and the creation and verification of   *)
(* receipts (src/core/receipt.ts). The material of a key is <<"hex", k>>,  *)
(* 32 bytes in hexadecimal, the public half of such an Ed25519 seed,       *)
(* <<"PEM", k>> or <<"public PEM", k>>, the seed or its public half in     *)
(* PEM, or <<"text", k>>, any other text. A signature names its algorithm, *)
(* the material that verifies it, and the payload; nothing else has the    *)
(* same value.                                                             *)
(* The disk maps the paths of files to their contents, or to Missing.      *)
(***************************************************************************)
EXTENDS FiniteSets, CanonicalJson, ReceiptEnvelope, MerkleTree

CONSTANTS
  Relative,   \* for paths that are not yet so: what they are relative to the directory
  Escaping    \* the paths that artifactPathWithin() refuses

decodeSignatureAlgorithm(value) == IF value \in SignatureAlgorithms THEN value ELSE Missing

\* The seed that material stands for: any 32 bytes are one.
privateEd25519Key(material) ==
  CASE material[1] = "PEM" -> <<"hex", material[2]>>
    [] material[1] \in {"text", "public PEM"} -> Throws
    [] OTHER -> material

PublicKey(material) == <<"public", privateEd25519Key(material)>>

\* A private key in PEM will do for a public one.
publicEd25519Key(material) ==
  CASE material[1] \in {"PEM", "public PEM"} -> PublicKey(<<"PEM", material[2]>>)
    [] material[1] = "text" -> Throws
    [] OTHER -> material

verifyingKey(material, algorithm) ==
  IF algorithm = "Ed25519" THEN publicEd25519Key(material) ELSE material

\* Text that canonicalize() refuses cannot be a key.
Unusable(material) ==
  material \in {Missing, Garbage, Blank} \/ material = <<"text", "lone surrogate">>

signPayload(payload, material, algorithm) ==
  LET selected == decodeSignatureAlgorithm(algorithm)
  IN  IF selected = Missing \/ Unusable(material) \/ payload = Throws
           \/ (selected = "Ed25519" /\ privateEd25519Key(material) = Throws)
      THEN Throws
      ELSE <<selected, IF selected = "Ed25519" THEN PublicKey(material) ELSE material, payload>>

verifySignature(payload, value, material, algorithm) ==
  /\ decodeSignatureAlgorithm(algorithm) # Missing
  /\ ~Unusable(material) /\ payload # Throws
  /\ toLowerCase(value) = <<algorithm, verifyingKey(material, algorithm), payload>>
-----------------------------------------------------------------------------
profilesFor(version) ==
  IF version = "1.0.0" THEN [canonical |-> "legacy", merkle |-> "legacy-duplicated"]
  ELSE [canonical |-> "rfc8785", merkle |-> "rfc6962"]

\* canonicalHash() of an object of texts and of digests or sizes.
ObjectHash(kind, texts, data, profile) ==
  IF profile = "rfc8785" /\ \E t \in DOMAIN texts : texts[t] = "lone surrogate" THEN Throws
  ELSE <<"sha256", kind, texts, data>>

metadataHash(r) ==
  LET form == canonicalize(r["metadata"], profilesFor(r["version"]).canonical)
  IN  IF form = Throws THEN Throws
      ELSE <<"sha256", "metadata", form, r["metadata.signalProfile"]>>

ArtifactLeaf(artifact, version) ==
  IF version = "1.0.0" THEN artifact.sha256
  ELSE ObjectHash("artifact", <<artifact.path, artifact.mimeType>>,
                  <<artifact.sha256, artifact.sizeBytes>>, "rfc8785")

\* The leaves before they are hashed as leaves; AnyThrows if an object has no canonical form.
receiptLeaves(r) ==
  LET canonical == profilesFor(r["version"]).canonical
  IN  <<ObjectHash("task", <<r["task.name"], r["task.status"]>>, << >>, canonical),
        ObjectHash("environment", <<r["environment.platform"], r["environment.arch"],
                                    r["environment.runtime"]>>, << >>, canonical)>>
      \o [at \in DOMAIN r["artifacts"] |-> ArtifactLeaf(r["artifacts"][at], r["version"])]

TreeOver(leaves, profile) == [leaves |-> leaves, root |-> getRoot(leaves, profile)]
HashedLeaves(hashes) == [at \in DOMAIN hashes |-> hashLeaf(hashes[at])]
Tree(r) == TreeOver(HashedLeaves(receiptLeaves(r)), profilesFor(r["version"]).merkle)

\* A text without a canonical form among those signed makes the whole payload throw.
CanonicalPayload(texts, root, metadata) ==
  IF metadata = Throws \/ \E t \in DOMAIN texts : texts[t] = "lone surrogate" THEN Throws
  ELSE <<"payload", texts, root, metadata>>

signingPayload(r) ==
  LET legacy == <<r["proofId"], r["timestamp"], r["parentOrganization"], r["task.name"]>>
      header == <<r["protocol"], r["version"], r["merkle.algorithm"], r["signature.algorithm"],
                  r["signature.keyId"], r["signature.signerIdentity"], r["signature.timestamp"]>>
  IN  IF r["version"] = "1.0.0" THEN <<"payload", legacy, r["merkle.root"]>>
      ELSE CanonicalPayload(legacy \o header, r["merkle.root"], metadataHash(r))
-----------------------------------------------------------------------------
RelativePath(path) == IF path \in DOMAIN Relative THEN Relative[path] ELSE path

\* An item without data is read from the disk.
hashArtifact(item, disk) ==
  LET path == RelativePath(item.path)
      content == IF item.data = Missing THEN disk[path] ELSE item.data
  IN  IF content = Missing THEN Throws
      ELSE [path |-> path, sha256 |-> <<"sha256", content>>, sizeBytes |-> <<"bytes", content>>,
            mimeType |-> item.mimeType]

WithTree(unsigned, tree) ==
  [unsigned EXCEPT !["merkle.leaves"] = tree.leaves, !["merkle.root"] = tree.root]

WithValue(header, value) ==
  IF value = Throws THEN Throws ELSE [header EXCEPT !["signature.value"] = value]

Signed(header, signingKey) ==
  WithValue(header, signPayload(signingPayload(header), signingKey, header["signature.algorithm"]))

SignedReceipt(unsigned, signingKey) ==
  IF AnyThrows(receiptLeaves(unsigned)) THEN Throws
  ELSE Signed(WithTree(unsigned, Tree(unsigned)), signingKey)

\* The fields of a receipt that do not depend on the tree or on the key.
Header(options, artifacts, version, proofId) ==
  [path \in ReceiptFields |->
     CASE path \in {"task", "environment", "merkle", "signature"} -> "object"
       [] path = "protocol" -> "nymrel-proof-ledger"
       [] path = "version" -> version
       [] path = "proofId" -> proofId
       [] path = "timestamp" -> "a time"
       [] path = "parentOrganization" -> "Nymrel"
       [] path = "task.name" -> options.name
       [] path = "task.status" -> options.status
       [] path = "environment.platform" -> "linux"
       [] path = "environment.arch" -> "x64"
       [] path = "environment.runtime" -> "node"
       [] path = "artifacts" -> artifacts
       [] path = "merkle.algorithm" -> IF version = "2.0.0" THEN "RFC6962-SHA256" ELSE "SHA-256"
       [] path = "signature.algorithm" -> options.algorithm
       [] path = "signature.keyId" -> options.keyId
       [] path = "signature.signerIdentity" -> options.signerIdentity
       [] path = "signature.timestamp" -> "a later time"
       [] path = "metadata" -> options.metadata
       [] path = "metadata.signalProfile" -> options.mirror
       [] OTHER -> Missing]

HashedArtifacts(options, disk) ==
  [at \in DOMAIN options.artifacts |-> hashArtifact(options.artifacts[at], disk)]

createReceipt(options, proofId, disk) ==
  IF AnyThrows(HashedArtifacts(options, disk)) THEN Throws
  ELSE SignedReceipt(Header(options, HashedArtifacts(options, disk), "2.0.0", proofId),
                     options.signingKey)
-----------------------------------------------------------------------------
invalidContext(errors) ==
  [valid |-> FALSE, trusted |-> FALSE, merkleValid |-> FALSE, signatureChecked |-> FALSE,
   signatureValid |-> Missing, artifactsValid |-> FALSE, checkedArtifacts |-> 0,
   receipt |-> Missing, errors |-> errors]

hasKey(options) == options.publicKeyOrSecret # Missing

ContextValid(options) ==
  /\ hasKey(options) = (options.expectedAlgorithm # Missing)
  /\ hasKey(options) => /\ options.publicKeyOrSecret \notin {Garbage, Blank}
                        /\ decodeSignatureAlgorithm(options.expectedAlgorithm) # Missing

LeavesValid(r, tree) ==
  /\ Len(tree.leaves) = Len(r["merkle.leaves"])
  /\ \A at \in DOMAIN tree.leaves : tree.leaves[at] = toLowerCase(r["merkle.leaves"][at])

RootValid(r, tree) == tree.root = toLowerCase(r["merkle.root"])

SignatureValid(r, options) ==
  verifySignature(signingPayload(r), r["signature.value"], options.publicKeyOrSecret,
                  r["signature.algorithm"])

artifactPathWithin(path) == path \notin Escaping

\* A recorded path that no file has is as missing as one whose file is gone.
ContentAt(disk, path) == IF path \in DOMAIN disk THEN disk[path] ELSE Missing

Opened(r, disk) ==
  {at \in DOMAIN r["artifacts"] : /\ artifactPathWithin(r["artifacts"][at].path)
                                  /\ ContentAt(disk, r["artifacts"][at].path) # Missing}

DiskErrors(r, disk) ==
  {<<"ARTIFACT", "artifacts", at>> :
     at \in {at \in DOMAIN r["artifacts"] :
               at \in Opened(r, disk) =>
                 <<"sha256", ContentAt(disk, r["artifacts"][at].path)>>
                   # toLowerCase(r["artifacts"][at].sha256)}}

CoreErrors(r, options, tree) ==
  {e \in {<<"LEAVES", "merkle.leaves", 0>>} : ~LeavesValid(r, tree)}
    \union {e \in {<<"ROOT", "merkle.root", 0>>} : ~RootValid(r, tree)}
    \union {e \in {<<"SIGNATURE", "signature", 0>>} : hasKey(options) /\ ~SignatureValid(r, options)}

\* What is reported when all checks that are made have been made.
Report(r, options, opened, errors) ==
  LET codes == {e[1] : e \in errors}
  IN  [valid |-> errors = {},
       trusted |-> errors = {} /\ hasKey(options),
       merkleValid |-> codes \cap {"LEAVES", "ROOT"} = {},
       signatureChecked |-> hasKey(options),
       signatureValid |-> IF hasKey(options) THEN "SIGNATURE" \notin codes ELSE Missing,
       artifactsValid |-> options.checkFilesOnDisk => errors = {},
       checkedArtifacts |-> Cardinality(opened),
       receipt |-> r, errors |-> errors]

\* The files are looked at when they should be and nothing is wrong so far.
DiskVerdict(r, options, disk, core) ==
  IF options.checkFilesOnDisk /\ core = {}
  THEN Report(r, options, Opened(r, disk), DiskErrors(r, disk))
  ELSE Report(r, options, {}, core)

\* The verdict on a receipt, given what is wrong with its form.
Verdict(r, options, disk, malformed) ==
  IF malformed # {} THEN invalidContext(malformed)
  ELSE IF hasKey(options) /\ options.expectedAlgorithm # r["signature.algorithm"]
       THEN invalidContext({<<"ALGORITHM", "signature.algorithm", 0>>})
  ELSE IF metadataHash(r) = Throws \/ AnyThrows(receiptLeaves(r))
       THEN invalidContext({<<"NOT_CANONICAL", "", 0>>})
  ELSE DiskVerdict(r, options, disk, CoreErrors(r, options, Tree(r)))

verifyReceipt(r, options, disk) ==
  IF ~ContextValid(options) THEN invalidContext({<<"CONTEXT", "", 0>>})
  ELSE Verdict(r, options, disk, validateReceiptEnvelope(r))
=============================================================================
