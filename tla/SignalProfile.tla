---------------------------- MODULE SignalProfile ----------------------------
(***************************************************************************)
(* Signal bundles (src/profiles/signal.ts): an envelope of claims, bound   *)
(* to a receipt as one of its artifacts. An envelope maps the paths of its *)
(* fields to values as a receipt does; "extra" stands for any field that   *)
(* the profile does not know. Blank text is empty or white space. Accepted *)
(* digests are in lower case, so that normalisation does not change them,  *)
(* and where a list is sorted one arrangement of its members is chosen.    *)
(***************************************************************************)
EXTENDS SequencesExt, Receipt

CONSTANTS
  Trimmed,     \* for texts with white space around them: the same without
  Normalized,  \* for paths that normalizeArtifactPath() changes: what they become
  ReservedPath

EnvelopeTexts == {"signalReceiptId", "needDropId", "challengeId", "observer.id", "observer.method",
                  "evaluator.id", "evaluator.version"}
EnvelopeFields ==
  EnvelopeTexts \union
    {"profile", "profileVersion", "claimSnapshotDigest", "disclosureSnapshotDigest",
     "attestedScopes", "observer", "observer.kind", "observer.observedAt", "evaluator",
     "evidence", "limitations", "extra"}

AllowedScopes == {"artifact_integrity", "execution_observed", "timing_observed",
                  "price_source_checked", "outcome_rubric_replayed", "identity_verified"}

trim(text) == IF text \in DOMAIN Trimmed THEN Trimmed[text] ELSE text
normalizeArtifactPath(path) == IF path \in DOMAIN Normalized THEN Normalized[path] ELSE path

\* What was trimmed has nothing left to trim, and only what is blank becomes blank.
ASSUME TrimmedAssumption ==
  \A text \in DOMAIN Trimmed :
    /\ text \notin {Missing, Garbage, Blank}
    /\ Trimmed[text] \notin DOMAIN Trimmed \union {Missing, Garbage, Blank}

\* The reserved path is relative and in normal form.
ASSUME ReservedPathAssumption ==
  RelativePath(ReservedPath) = ReservedPath /\ normalizeArtifactPath(ReservedPath) = ReservedPath

isNonEmptyText(value) == value \notin {Missing, Garbage, Blank}
isOptionalText(value) == value = Missing \/ isNonEmptyText(value)

\* What is demanded of the members of the observer and the evaluator, if these are objects.
ObserverAccepted(e, path) ==
  /\ path = "observer.kind" => e[path] \in {"self", "system", "independent"}
  /\ path = "observer.id" => isNonEmptyText(e[path])
  /\ path = "observer.observedAt" => isTimestamp(e[path])
  /\ path = "observer.method" => isOptionalText(e[path])

EvaluatorAccepted(e, path) == path \in {"evaluator.id", "evaluator.version"} => isNonEmptyText(e[path])

FieldAccepted(e, path) ==
  /\ path = "extra" => e[path] = Missing
  /\ path = "profile" => e[path] = "nymrel-signal-proof-receipt"
  /\ path = "profileVersion" => e[path] = "1.0.0"
  /\ path \in {"signalReceiptId", "claimSnapshotDigest", "disclosureSnapshotDigest"} =>
       isNonEmptyText(e[path])
  /\ path \in {"needDropId", "challengeId"} => isOptionalText(e[path])
  /\ path = "attestedScopes" => e[path] \notin {Missing, Garbage} /\ e[path] # << >>
  /\ path = "observer" => e[path] = "object"
  /\ path = "evaluator" => e[path] \in {Missing, "object"}
  /\ path = "evidence" => e[path] \notin {Missing, Garbage}
  /\ path = "limitations" => e[path] # Garbage
  /\ e["observer"] = "object" => ObserverAccepted(e, path)
  /\ e["evaluator"] = "object" => EvaluatorAccepted(e, path)

EvidenceAccepted(item) ==
  /\ item # Garbage
  /\ isNonEmptyText(item.ref)
  /\ item.privacy \in {"public", "private", "restricted"}
  /\ item.digest \notin {Garbage, Blank}

ListErrors(e, path) ==
  LET list == e[path]
  IN  IF list \in {Missing, Garbage} THEN {}
      ELSE {<<path, at>> : at \in {at \in DOMAIN list :
              \/ /\ path = "attestedScopes"
                 /\ \/ list[at] \notin AllowedScopes
                    \/ \E before \in 1 .. at - 1 : list[before] = list[at]
              \/ path = "evidence" /\ ~EvidenceAccepted(list[at])
              \/ path = "limitations" /\ ~isNonEmptyText(list[at])}}

validateSignalProofEnvelope(e) ==
  IF e \in {Missing, Garbage} THEN {<<"envelope", 0>>}
  ELSE {<<path, 0>> : path \in {path \in EnvelopeFields : ~FieldAccepted(e, path)}}
         \union UNION {ListErrors(e, path) : path \in {"attestedScopes", "evidence", "limitations"}}
-----------------------------------------------------------------------------
Sorted(list) ==
  CHOOSE arrangement \in {[at \in DOMAIN list |-> list[order[at]]] :
                            order \in {f \in [DOMAIN list -> DOMAIN list] : IsInjective(f)}} : TRUE

SortedSet(members) == SetToSeq(members)

cloneAndNormalizeEnvelope(e) ==
  [path \in EnvelopeFields |->
     CASE path \in EnvelopeTexts -> trim(e[path])
       [] path = "attestedScopes" -> SortedSet(ToSet(e[path]))
       [] path = "evidence" ->
            Sorted([at \in DOMAIN e[path] |-> [e[path][at] EXCEPT !.ref = trim(@)]])
       [] path = "limitations" /\ e[path] # Missing ->
            SortedSet({trim(e[path][at]) : at \in DOMAIN e[path]})
       [] OTHER -> e[path]]

ListsOfTexts == {"attestedScopes", "limitations"}

\* Whether canonicalize() throws for a text of an envelope, wherever it stands.
NotCanonical(e) ==
  \/ \E path \in EnvelopeFields \ (ListsOfTexts \union {"evidence"}) : e[path] = "lone surrogate"
  \/ \E path \in ListsOfTexts :
       e[path] \notin {Missing, Garbage} /\ \E at \in DOMAIN e[path] : e[path][at] = "lone surrogate"
  \/ /\ e["evidence"] \notin {Missing, Garbage}
     /\ \E at \in DOMAIN e["evidence"] :
          LET item == e["evidence"][at]
          IN  item # Garbage /\ "lone surrogate" \in {item.ref, item.privacy, item.digest}

EnvelopeContent(e) == <<"signal", e>>

mirrorFromEnvelope(e) ==
  [path \in {"profile", "profileVersion", "signalReceiptId", "needDropId", "challengeId",
             "attestedScopes"} |-> cloneAndNormalizeEnvelope(e)[path]]

\* The check is on the paths as the caller writes them.
NamesReservedPath(artifacts) ==
  \E at \in DOMAIN artifacts : normalizeArtifactPath(artifacts[at].path) = ReservedPath

BundleOf(normal, receipt) ==
  IF receipt = Throws THEN Throws
  ELSE [profile |-> "nymrel-signal-proof-bundle", bundleVersion |-> "1.0.0",
        envelope |-> normal, receipt |-> receipt]

\* The receipt is asked for with the envelope as its first artifact.
SignedBundle(options, normal, proofId, disk) ==
  LET item == [path |-> ReservedPath, data |-> EnvelopeContent(normal),
               mimeType |-> "application/json"]
  IN  BundleOf(normal, createReceipt([options EXCEPT !.artifacts = <<item>> \o @,
                                                     !.mirror = mirrorFromEnvelope(normal)],
                                     proofId, disk))

createSignalProofBundle(options, envelope, proofId, disk) ==
  IF \/ validateSignalProofEnvelope(envelope) # {} \/ NamesReservedPath(options.artifacts)
     \/ NotCanonical(cloneAndNormalizeEnvelope(envelope))
  THEN Throws
  ELSE SignedBundle(options, cloneAndNormalizeEnvelope(envelope), proofId, disk)
-----------------------------------------------------------------------------
EnvelopeArtifacts(r) ==
  {at \in DOMAIN r["artifacts"] : normalizeArtifactPath(r["artifacts"][at].path) = ReservedPath}

\* Mutant: the artifact is found by its path alone.
BoundByPath(r, normal) == Cardinality(EnvelopeArtifacts(r)) = 1

\* Whether the only artifact under the reserved path is the envelope.
EnvelopeBound(r, normal) ==
  \E at \in EnvelopeArtifacts(r) :
    /\ EnvelopeArtifacts(r) = {at}
    /\ toLowerCase(r["artifacts"][at].sha256) = <<"sha256", EnvelopeContent(normal)>>
    /\ r["artifacts"][at].sizeBytes = <<"bytes", EnvelopeContent(normal)>>

MimeTypeAccepted(r) ==
  \A at \in EnvelopeArtifacts(r) :
    EnvelopeArtifacts(r) = {at} =>
      r["artifacts"][at].mimeType \in {Missing, Blank, "application/json"}

compareMirror(r, e) == r["metadata.signalProfile"] \in {Missing, mirrorFromEnvelope(e)}

BindingErrors(r, normal) ==
  {e \in {<<"binding", 0>>} : ~EnvelopeBound(r, normal)}
    \union {e \in {<<"mimeType", 0>>} : ~MimeTypeAccepted(r)}
    \union {e \in {<<"mirror", 0>>} : ~compareMirror(r, normal)}

\* What stands in for a result when disk checks were asked for and admission failed.
Skipped(core) ==
  [core EXCEPT !.valid = FALSE, !.trusted = FALSE, !.artifactsValid = FALSE,
               !.checkedArtifacts = 0, !.errors = @ \union {<<"SKIPPED", "", 0>>}]

deriveEstablishedScopes(e) == {scope \in ToSet(e["attestedScopes"]) : scope = "artifact_integrity"}

NothingAuthoritative ==
  [signalReceiptId |-> Missing, needDropId |-> Missing, challengeId |-> Missing,
   attestedScopes |-> {}, publicEvidenceRefs |-> << >>, nonPublicEvidenceCount |-> 0]

Authoritative(e) ==
  LET public(item) == item.privacy = "public"
      shown == SelectSeq(e["evidence"], public)
  IN  [signalReceiptId |-> e["signalReceiptId"], needDropId |-> e["needDropId"],
       challengeId |-> e["challengeId"], attestedScopes |-> deriveEstablishedScopes(e),
       publicEvidenceRefs |-> [at \in DOMAIN shown |-> shown[at].ref],
       nonPublicEvidenceCount |-> Len(e["evidence"]) - Len(shown)]

SignatureMode(core) ==
  IF ~core.signatureChecked \/ core.signatureValid # TRUE THEN "not_checked"
  ELSE IF core.receipt["signature.algorithm"] = "Ed25519" THEN "asymmetric_signature"
  ELSE "shared_secret_integrity"

\* doesNotProve names the scopes below that are not among `established'.
deriveDoesNotProve(established) ==
  {"identity_verified", "timing_observed", "price_source_checked", "execution_observed",
   "outcome_rubric_replayed"} \ established

failedSignalProofVerification ==
  [valid |-> FALSE, structurallyValid |-> FALSE, profileValid |-> FALSE, envelopeBound |-> FALSE,
   signatureMode |-> "not_checked", core |-> invalidContext({<<"UNSAFE", "", 0>>}),
   authoritative |-> NothingAuthoritative, doesNotProve |-> deriveDoesNotProve({})]

\* snapshotJsonInput() throws for text that has no canonical form, wherever it stands; digests
\* are no such text.
SnapshotThrows(bundle) ==
  LET r == bundle.receipt
      texts == ReceiptFields \ {"artifacts", "merkle.leaves", "merkle.root", "signature.value",
                                "metadata", "metadata.signalProfile"}
  IN  \/ bundle.envelope \notin {Missing, Garbage} /\ NotCanonical(bundle.envelope)
      \/ /\ r \notin {Missing, Garbage}
         /\ \/ \E path \in texts : r[path] = "lone surrogate"
            \/ /\ r["metadata"] \notin {Missing, Garbage}
               /\ canonicalizeRfc8785[r["metadata"]] = Throws

\* What is wrong with a bundle apart from its receipt's core.
BundleErrors(bundle) ==
  validateSignalProofEnvelope(bundle.envelope)
    \union {e \in {<<"bundle profile", 0>>} : bundle.profile # "nymrel-signal-proof-bundle"}
    \union {e \in {<<"bundleVersion", 0>>} : bundle.bundleVersion # "1.0.0"}

VersionError(r) == {e \in {<<"receipt version", 0>>} : r # Missing /\ r["version"] # "2.0.0"}

\* The core receipt with the disk, if that was asked for and all else was accepted.
CoreWithDisk(first, options, disk, accepted) ==
  IF ~options.checkFilesOnDisk THEN first
  ELSE IF accepted THEN verifyReceipt(first.receipt, options, disk)
  ELSE Skipped(first)

\* An envelope can be bound although its type or its mirror is wrong.
SignalReport(normal, admitted, errors, core) ==
  LET bound == admitted /\ <<"binding", 0>> \notin errors /\ core.errors = {}
      structural == bound /\ errors = {} /\ core.merkleValid /\ core.artifactsValid
      valid == structural /\ core.trusted
  IN  [valid |-> valid, structurallyValid |-> structural, profileValid |-> errors = {},
       envelopeBound |-> bound, signatureMode |-> SignatureMode(core), core |-> core,
       authoritative |-> IF valid THEN Authoritative(normal) ELSE NothingAuthoritative,
       doesNotProve |-> deriveDoesNotProve(IF valid THEN deriveEstablishedScopes(normal) ELSE {})]

AfterBinding(normal, admitted, errors, first, options, disk) ==
  SignalReport(normal, admitted, errors,
               CoreWithDisk(first, options, disk, admitted /\ errors = {}))

\* The binding is looked at only if nothing is wrong with the bundle or its core.
AfterCore(normal, wrong, first, options, disk) ==
  LET admitted == wrong = {} /\ first.valid /\ first.merkleValid
  IN  AfterBinding(normal, admitted, IF admitted THEN BindingErrors(first.receipt, normal) ELSE wrong,
                   first, options, disk)

SignalVerdict(bundle, options, disk) ==
  LET first == verifyReceipt(bundle.receipt, [options EXCEPT !.checkFilesOnDisk = FALSE], disk)
  IN  AfterCore(cloneAndNormalizeEnvelope(bundle.envelope),
                BundleErrors(bundle) \union VersionError(first.receipt), first, options, disk)

verifySignalProofBundle(bundle, options, disk) ==
  IF SnapshotThrows(bundle) THEN failedSignalProofVerification
  ELSE SignalVerdict(bundle, options, disk)
=============================================================================
