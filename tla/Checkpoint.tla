------------------------------ MODULE Checkpoint ------------------------------
(***************************************************************************)
(* The external checkpoint profile (src/profiles/checkpoint.ts) at work:   *)
(* checkpoints of a ledger are signed and kept outside it, the operator    *)
(* revises the bundle of trusted keys, and verifyCheckpoint() compares a   *)
(* pinned checkpoint with the ledger, which grows, is restored from an     *)
(* older copy, goes on differently from there, or starts anew, before and  *)
(* while the verifier waits for its answer. The ledger is an engine of     *)
(* prototypes/agent-work. Protocol, version and id of a source are one     *)
(* value here, sourceId; the exit code of a task goes with its status.     *)
(* Texts that parse() refuses (duplicate names, too deep, too long, no     *)
(* JSON, numbers out of range, lone surrogates) are Garbage.               *)
(***************************************************************************)
EXTENDS SequencesExt, Receipt

CONSTANTS
  Genesis,     \* of the ledger's successive epochs
  Events,
  Elsewhere,   \* another source
  Orders,      \* what receipts around a checkpoint are asked for
  Retentions,  \* the orders that are those of the profile
  Policies,    \* by key, the states that the operator publishes together
  Adapters,
  CheckpointAlternatives, ReceiptAlternatives, TrustAlternatives,  \* values for some fields
  MaxEvents, MaxReceipts, MaxMishaps,   \* bounds
  MaxDocuments   \* on receipts and trust bundles together

IsLedger(of) ==
  /\ of = [sourceId |-> of.sourceId, genesis |-> of.genesis, records |-> of.records]
  /\ Len(of.records) \in Nat /\ of.records = [n \in 1 .. Len(of.records) |-> of.records[n]]

ASSUME SourcesAssumption ==
  IsLedger(Elsewhere) /\ Adapters \subseteq {"engine", "counting", "elsewhere", "invalid"}

OrderFields == {"name", "status", "artifacts", "metadata", "mirror", "signingKey", "keyId",
                "signerIdentity", "algorithm"}

\* What the profile asks of the receipt of a checkpoint, and the keeper of the key.
IsRetention(order) ==
  /\ order.name = "Retain external checkpoint" /\ order.status = "ATTESTED"
  /\ order.metadata.type = "object" /\ DOMAIN order.metadata.members = {} /\ order.mirror = Missing
  /\ order.algorithm = "Ed25519" /\ order.signerIdentity = "keeper" /\ order.keyId = order.signingKey[2]
  /\ Len(order.artifacts) = 1 /\ RelativePath(order.artifacts[1].path) = "checkpoint.json"
  /\ order.artifacts[1].mimeType = "application/json"

\* Orders are of the type CreateReceiptOptions, and keepers sign nothing that looks like the
\* receipt of a checkpoint but to retain it.
ASSUME OrdersAssumption ==
  \A order \in Orders :
    /\ OrderFields \subseteq DOMAIN order
    /\ order.metadata \in Values
    /\ Len(order.artifacts) \in Nat
    /\ order.artifacts = [at \in 1 .. Len(order.artifacts) |-> order.artifacts[at]]
    /\ IsRetention(order) => order \in Retentions

\* No change forges a signature, and an object or a list is changed to something that is none,
\* or leaves to other leaves.
ASSUME AlternativesAssumption ==
  \A path \in DOMAIN ReceiptAlternatives : \A value \in ReceiptAlternatives[path] :
    /\ path \in {"task", "environment", "merkle", "signature", "artifacts"} => value \in {Missing, Garbage}
    /\ path = "metadata" => value \in Values \union {Missing, Garbage}
    /\ path = "merkle.leaves" =>
         \/ value \in {Missing, Garbage}
         \/ Len(value) \in Nat /\ value = [at \in 1 .. Len(value) |-> value[at]]
    /\ path = "signature.value" =>
         \/ value \in {Missing, Garbage, Blank}
         \/ value[1] \in SignatureAlgorithms /\ value = <<value[1], value[2], <<"another payload">>>>

VARIABLES
  source,    \* the ledger: [sourceId, genesis, records]
  mishaps,   \* how often the ledger lost a record or started anew
  retained,  \* the signed checkpoints: [checkpoint, order, at], the receipt follows
  trusts,    \* the revisions of the trust bundle
  call       \* the verification, when the caller has asked for it

vars == <<source, mishaps, retained, trusts, call>>
-----------------------------------------------------------------------------
ChainHash(of, count) == <<"chain", of.genesis, SubSeq(of.records, 1, count)>>

checkpointSource(of) == [sourceId |-> of.sourceId, sourceEpochDigest |-> ChainHash(of, 0)]

Observation(of, prefixHash) ==
  [status |-> "VALID", sourceId |-> of.sourceId, sourceEpochDigest |-> ChainHash(of, 0),
   eventCount |-> Len(of.records), prefixHash |-> prefixHash]

\* Mutant: the hash of the whole chain for that of the prefix.
HeadForPrefix(of, eventCount) ==
  IF eventCount > Len(of.records) THEN Throws
  ELSE Observation(of, ChainHash(of, Len(of.records)))

observePrefix(of, eventCount) ==
  IF eventCount > Len(of.records) THEN Throws ELSE Observation(of, ChainHash(of, eventCount))

\* What adapters answer: the engine's own, one that tells the number of events when it has
\* no such prefix, one of another source, and one whose source is broken.
LooksAt(adapter) == IF adapter = "elsewhere" THEN Elsewhere ELSE source

Answer(adapter, of, eventCount) ==
  CASE adapter \in {"engine", "elsewhere"} -> observePrefix(of, eventCount)
    [] adapter = "counting" ->
         Observation(of, IF eventCount > Len(of.records) THEN Missing ELSE ChainHash(of, eventCount))
    [] adapter = "invalid" -> [status |-> "INVALID"]
-----------------------------------------------------------------------------
digest(x) == x \notin {Missing, Garbage, Blank}
id(x) == digest(x)
integer(x, min) == x \notin {Missing, Garbage} /\ x >= min

CheckpointFields == {"schema", "version", "sourceId", "highestSequence", "eventCount",
                     "chainHeadOrStateHash", "sourceEpochDigest", "checkpointId",
                     "signerIdentity", "keyId"}

checkpoint(c) ==
  /\ c # Garbage
  /\ DOMAIN c = CheckpointFields
  /\ c.schema = "nymrel.checkpoint" /\ c.version = "0.1.0"
  /\ id(c.sourceId) /\ id(c.checkpointId) /\ id(c.signerIdentity) /\ id(c.keyId)
  /\ integer(c.eventCount, 0)
  /\ c.highestSequence = IF c.eventCount = 0 THEN Missing ELSE c.eventCount - 1
  /\ digest(c.chainHeadOrStateHash) /\ digest(c.sourceEpochDigest)

trust(t) ==
  /\ t # Garbage
  /\ t.schema = "nymrel.checkpoint-trust-bundle" /\ t.version = "0.1.0"
  /\ id(t.bundleId) /\ integer(t.revision, 1) /\ t.keys # << >>
  /\ \A k \in DOMAIN t.keys :
       LET key == t.keys[k]
       IN  /\ id(key.signerIdentity) /\ id(key.keyId) /\ key.algorithm = "Ed25519"
           /\ key.publicKey[1] \in {"hex", "public"}   \* 32 bytes
           /\ key.state \in {"ACTIVE", "SUPERSEDED", "REVOKED"}
           /\ key.state # "SUPERSEDED" => key.historicalCheckpointDigests = {}
           /\ \A l \in 1 .. k - 1 :
                /\ <<t.keys[l].signerIdentity, t.keys[l].keyId>> # <<key.signerIdentity, key.keyId>>
                /\ t.keys[l].publicKey # key.publicKey

canonicalHash(kind, value) == <<"sha256", <<kind, value>>>>
CheckpointHash(c) == canonicalHash("checkpoint", c)
TrustHash(t) == canonicalHash("trust bundle", t)
Pin(t) == [bundleId |-> t.bundleId, revision |-> t.revision, sha256 |-> TrustHash(t)]

\* The options are read once, before anything is awaited; Garbage are those with other
\* properties than the four, with accessors, or whose objects are no plain JSON.
OptionsValid(o) ==
  /\ o.bundlePin # Garbage /\ id(o.bundlePin.bundleId) /\ integer(o.bundlePin.revision, 1)
  /\ digest(o.bundlePin.sha256) /\ digest(o.checkpointPin)
  /\ o.source # Garbage /\ id(o.source.sourceId) /\ digest(o.source.sourceEpochDigest)
  /\ o.adapter # Garbage

UnsupportedVersion(document, schema) ==
  document # Garbage /\ document.schema = schema /\ document.version # "0.1.0"

Admission(b, t, o) ==
  IF o = Garbage \/ b = Garbage \/ t = Garbage THEN "MALFORMED_PROFILE"
  ELSE IF UnsupportedVersion(b.checkpoint, "nymrel.checkpoint")
            \/ UnsupportedVersion(t, "nymrel.checkpoint-trust-bundle") THEN "UNSUPPORTED_VERSION"
  ELSE IF ~checkpoint(b.checkpoint) \/ ~trust(t) \/ ~OptionsValid(o) THEN "MALFORMED_PROFILE"
  ELSE IF o.bundlePin # Pin(t) THEN "TRUST_BUNDLE_PIN_MISMATCH"
  ELSE IF o.checkpointPin # CheckpointHash(b.checkpoint) THEN "CHECKPOINT_PIN_MISMATCH"
  ELSE LET c == b.checkpoint
           r == b.receipt
       IN  IF r = Garbage \/ r["version"] # "2.0.0" THEN "MALFORMED_PROFILE"
           ELSE IF \/ r["task"] # "object" \/ r["task.name"] # "Retain external checkpoint"
                   \/ r["task.status"] # "ATTESTED"
                   \/ r["metadata"].type # "object" \/ DOMAIN r["metadata"].members # {}
                   \/ r["metadata.signalProfile"] # Missing
                THEN "RECEIPT_PROFILE_MISMATCH"
           ELSE IF \/ r["signature"] # "object" \/ r["signature.algorithm"] # "Ed25519"
                   \/ r["signature.signerIdentity"] # c.signerIdentity
                   \/ r["signature.keyId"] # c.keyId
                THEN "MALFORMED_PROFILE"
           ELSE "PASS"

KeysOf(t, c) ==
  {t.keys[k] : k \in {k \in DOMAIN t.keys : /\ t.keys[k].signerIdentity = c.signerIdentity
                                             /\ t.keys[k].keyId = c.keyId}}

KeyOf(t, c) == CHOOSE key \in KeysOf(t, c) : TRUE

\* Mutant: the checkpoints of a superseded key are admitted, listed or not.
AnyHistorical(t, c, checkpointPin) ==
  IF KeysOf(t, c) = {} THEN "UNKNOWN_KEY"
  ELSE LET key == KeyOf(t, c)
       IN  CASE key.state = "REVOKED" -> "REVOKED_KEY"
             [] key.state = "SUPERSEDED" -> "HISTORICAL_SUPERSEDED_ALLOWED"
             [] OTHER -> "ACTIVE"

KeyPolicy(t, c, checkpointPin) ==
  IF KeysOf(t, c) = {} THEN "UNKNOWN_KEY"
  ELSE LET key == KeyOf(t, c)
       IN  CASE key.state = "REVOKED" -> "REVOKED_KEY"
             [] key.state = "SUPERSEDED" ->
                  IF checkpointPin \in key.historicalCheckpointDigests
                  THEN "HISTORICAL_SUPERSEDED_ALLOWED" ELSE "SUPERSEDED_NOT_ADMITTED"
             [] OTHER -> "ACTIVE"

Authenticated(verified) ==
  IF verified.signatureValid = FALSE THEN "INVALID_SIGNATURE"
  ELSE IF verified.valid /\ verified.trusted /\ verified.signatureChecked THEN "PASS"
  ELSE "RECEIPT_INTEGRITY_FAILURE"

Authentication(r, key) ==
  Authenticated(verifyReceipt(r, [publicKeyOrSecret |-> key.publicKey, expectedAlgorithm |-> "Ed25519",
                                  checkFilesOnDisk |-> FALSE], << >>))

Binding(r, c) ==
  IF r["artifacts"] = <<[path |-> "checkpoint.json", sha256 |-> CheckpointHash(c),
                         sizeBytes |-> <<"bytes", <<"checkpoint", c>>>>,
                         mimeType |-> "application/json"]>>
  THEN "PASS" ELSE "CHECKPOINT_BINDING_MISMATCH"

\* The first disagreement of two descriptions of a source.
Identity(one, other) ==
  IF one.sourceId # other.sourceId THEN "SOURCE_IDENTITY_MISMATCH"
  ELSE IF one.sourceEpochDigest # other.sourceEpochDigest THEN "SOURCE_EPOCH_MISMATCH"
  ELSE "PASS"

Comparison(c, expected, obs) ==
  IF obs = Throws \/ obs.status = "UNAVAILABLE" THEN "SOURCE_UNAVAILABLE"
  ELSE IF obs.status # "VALID" \/ ~integer(obs.eventCount, 0) THEN "SOURCE_INVALID"
  ELSE IF Identity(obs, expected) # "PASS" THEN Identity(obs, expected)
  ELSE IF obs.eventCount < c.eventCount THEN "TRUNCATED_RELATIVE_TO_CHECKPOINT"
  ELSE IF ~digest(obs.prefixHash) THEN "SOURCE_UNAVAILABLE"
  ELSE IF obs.prefixHash # c.chainHeadOrStateHash THEN "STATE_MISMATCH"
  ELSE IF obs.eventCount = c.eventCount THEN "CHECKPOINT_MATCH" ELSE "CHECKPOINT_PREFIX_MATCH"
-----------------------------------------------------------------------------
NotChecked ==
  [accepted |-> FALSE, admission |-> "NOT_CHECKED", keyPolicy |-> "NOT_CHECKED",
   authentication |-> "NOT_CHECKED", binding |-> "NOT_CHECKED",
   sourceComparison |-> "NOT_CHECKED", suffixCount |-> Missing]

\* `seen' is the source that the adapter looked at, and when it did.
Idle == [stage |-> "idle", checkpoint |-> Missing, options |-> Missing,
         result |-> NotChecked, observation |-> Missing, seen |-> Missing]

Init ==
  /\ source = [sourceId |-> "simulation", genesis |-> CHOOSE g \in Genesis : TRUE, records |-> << >>]
  /\ mishaps = 0
  /\ retained = << >>
  /\ trusts = << >>
  /\ call = Idle

\* The verifier keeps nothing between calls: a behaviour ends with the one it makes.
Going == call.stage # "done"

Room == Len(retained) + Len(trusts) < MaxDocuments

Record(event) ==
  /\ Going /\ Len(source.records) < MaxEvents
  /\ source' = [source EXCEPT !.records = Append(@, event)]
  /\ UNCHANGED <<mishaps, retained, trusts, call>>

Mishap == Going /\ mishaps < MaxMishaps /\ mishaps' = mishaps + 1 /\ UNCHANGED <<retained, trusts, call>>

LoseRecord ==
  /\ source.records # << >>
  /\ source' = [source EXCEPT !.records = Front(@)]
  /\ Mishap

StartAnew(genesis) ==
  /\ genesis # source.genesis
  /\ source' = [source EXCEPT !.genesis = genesis, !.records = << >>]
  /\ Mishap

CheckpointIds == <<"c1", "c2", "c3">>

CheckpointOf(of, key) ==
  [schema |-> "nymrel.checkpoint", version |-> "0.1.0", checkpointId |-> CheckpointIds[Len(retained) + 1],
   highestSequence |-> IF of.records = << >> THEN Missing ELSE Len(of.records) - 1,
   eventCount |-> Len(of.records), chainHeadOrStateHash |-> ChainHash(of, Len(of.records)),
   signerIdentity |-> "keeper", keyId |-> key[2],
   sourceId |-> of.sourceId, sourceEpochDigest |-> ChainHash(of, 0)]

\* The keepers of keys sign checkpoints, and other receipts that contain one.
Filled(order, c) ==
  [order EXCEPT !.artifacts = [at \in DOMAIN order.artifacts |->
                                 [path |-> order.artifacts[at].path, data |-> <<"checkpoint", c>>,
                                  mimeType |-> order.artifacts[at].mimeType]]]

SignedReceiptOf(entry) == createReceipt(Filled(entry.order, entry.checkpoint), "prf_1", << >>)

Retain(order) ==
  LET entry == [checkpoint |-> CheckpointOf(source, order.signingKey), order |-> order, at |-> source]
  IN  /\ Going /\ Room /\ Len(retained) < MaxReceipts
      /\ SignedReceiptOf(entry) # Throws
      /\ retained' = Append(retained, entry)
      /\ UNCHANGED <<source, mishaps, trusts, call>>

\* The operator lists checkpoints of a key that is superseded, and may forget some.
Publish(policy, listed) ==
  LET entry(key) == [signerIdentity |-> "keeper", keyId |-> key[2], algorithm |-> "Ed25519",
                     publicKey |-> PublicKey(key), state |-> policy[key],
                     historicalCheckpointDigests |-> IF policy[key] = "SUPERSEDED" THEN listed ELSE {}]
      keys == SetToSeq(DOMAIN policy)
  IN  /\ Going /\ Room
      /\ trusts' = Append(trusts, [schema |-> "nymrel.checkpoint-trust-bundle", version |-> "0.1.0",
                                   bundleId |-> "bundle", revision |-> Len(trusts) + 1,
                                   keys |-> [k \in DOMAIN keys |-> entry(keys[k])]])
      /\ UNCHANGED <<source, mishaps, retained, call>>
-----------------------------------------------------------------------------
\* What a caller passes who has retained[i], trusts[j] and their pins in order.
InOrder(i, j, adapter) ==
  [bundle |-> [checkpoint |-> retained[i].checkpoint, receipt |-> SignedReceiptOf(retained[i])],
   trust |-> trusts[j],
   options |-> [bundlePin |-> Pin(trusts[j]), checkpointPin |-> CheckpointHash(retained[i].checkpoint),
                source |-> checkpointSource(retained[i].at), adapter |-> adapter]]

\* The values that a document has with one field changed.
Changes(document, alternatives) ==
  {[field \in DOMAIN document |-> IF field = change[1] THEN change[2] ELSE document[field]] :
     change \in UNION {{name} \X alternatives[name] : name \in DOMAIN alternatives}}

\* What is passed when one part is another one's, damaged or changed.
Disordered(args) ==
  LET c == args.bundle.checkpoint
      checkpoints == Changes(c, CheckpointAlternatives)
      receipts == Changes(args.bundle.receipt, ReceiptAlternatives)
                    \union {SignedReceiptOf(retained[k]) : k \in DOMAIN retained} \union {Garbage}
      bundles == {[args.bundle EXCEPT !.checkpoint = other] : other \in checkpoints \union {Garbage}}
                   \union {[args.bundle EXCEPT !.receipt = other] : other \in receipts}
                   \union {Garbage}
      repeated == [args.trust EXCEPT !.keys = Append(@, Last(@))]
      trustBundles == Changes(args.trust, TrustAlternatives) \union ToSet(trusts)
                        \union {repeated, Garbage}
      sources == {checkpointSource(retained[k].at) : k \in DOMAIN retained} \union {Garbage}
      options == {[args.options EXCEPT !.source = other] : other \in sources}
                   \union {[args.options EXCEPT !.checkpointPin = Garbage],
                           [args.options EXCEPT !.bundlePin = Garbage], Garbage}
  IN  {[args EXCEPT !.bundle = other] : other \in bundles}
        \union {[args EXCEPT !.trust = other] : other \in trustBundles}
        \union {[args EXCEPT !.options = other] : other \in options}
        \union {[args EXCEPT !.bundle = [args.bundle EXCEPT !.checkpoint = other],
                             !.options = [args.options EXCEPT !.checkpointPin = CheckpointHash(other)]] :
                  other \in checkpoints}

Ends(result) == call' = [Idle EXCEPT !.stage = "done", !.result = result]

\* The parts of a verdict in the order in which they are found.
Stages(admission, policy, authentication, binding, identity, c, o) ==
  LET admitted == [NotChecked EXCEPT !.admission = admission]
      allowed == [admitted EXCEPT !.keyPolicy = policy]
      authenticated == [allowed EXCEPT !.authentication = authentication]
      bound == [authenticated EXCEPT !.binding = binding]
  IN  IF admission # "PASS" THEN Ends(admitted)
      ELSE IF policy \notin {"ACTIVE", "HISTORICAL_SUPERSEDED_ALLOWED"} THEN Ends(allowed)
      ELSE IF authentication # "PASS" THEN Ends(authenticated)
      ELSE IF binding # "PASS" THEN Ends(bound)
      ELSE IF identity # "PASS" THEN Ends([bound EXCEPT !.sourceComparison = identity])
      ELSE call' = [Idle EXCEPT !.stage = "asked", !.checkpoint = c, !.options = o, !.result = bound]

\* verifyCheckpoint() up to the call of the adapter. Its first await, for verifyReceipt()
\* without files, waits for nothing outside, and all that is used after it was copied before.
Call(b, t, o) ==
  /\ Stages(Admission(b, t, o), KeyPolicy(t, b.checkpoint, o.checkpointPin),
            Authentication(b.receipt, KeyOf(t, b.checkpoint)),
            Binding(b.receipt, b.checkpoint), Identity(b.checkpoint, o.source), b.checkpoint, o)
  /\ UNCHANGED <<source, mishaps, retained, trusts>>

\* The adapter looks at its source some time later, and its answer arrives later still.
Observe ==
  /\ call.stage = "asked"
  /\ call' = [call EXCEPT !.stage = "answered",
                          !.observation = Answer(call.options.adapter, LooksAt(call.options.adapter),
                                                 call.checkpoint.eventCount),
                          !.seen = LooksAt(call.options.adapter)]
  /\ UNCHANGED <<source, mishaps, retained, trusts>>

Conclude ==
  LET c == call.checkpoint
      comparison == Comparison(c, call.options.source, call.observation)
      accepted == comparison \in {"CHECKPOINT_MATCH", "CHECKPOINT_PREFIX_MATCH"}
  IN  /\ call.stage = "answered"
      /\ call' = [call EXCEPT
           !.stage = "done",
           !.result = [@ EXCEPT !.sourceComparison = comparison, !.accepted = accepted,
                                !.suffixCount = IF accepted THEN call.observation.eventCount - c.eventCount
                                                ELSE Missing]]
      /\ UNCHANGED <<source, mishaps, retained, trusts>>

Next ==
  \/ \E event \in Events : Record(event)
  \/ LoseRecord
  \/ \E genesis \in Genesis : StartAnew(genesis)
  \/ \E order \in Orders : Retain(order)
  \/ \E policy \in Policies :
       \E listed \in SUBSET {CheckpointHash(retained[i].checkpoint) : i \in DOMAIN retained} :
         Publish(policy, listed)
  \/ /\ call.stage = "idle"
     /\ \E i \in DOMAIN retained, j \in DOMAIN trusts :
          \E args \in {InOrder(i, j, adapter) : adapter \in Adapters}
                        \union Disordered(InOrder(i, j, "engine")) :
            Call(args.bundle, args.trust, args.options)
  \/ Observe
  \/ Conclude

Spec == Init /\ [][Next]_vars
-----------------------------------------------------------------------------
Kept == {i \in DOMAIN retained : /\ retained[i].order \in Retentions
                                 /\ retained[i].checkpoint = call.checkpoint}

\* The source is read for a caller only about the checkpoint the caller pinned, which a
\* keeper signed as a checkpoint, with a key that the revision of the trust bundle which
\* the caller pinned has as active or with this checkpoint on its list; so are acceptances,
\* whatever was published or signed meanwhile (checkpoint.ts 102-125, docs/CHECKPOINT_PROFILE.md).
SourceReadUnderPinnedPolicy ==
  call.stage \in {"asked", "answered"} \/ call.result.accepted =>
    \E i \in Kept, j \in DOMAIN trusts :
      /\ call.options.checkpointPin = CheckpointHash(retained[i].checkpoint)
      /\ call.options.bundlePin = Pin(trusts[j])
      /\ \E k \in DOMAIN trusts[j].keys :
           LET key == trusts[j].keys[k]
           IN  /\ key.publicKey = PublicKey(retained[i].order.signingKey)
               /\ \/ key.state = "ACTIVE"
                  \/ /\ key.state = "SUPERSEDED"
                     /\ call.options.checkpointPin \in key.historicalCheckpointDigests

Extends(later, earlier) ==
  /\ later.sourceId = earlier.sourceId /\ later.genesis = earlier.genesis
  /\ IsPrefix(earlier.records, later.records)

\* When a valid observation was compared, the checkpoint is accepted exactly if the source as
\* the adapter saw it still begins with all the records it had when the checkpoint was taken,
\* and the number of the others is reported (checkpoint.ts 126-136, engine.ts 434-443).
ComparisonIsExact ==
  call.stage = "done" /\ call.seen # Missing /\ call.options.adapter # "invalid" =>
    LET covered == {i \in Kept : Extends(call.seen, retained[i].at)}
    IN  /\ call.result.accepted <=> covered # {}
        /\ call.result.accepted =>
             \A i \in covered :
               call.result.suffixCount = Len(call.seen.records) - Len(retained[i].at.records)
=============================================================================
