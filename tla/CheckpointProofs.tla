-------------------------- MODULE CheckpointProofs --------------------------
(***************************************************************************)
(* Proofs about Checkpoint, for any ledgers, keys, policies and documents, *)
(* and any changes that do not forge a signature.                          *)
(***************************************************************************)
EXTENDS Checkpoint, ReceiptProofs

(***************************************************************************)
(* What is kept of a ledger.                                               *)
(***************************************************************************)
IsCheckpointOf(c, entry) ==
  /\ c.eventCount = Len(entry.at.records)
  /\ c.chainHeadOrStateHash = ChainHash(entry.at, Len(entry.at.records))
  /\ c.sourceId = entry.at.sourceId /\ c.sourceEpochDigest = ChainHash(entry.at, 0)
  /\ c.signerIdentity = "keeper" /\ c.keyId = entry.order.signingKey[2]

IsEntry(entry) ==
  /\ entry.order \in Orders /\ IsLedger(entry.at) /\ IsCheckpointOf(entry.checkpoint, entry)
  /\ SignedReceiptOf(entry) # Throws

\* What a signed receipt repeats of what was asked for.
Repeats(s, entry) ==
  /\ s["task.name"] = entry.order.name /\ s["task.status"] = entry.order.status
  /\ s["signature.algorithm"] = entry.order.algorithm /\ s["signature.keyId"] = entry.order.keyId
  /\ s["signature.signerIdentity"] = entry.order.signerIdentity
  /\ s["metadata"] = entry.order.metadata /\ s["metadata.signalProfile"] = entry.order.mirror
  /\ s["signature.value"] = signPayload(signingPayload(s), entry.order.signingKey, entry.order.algorithm)
  /\ s["signature.value"] # Throws

ItemFor(item, c) ==
  [path |-> RelativePath(item.path), sha256 |-> <<"sha256", <<"checkpoint", c>>>>,
   sizeBytes |-> <<"bytes", <<"checkpoint", c>>>>, mimeType |-> item.mimeType]

LEMMA FilledOrders ==
  ASSUME NEW order \in Orders, NEW c
  PROVE  LET filled == Filled(order, c)
         IN  /\ \A field \in OrderFields \ {"artifacts"} : filled[field] = order[field]
             /\ IsList(filled.artifacts) /\ Len(filled.artifacts) = Len(order.artifacts)
             /\ \A at \in 1 .. Len(order.artifacts) :
                  filled.artifacts[at] = [path |-> order.artifacts[at].path, data |-> <<"checkpoint", c>>,
                                          mimeType |-> order.artifacts[at].mimeType]
<1> DEFINE n == Len(order.artifacts)
           list == [at \in DOMAIN order.artifacts |->
                      [path |-> order.artifacts[at].path, data |-> <<"checkpoint", c>>,
                       mimeType |-> order.artifacts[at].mimeType]]
           filled == [order EXCEPT !.artifacts = list]
<1>1. OrderFields \subseteq DOMAIN order /\ n \in Nat /\ DOMAIN order.artifacts = 1 .. n
  BY OrdersAssumption
<1>2. /\ \A at \in 1 .. n : list[at] = [path |-> order.artifacts[at].path, data |-> <<"checkpoint", c>>,
                                         mimeType |-> order.artifacts[at].mimeType]
      /\ list = [at \in 1 .. n |-> list[at]]
  BY <1>1
<1>3. Filled(order, c) = filled
  BY DEF Filled
<1> HIDE DEF list
<1>4. Len(list) = n /\ IsList(list)
  BY <1>1, <1>2, Lists DEF IsList
<1>5. /\ filled.artifacts = list
      /\ \A field \in OrderFields \ {"artifacts"} : filled[field] = order[field]
  BY <1>1 DEF OrderFields
<1> HIDE DEF n, filled
<1> QED
  BY <1>2, <1>3, <1>4, <1>5 DEF n

\* The receipts that keepers make are signed, and say what was asked for.
LEMMA RetainedReceipts ==
  ASSUME MarksStandApart, NEW entry, IsEntry(entry), NEW s, s = SignedReceiptOf(entry)
  PROVE  /\ IsSigned(s) /\ s["version"] = "2.0.0" /\ Repeats(s, entry)
         /\ Len(s["artifacts"]) = Len(entry.order.artifacts)
         /\ \A at \in 1 .. Len(entry.order.artifacts) :
              s["artifacts"][at] = ItemFor(entry.order.artifacts[at], entry.checkpoint)
<1> DEFINE order == entry.order
           c == entry.checkpoint
           filled == Filled(order, c)
           artifacts == HashedArtifacts(filled, << >>)
           header == Header(filled, artifacts, "2.0.0", "prf_1")
           n == Len(order.artifacts)
<1>1. order \in Orders /\ order.metadata \in Values /\ s # Throws /\ n \in Nat
  BY OrdersAssumption DEF IsEntry
<1>2. /\ \A field \in OrderFields \ {"artifacts"} : filled[field] = order[field]
      /\ IsList(filled.artifacts) /\ Len(filled.artifacts) = n
      /\ \A at \in 1 .. n :
           filled.artifacts[at] = [path |-> order.artifacts[at].path, data |-> <<"checkpoint", c>>,
                                   mimeType |-> order.artifacts[at].mimeType]
  BY <1>1, FilledOrders
<1>3. s = createReceipt(filled, "prf_1", << >>)
  BY DEF SignedReceiptOf
<1> HIDE DEF order, c
<1>4. ~AnyThrows(artifacts) /\ s = SignedReceipt(header, filled.signingKey)
  BY <1>1, <1>3 DEF createReceipt
<1>5. /\ filled.name = order.name /\ filled.status = order.status /\ filled.metadata = order.metadata
      /\ filled.mirror = order.mirror /\ filled.signingKey = order.signingKey
      /\ filled.keyId = order.keyId /\ filled.signerIdentity = order.signerIdentity
      /\ filled.algorithm = order.algorithm
  BY <1>2 DEF OrderFields
<1>6. IsList(filled.artifacts) /\ filled.metadata \in Values
  BY <1>1, <1>2, <1>5
<1>7. \A at \in 1 .. n : artifacts[at] = ItemFor(order.artifacts[at], c)
  <2> SUFFICES ASSUME NEW at \in 1 .. n PROVE artifacts[at] = ItemFor(order.artifacts[at], c)
    OBVIOUS
  <2>1. IsList(<<"checkpoint", c>>)
    BY TuplesAreLists
  <2>2. <<"checkpoint", c>> # Missing
    BY <2>1, ValuesStandApart DEF Marks
  <2>3. at \in DOMAIN filled.artifacts
    BY <1>1, <1>2 DEF IsList
  <2>4. artifacts[at] = hashArtifact(filled.artifacts[at], << >>)
    BY <2>3 DEF HashedArtifacts
  <2> HIDE DEF filled, artifacts
  <2>5. hashArtifact(filled.artifacts[at], << >>) = ItemFor(order.artifacts[at], c)
    <3> DEFINE item == order.artifacts[at]
               data == <<"checkpoint", c>>
               given == filled.artifacts[at]
    <3>1. given = [path |-> item.path, data |-> data, mimeType |-> item.mimeType] /\ data # Missing
      BY <1>2, <2>2
    <3>2. ItemFor(item, c) = [path |-> RelativePath(item.path), sha256 |-> <<"sha256", data>>,
                              sizeBytes |-> <<"bytes", data>>, mimeType |-> item.mimeType]
      BY DEF ItemFor
    <3> HIDE DEF item, data, given
    <3>3. given.path = item.path /\ given.data = data /\ given.mimeType = item.mimeType
      BY <3>1
    <3>4. hashArtifact(given, << >>) = ItemFor(item, c)
      BY <3>1, <3>2, <3>3 DEF hashArtifact
    <3> QED
      BY <3>4 DEF item, given
  <2> QED
    BY <2>4, <2>5
<1> HIDE DEF filled
<1>8. IsReceipt(header)
  BY ZenonT(60) DEF IsReceipt, Header
<1>9. /\ header["task.name"] = filled.name /\ header["task.status"] = filled.status
      /\ header["signature.algorithm"] = filled.algorithm /\ header["signature.keyId"] = filled.keyId
      /\ header["signature.signerIdentity"] = filled.signerIdentity
      /\ header["metadata"] = filled.metadata /\ header["metadata.signalProfile"] = filled.mirror
  BY FieldsOfReceipts DEF Header
<1>10. /\ IsSigned(s) /\ s["artifacts"] = artifacts /\ s["version"] = "2.0.0"
  <2>1. "2.0.0" \in Supported
    BY DEF Supported
  <2> QED
    BY <1>1, <1>4, <1>6, <2>1, OrdersAreSigned
<1> HIDE DEF header
<1>11. /\ \A path \in ReceiptFields \ Computed : s[path] = header[path]
       /\ s["signature.value"] = signPayload(signingPayload(s), filled.signingKey, s["signature.algorithm"])
       /\ s["signature.value"] # Throws
  BY <1>1, <1>4, <1>8, SignedReceipts
<1>12. Repeats(s, entry)
  BY <1>5, <1>9, <1>11, FieldsOfReceipts DEF Repeats, order
<1>13. Len(artifacts) = n
  <2>1. DOMAIN filled.artifacts = 1 .. n
    BY <1>2 DEF IsList
  <2>2. artifacts = [at \in 1 .. n |-> hashArtifact(filled.artifacts[at], << >>)]
    BY <2>1 DEF HashedArtifacts
  <2>3. artifacts = [at \in 1 .. n |-> artifacts[at]]
    BY <2>2
  <2> HIDE DEF artifacts
  <2> QED
    BY <1>1, <2>3, Lists
<1> QED
  BY <1>7, <1>10, <1>12, <1>13 DEF order, c

(***************************************************************************)
(* What a caller may pass as a receipt.                                    *)
(***************************************************************************)
LEMMA PayloadsAreMarked ==
  ASSUME NEW r, signingPayload(r) # Throws
  PROVE  signingPayload(r)[1] = "payload"
BY DEF signingPayload, CanonicalPayload

LEMMA NoOtherPayload ==
  ASSUME NEW r, NEW options, Accepted(r, options)
  PROVE  ~(/\ r["signature.value"][1] \in SignatureAlgorithms
           /\ r["signature.value"] = <<r["signature.value"][1], r["signature.value"][2], <<"another payload">>>>)
<1> DEFINE value == r["signature.value"]
           key == verifyingKey(options.publicKeyOrSecret, r["signature.algorithm"])
           payload == signingPayload(r)
<1> SUFFICES ASSUME value[1] \in SignatureAlgorithms,
                    value = <<value[1], value[2], <<"another payload">>>>
             PROVE  FALSE
  OBVIOUS
<1>1. toLowerCase(value) = <<r["signature.algorithm"], key, payload>>
  BY DEF Accepted, SignatureValid, verifySignature
<1>2. payload # Throws
  BY DEF Accepted, SignatureValid, verifySignature
<1>3. payload[1] = "payload"
  BY <1>2, PayloadsAreMarked
<1> HIDE DEF value, key, payload
<1>4. toLowerCase(value) = value
  BY DEF toLowerCase, SignatureAlgorithms
<1>5. <<value[1], value[2], <<"another payload">>>> =
        <<r["signature.algorithm"], key, payload>>
  BY <1>1, <1>4
<1>6. \A a, b, c, d, e, f : <<a, b, c>> = <<d, e, f>> => c = f
  OBVIOUS
<1>7. payload = <<"another payload">>
  BY <1>5, <1>6
<1>8. <<"another payload">>[1] = "another payload"
  OBVIOUS
<1> QED
  BY <1>3, <1>7, <1>8

\* Of a signed receipt in which one field was changed, what is accepted has its signature.
LEMMA ChangedReceipts ==
  ASSUME NEW s, IsSigned(s), NEW r \in Changes(s, ReceiptAlternatives), NEW options, Accepted(r, options)
  PROVE  IsFormed(r) /\ toLowerCase(r["signature.value"]) = s["signature.value"]
<1>0. PICK name \in DOMAIN ReceiptAlternatives :
        \E value \in ReceiptAlternatives[name] :
          r = [path \in DOMAIN s |-> IF path = name THEN value ELSE s[path]]
  BY DEF Changes
<1>1. PICK value \in ReceiptAlternatives[name] :
        r = [path \in DOMAIN s |-> IF path = name THEN value ELSE s[path]]
  BY <1>0
<1>2. /\ IsReceipt(s) /\ IsFormed(s) /\ DOMAIN s = ReceiptFields
      /\ toLowerCase(s["signature.value"]) = s["signature.value"]
  BY SignedIsFormed, SignatureValues DEF IsSigned, IsReceipt, Lower
<1>3. \A path \in ReceiptFields : r[path] = IF path = name THEN value ELSE s[path]
  BY <1>1, <1>2
<1>4. IsReceipt(r)
  BY <1>1, <1>2 DEF IsReceipt
<1>5. \A path \in ReceiptFields : FieldFits(path, s[path])
  BY <1>2, FormedFieldsFit
<1>6. "signature.value" \in ReceiptFields
  BY DEF ReceiptFields, SignatureFields
<1>7. CASE name \notin ReceiptFields
  <2>1. \A path \in ReceiptFields : r[path] = s[path]
    BY <1>3, <1>7
  <2> QED
    BY <1>2, <1>4, <1>5, <1>6, <2>1, FormedFieldsFit
<1>8. CASE name \in ReceiptFields
  <2>1. r[name] = value
    BY <1>3, <1>8
  <2>2. ValidReceipt(r)
    BY ValidReceipts DEF Accepted
  <2>3. name # "signature.value"
    <3> SUFFICES ASSUME name = "signature.value" PROVE FALSE
      OBVIOUS
    <3>1. value \notin Marks
      BY <2>1, <2>2, FieldNotValid
    <3>2. value[1] \in SignatureAlgorithms /\ value = <<value[1], value[2], <<"another payload">>>>
      BY <3>1, AlternativesAssumption DEF Marks
    <3> QED
      BY <2>1, <3>2, NoOtherPayload
  <2>4. name \notin Objects \union {"artifacts"}
    <3> SUFFICES ASSUME name \in Objects \union {"artifacts"} PROVE FALSE
      OBVIOUS
    <3>1. value \in {Missing, Garbage}
      BY AlternativesAssumption DEF Objects
    <3> QED
      BY <2>1, <2>2, <3>1, FieldNotValid
  <2>5. name = "metadata" => value \in Values
    <3> SUFFICES ASSUME name = "metadata" PROVE value \in Values
      OBVIOUS
    <3>1. value \in Values \union {Missing, Garbage}
      BY AlternativesAssumption
    <3> QED
      BY <2>1, <2>2, <3>1, FieldNotValid
  <2>6. name = "merkle.leaves" => IsList(value)
    <3> SUFFICES ASSUME name = "merkle.leaves" PROVE IsList(value)
      OBVIOUS
    <3>1. value \in {Missing, Garbage} \/ IsList(value)
      BY AlternativesAssumption DEF IsList
    <3> QED
      BY <2>1, <2>2, <3>1, FieldNotValid
  <2>7. FieldFits(name, value)
    BY <2>4, <2>5, <2>6 DEF FieldFits
  <2>8. \A path \in ReceiptFields : FieldFits(path, r[path])
    BY <1>3, <1>5, <2>7
  <2>9. r["signature.value"] = s["signature.value"]
    BY <1>3, <1>6, <2>3
  <2> QED
    BY <1>2, <1>4, <2>8, <2>9, FormedFieldsFit
<1> QED
  BY <1>7, <1>8

ReceiptsPassed(i) ==
  {SignedReceiptOf(retained[k]) : k \in DOMAIN retained}
    \union Changes(SignedReceiptOf(retained[i]), ReceiptAlternatives)

\* Whatever receipt is passed, one that verifyReceipt() accepts says what a keeper signed with
\* the key that it was verified with.
LEMMA AcceptedReceiptsWereSigned ==
  ASSUME MarksStandApart, \A k \in DOMAIN retained : IsEntry(retained[k]),
         NEW i \in DOMAIN retained, NEW r \in ReceiptsPassed(i), NEW options, Accepted(r, options)
  PROVE  \E k \in DOMAIN retained :
           LET s == SignedReceiptOf(retained[k])
           IN  /\ IsSigned(s) /\ \A path \in ReceiptFields \ InEitherCase : r[path] = s[path]
               /\ s["signature.value"] =
                    <<s["signature.algorithm"],
                      verifyingKey(options.publicKeyOrSecret, s["signature.algorithm"]), signingPayload(s)>>
<1>1. \E k \in DOMAIN retained :
        LET s == SignedReceiptOf(retained[k])
        IN  IsFormed(r) /\ toLowerCase(r["signature.value"]) = s["signature.value"]
  <2>1. CASE r \in {SignedReceiptOf(retained[k]) : k \in DOMAIN retained}
    <3>1. PICK k \in DOMAIN retained : r = SignedReceiptOf(retained[k])
      BY <2>1
    <3>2. IsSigned(r)
      BY <3>1, RetainedReceipts
    <3>3. IsFormed(r) /\ toLowerCase(r["signature.value"]) = r["signature.value"]
      BY <3>2, SignedIsFormed, SignatureValues DEF Lower
    <3> QED
      BY <3>1, <3>3
  <2>2. CASE r \in Changes(SignedReceiptOf(retained[i]), ReceiptAlternatives)
    <3> DEFINE s == SignedReceiptOf(retained[i])
    <3>1. IsSigned(s)
      BY RetainedReceipts
    <3>2. r \in Changes(s, ReceiptAlternatives)
      BY <2>2
    <3> HIDE DEF s
    <3>3. IsFormed(r) /\ toLowerCase(r["signature.value"]) = s["signature.value"]
      BY <3>1, <3>2, ChangedReceipts
    <3> QED
      BY <3>3 DEF s
  <2> QED
    BY <2>1, <2>2 DEF ReceiptsPassed
<1>2. PICK k \in DOMAIN retained :
        LET s == SignedReceiptOf(retained[k])
        IN  IsFormed(r) /\ toLowerCase(r["signature.value"]) = s["signature.value"]
  BY <1>1
<1> DEFINE s == SignedReceiptOf(retained[k])
<1>3. IsSigned(s) /\ s["version"] = "2.0.0"
  BY RetainedReceipts
<1>4. IsFormed(r) /\ toLowerCase(r["signature.value"]) = s["signature.value"]
  BY <1>2
<1> HIDE DEF s
<1>5. \A path \in ReceiptFields \ InEitherCase : r[path] = s[path]
  BY <1>3, <1>4, AcceptedIsSigned
<1>6. s["signature.value"] =
        <<s["signature.algorithm"], verifyingKey(options.publicKeyOrSecret, s["signature.algorithm"]),
          signingPayload(s)>>
  BY <1>3, <1>4, PayloadsAgree
<1> QED
  BY <1>3, <1>5, <1>6 DEF s

(***************************************************************************)
(* What a call is made with, and what it takes to get to the adapter.      *)
(***************************************************************************)
AdapterNames == {"engine", "counting", "elsewhere", "invalid"}

ReceiptsOf(document) ==
  Changes(document.receipt, ReceiptAlternatives)
    \union {SignedReceiptOf(retained[k]) : k \in DOMAIN retained} \union {Garbage}

\* What disorder leaves of what is passed in order.
LEMMA DisorderedParts ==
  ASSUME NEW args, NEW x \in Disordered(args)
  PROVE  \/ \E other : x = [args EXCEPT !.bundle = [args.bundle EXCEPT !.checkpoint = other]]
         \/ \E other \in ReceiptsOf(args.bundle) :
              x = [args EXCEPT !.bundle = [args.bundle EXCEPT !.receipt = other]]
         \/ x = [args EXCEPT !.bundle = Garbage]
         \/ \E other : x = [args EXCEPT !.trust = other]
         \/ \E other : x = [args EXCEPT !.options = [args.options EXCEPT !.source = other]]
         \/ x = [args EXCEPT !.options = [args.options EXCEPT !.checkpointPin = Garbage]]
         \/ x = [args EXCEPT !.options = [args.options EXCEPT !.bundlePin = Garbage]]
         \/ x = [args EXCEPT !.options = Garbage]
         \/ \E other, hash : x = [args EXCEPT !.bundle = [args.bundle EXCEPT !.checkpoint = other],
                                              !.options = [args.options EXCEPT !.checkpointPin = hash]]
<1> DEFINE c == args.bundle.checkpoint
           checkpoints == Changes(c, CheckpointAlternatives)
           receipts == ReceiptsOf(args.bundle)
           bundles == {[args.bundle EXCEPT !.checkpoint = other] : other \in checkpoints \union {Garbage}}
                        \union {[args.bundle EXCEPT !.receipt = other] : other \in receipts}
                        \union {Garbage}
           repeated == [args.trust EXCEPT !.keys = Append(@, Last(@))]
           trustBundles == Changes(args.trust, TrustAlternatives) \union ToSet(trusts)
                             \union {repeated, Garbage}
           sources == {checkpointSource(retained[k].at) : k \in DOMAIN retained} \union {Garbage}
           options == {[args.options EXCEPT !.source = other] : other \in sources}
                        \union {[args.options EXCEPT !.checkpointPin = Garbage],
                                [args.options EXCEPT !.bundlePin = Garbage], Garbage}
           both == {[args EXCEPT !.bundle = [args.bundle EXCEPT !.checkpoint = other],
                                 !.options = [args.options EXCEPT !.checkpointPin = CheckpointHash(other)]] :
                      other \in checkpoints}
<1>1. Disordered(args) =
        {[args EXCEPT !.bundle = other] : other \in bundles}
          \union {[args EXCEPT !.trust = other] : other \in trustBundles}
          \union {[args EXCEPT !.options = other] : other \in options}
          \union both
  BY DEF Disordered, ReceiptsOf
<1> HIDE DEF c, checkpoints, receipts, bundles, trustBundles, sources, options, both
<1>2. \/ \E other \in bundles : x = [args EXCEPT !.bundle = other]
      \/ \E other \in trustBundles : x = [args EXCEPT !.trust = other]
      \/ \E other \in options : x = [args EXCEPT !.options = other]
      \/ x \in both
  BY <1>1
<1>3. ASSUME NEW part \in bundles
      PROVE  \/ \E other : part = [args.bundle EXCEPT !.checkpoint = other]
             \/ \E other \in ReceiptsOf(args.bundle) : part = [args.bundle EXCEPT !.receipt = other]
             \/ part = Garbage
  BY <1>3 DEF bundles, receipts
<1>4. ASSUME NEW part \in options
      PROVE  \/ \E other : part = [args.options EXCEPT !.source = other]
             \/ part = [args.options EXCEPT !.checkpointPin = Garbage]
             \/ part = [args.options EXCEPT !.bundlePin = Garbage]
             \/ part = Garbage
  BY <1>4 DEF options
<1>5. ASSUME x \in both
      PROVE  \E other, hash : x = [args EXCEPT !.bundle = [args.bundle EXCEPT !.checkpoint = other],
                                               !.options = [args.options EXCEPT !.checkpointPin = hash]]
  BY <1>5 DEF both
<1>6. CASE \E other \in bundles : x = [args EXCEPT !.bundle = other]
  <2>1. PICK part \in bundles : x = [args EXCEPT !.bundle = part]
    BY <1>6
  <2>2. CASE \E other : part = [args.bundle EXCEPT !.checkpoint = other]
    BY <2>1, <2>2
  <2>3. CASE \E other \in ReceiptsOf(args.bundle) : part = [args.bundle EXCEPT !.receipt = other]
    BY <2>1, <2>3
  <2>4. CASE part = Garbage
    BY <2>1, <2>4
  <2> QED
    BY <1>3, <2>2, <2>3, <2>4
<1>7. CASE \E other \in options : x = [args EXCEPT !.options = other]
  <2>1. PICK part \in options : x = [args EXCEPT !.options = part]
    BY <1>7
  <2>2. CASE \E other : part = [args.options EXCEPT !.source = other]
    BY <2>1, <2>2
  <2>3. CASE part = [args.options EXCEPT !.checkpointPin = Garbage]
    BY <2>1, <2>3
  <2>4. CASE part = [args.options EXCEPT !.bundlePin = Garbage]
    BY <2>1, <2>4
  <2>5. CASE part = Garbage
    BY <2>1, <2>5
  <2> QED
    BY <1>4, <2>2, <2>3, <2>4, <2>5
<1> QED
  BY <1>2, <1>5, <1>6, <1>7

LEMMA ArgumentsPassed ==
  ASSUME NEW i \in DOMAIN retained, NEW j \in DOMAIN trusts,
         NEW x \in {InOrder(i, j, adapter) : adapter \in Adapters} \union Disordered(InOrder(i, j, "engine"))
  PROVE  /\ \/ x.bundle = Garbage \/ x.bundle.receipt = Garbage
            \/ x.bundle.receipt \in ReceiptsPassed(i)
         /\ \/ x.options = Garbage \/ x.options.bundlePin = Garbage
            \/ x.options.bundlePin = Pin(trusts[j]) /\ x.options.adapter \in AdapterNames
<1> DEFINE receipt == SignedReceiptOf(retained[i])
           kept == retained[i].checkpoint
           pin == Pin(trusts[j])
           about == checkpointSource(retained[i].at)
           hash == CheckpointHash(kept)
           trusted == trusts[j]
           bundle == [checkpoint |-> kept, receipt |-> receipt]
           Options(adapter) ==
             [bundlePin |-> pin, checkpointPin |-> hash, source |-> about, adapter |-> adapter]
           options == Options("engine")
           args == [bundle |-> bundle, trust |-> trusted, options |-> options]
<1>1. \A adapter : InOrder(i, j, adapter) = [bundle |-> bundle, trust |-> trusted, options |-> Options(adapter)]
  BY DEF InOrder
<1>2. ReceiptsOf(args.bundle) = ReceiptsPassed(i) \union {Garbage} /\ receipt \in ReceiptsPassed(i)
  BY DEF ReceiptsPassed, ReceiptsOf
<1>3. Adapters \subseteq AdapterNames /\ "engine" \in AdapterNames
  BY SourcesAssumption DEF AdapterNames
<1> HIDE DEF receipt, kept, pin, about, hash, trusted
<1>4. CASE x \in {InOrder(i, j, adapter) : adapter \in Adapters}
  <2>1. PICK adapter \in Adapters : x = InOrder(i, j, adapter)
    BY <1>4
  <2>2. x.bundle.receipt = receipt /\ x.options.bundlePin = pin /\ x.options.adapter = adapter
    BY <1>1, <2>1
  <2> QED
    BY <1>2, <1>3, <2>2 DEF pin
<1>5. CASE x \in Disordered(InOrder(i, j, "engine"))
  <2>1. x \in Disordered(args)
    BY <1>1, <1>5
  <2>2. ASSUME x.bundle = bundle \/ x.bundle = Garbage \/ x.bundle.receipt = receipt
                 \/ x.bundle.receipt \in ReceiptsOf(args.bundle)
        PROVE  x.bundle = Garbage \/ x.bundle.receipt = Garbage \/ x.bundle.receipt \in ReceiptsPassed(i)
    BY <1>2, <2>2
  <2>3. ASSUME x.options = options \/ x.options = Garbage \/ x.options.bundlePin = Garbage
                 \/ (x.options.bundlePin = pin /\ x.options.adapter = "engine")
        PROVE  \/ x.options = Garbage \/ x.options.bundlePin = Garbage
               \/ x.options.bundlePin = Pin(trusts[j]) /\ x.options.adapter \in AdapterNames
    BY <1>3, <2>3 DEF pin
  <2>4. CASE \E other : x = [args EXCEPT !.bundle = [args.bundle EXCEPT !.checkpoint = other]]
    <3>1. x.bundle.receipt = receipt /\ x.options = options
      BY <2>4
    <3> QED
      BY <2>2, <2>3, <3>1
  <2>5. CASE \E other \in ReceiptsOf(args.bundle) :
               x = [args EXCEPT !.bundle = [args.bundle EXCEPT !.receipt = other]]
    <3>1. PICK other \in ReceiptsOf(args.bundle) :
            x = [args EXCEPT !.bundle = [args.bundle EXCEPT !.receipt = other]]
      BY <2>5
    <3>2. x.bundle.receipt = other /\ x.options = options
      BY <3>1
    <3> QED
      BY <2>2, <2>3, <3>2
  <2>6. CASE x = [args EXCEPT !.bundle = Garbage]
    <3>1. x.bundle = Garbage /\ x.options = options
      BY <2>6
    <3> QED
      BY <2>2, <2>3, <3>1
  <2>7. CASE \E other : x = [args EXCEPT !.trust = other]
    <3>1. x.bundle = bundle /\ x.options = options
      BY <2>7
    <3> QED
      BY <2>2, <2>3, <3>1
  <2>8. CASE \E other : x = [args EXCEPT !.options = [args.options EXCEPT !.source = other]]
    <3>1. x.bundle = bundle /\ x.options.bundlePin = pin /\ x.options.adapter = "engine"
      BY <2>8
    <3> QED
      BY <2>2, <2>3, <3>1
  <2>9. CASE x = [args EXCEPT !.options = [args.options EXCEPT !.checkpointPin = Garbage]]
    <3>1. x.bundle = bundle /\ x.options.bundlePin = pin /\ x.options.adapter = "engine"
      BY <2>9
    <3> QED
      BY <2>2, <2>3, <3>1
  <2>10. CASE x = [args EXCEPT !.options = [args.options EXCEPT !.bundlePin = Garbage]]
    <3>1. x.bundle = bundle /\ x.options.bundlePin = Garbage
      BY <2>10
    <3> QED
      BY <2>2, <2>3, <3>1
  <2>11. CASE x = [args EXCEPT !.options = Garbage]
    <3>1. x.bundle = bundle /\ x.options = Garbage
      BY <2>11
    <3> QED
      BY <2>2, <2>3, <3>1
  <2>12. CASE \E other, otherHash :
                x = [args EXCEPT !.bundle = [args.bundle EXCEPT !.checkpoint = other],
                                 !.options = [args.options EXCEPT !.checkpointPin = otherHash]]
    <3>1. x.bundle.receipt = receipt /\ x.options.bundlePin = pin /\ x.options.adapter = "engine"
      BY <2>12
    <3> QED
      BY <2>2, <2>3, <3>1
  <2> HIDE DEF args
  <2>13. \/ \E other : x = [args EXCEPT !.bundle = [args.bundle EXCEPT !.checkpoint = other]]
         \/ \E other \in ReceiptsOf(args.bundle) :
              x = [args EXCEPT !.bundle = [args.bundle EXCEPT !.receipt = other]]
         \/ x = [args EXCEPT !.bundle = Garbage]
         \/ \E other : x = [args EXCEPT !.trust = other]
         \/ \E other : x = [args EXCEPT !.options = [args.options EXCEPT !.source = other]]
         \/ x = [args EXCEPT !.options = [args.options EXCEPT !.checkpointPin = Garbage]]
         \/ x = [args EXCEPT !.options = [args.options EXCEPT !.bundlePin = Garbage]]
         \/ x = [args EXCEPT !.options = Garbage]
         \/ \E other, otherHash :
              x = [args EXCEPT !.bundle = [args.bundle EXCEPT !.checkpoint = other],
                               !.options = [args.options EXCEPT !.checkpointPin = otherHash]]
    BY <2>1, DisorderedParts
  <2> QED
    BY <2>4, <2>5, <2>6, <2>7, <2>8, <2>9, <2>10, <2>11, <2>12, <2>13
<1> QED
  BY <1>4, <1>5

\* The receipt of a signed checkpoint k, and a revision j of the trust bundle, as which
\* checkpoint c of a call and its options o are allowed.
Allowed(k, j, c, o) ==
  /\ k \in DOMAIN retained /\ j \in DOMAIN trusts
  /\ retained[k].order \in Retentions /\ retained[k].checkpoint = c
  /\ o.checkpointPin = CheckpointHash(retained[k].checkpoint)
  /\ o.bundlePin = Pin(trusts[j])
  /\ \E n \in DOMAIN trusts[j].keys :
       LET key == trusts[j].keys[n]
       IN  /\ key.publicKey = PublicKey(retained[k].order.signingKey)
           /\ \/ key.state = "ACTIVE"
              \/ /\ key.state = "SUPERSEDED"
                 /\ o.checkpointPin \in key.historicalCheckpointDigests

\* What the profile demands of the header of the receipt r for a checkpoint c.
FitsProfile(r, c) ==
  /\ r["task.name"] = "Retain external checkpoint" /\ r["task.status"] = "ATTESTED"
  /\ r["metadata"].type = "object" /\ DOMAIN r["metadata"].members = {}
  /\ r["metadata.signalProfile"] = Missing /\ r["signature.algorithm"] = "Ed25519"
  /\ r["signature.signerIdentity"] = c.signerIdentity /\ r["signature.keyId"] = c.keyId

Admitted(b, t, o) ==
  /\ b # Garbage /\ o # Garbage /\ b.receipt # Garbage
  /\ checkpoint(b.checkpoint) /\ trust(t) /\ OptionsValid(o)
  /\ o.bundlePin = Pin(t) /\ o.checkpointPin = CheckpointHash(b.checkpoint)
  /\ FitsProfile(b.receipt, b.checkpoint)

LEMMA AdmissionPasses ==
  ASSUME NEW b, NEW t, NEW o, Admission(b, t, o) = "PASS"
  PROVE  Admitted(b, t, o)
BY DEF Admission, Admitted, FitsProfile

KeyAllows(key, pin) ==
  \/ key.state = "ACTIVE"
  \/ key.state = "SUPERSEDED" /\ pin \in key.historicalCheckpointDigests

AllowedByKey(t, c, pin) ==
  \E n \in DOMAIN t.keys : t.keys[n] = KeyOf(t, c) /\ KeyAllows(t.keys[n], pin)

LEMMA AuthenticationPasses ==
  ASSUME NEW r, NEW key, Authentication(r, key) = "PASS"
  PROVE  Accepted(r, [publicKeyOrSecret |-> key.publicKey, expectedAlgorithm |-> "Ed25519",
                      checkFilesOnDisk |-> FALSE])
<1> DEFINE options == [publicKeyOrSecret |-> key.publicKey, expectedAlgorithm |-> "Ed25519",
                       checkFilesOnDisk |-> FALSE]
           verified == verifyReceipt(r, options, << >>)
<1>1. Authenticated(verified) = "PASS"
  BY DEF Authentication
<1> HIDE DEF options, verified
<1>2. verified.trusted
  BY <1>1 DEF Authenticated
<1>3. Accepted(r, options)
  BY <1>2, TrustedMeansAccepted DEF verified
<1> QED
  BY <1>3 DEF options

LEMMA KeyPolicyAllows ==
  ASSUME NEW t, trust(t), NEW c, NEW pin,
         KeyPolicy(t, c, pin) \in {"ACTIVE", "HISTORICAL_SUPERSEDED_ALLOWED"}
  PROVE  AllowedByKey(t, c, pin)
<1>1. KeysOf(t, c) # {}
  BY DEF KeyPolicy
<1>2. KeyOf(t, c) \in KeysOf(t, c)
  BY <1>1 DEF KeyOf
<1>3. PICK n \in DOMAIN t.keys : t.keys[n] = KeyOf(t, c)
  BY <1>2 DEF KeysOf
<1>4. t.keys[n].state \in {"ACTIVE", "SUPERSEDED", "REVOKED"}
  BY DEF trust
<1> DEFINE key == KeyOf(t, c)
<1>5. KeyPolicy(t, c, pin) =
        CASE key.state = "REVOKED" -> "REVOKED_KEY"
          [] key.state = "SUPERSEDED" ->
               IF pin \in key.historicalCheckpointDigests
               THEN "HISTORICAL_SUPERSEDED_ALLOWED" ELSE "SUPERSEDED_NOT_ADMITTED"
          [] OTHER -> "ACTIVE"
  BY <1>1 DEF KeyPolicy
<1>6. key.state \in {"ACTIVE", "SUPERSEDED", "REVOKED"}
  BY <1>3, <1>4
<1> HIDE DEF key
<1>7. KeyAllows(key, pin)
  <2>1. CASE key.state = "ACTIVE"
    BY <2>1 DEF KeyAllows
  <2>2. CASE key.state = "REVOKED"
    BY <1>5, <2>2
  <2>3. CASE key.state = "SUPERSEDED"
    <3>1. pin \in key.historicalCheckpointDigests
      BY <1>5, <2>3
    <3> QED
      BY <2>3, <3>1 DEF KeyAllows
  <2> QED
    BY <1>6, <2>1, <2>2, <2>3
<1> QED
  BY <1>3, <1>7 DEF key, AllowedByKey

\* A receipt that binds a checkpoint as the profile demands, if a keeper signed it, was signed
\* to retain that checkpoint.
LEMMA BoundReceiptsRetain ==
  ASSUME MarksStandApart, NEW entry, IsEntry(entry), NEW r, NEW c,
         \A path \in ReceiptFields \ InEitherCase : r[path] = SignedReceiptOf(entry)[path],
         FitsProfile(r, c), Binding(r, c) = "PASS"
  PROVE  entry.order \in Retentions /\ entry.checkpoint = c
<1> DEFINE s == SignedReceiptOf(entry)
           order == entry.order
           items == order.artifacts
<1>1. /\ Repeats(s, entry) /\ Len(s["artifacts"]) = Len(items)
      /\ \A at \in 1 .. Len(items) : s["artifacts"][at] = ItemFor(items[at], entry.checkpoint)
  BY RetainedReceipts
<1> HIDE DEF s
<1>2. /\ r["artifacts"] = s["artifacts"] /\ r["task.name"] = s["task.name"]
      /\ r["task.status"] = s["task.status"] /\ r["metadata"] = s["metadata"]
      /\ r["metadata.signalProfile"] = s["metadata.signalProfile"]
      /\ r["signature.algorithm"] = s["signature.algorithm"]
      /\ r["signature.signerIdentity"] = s["signature.signerIdentity"]
      /\ r["signature.keyId"] = s["signature.keyId"]
  <2>1. {"artifacts", "task.name", "task.status", "metadata", "metadata.signalProfile",
         "signature.algorithm", "signature.signerIdentity", "signature.keyId"}
          \subseteq ReceiptFields \ InEitherCase
    BY FieldsOfReceipts DEF InEitherCase, ReceiptFields, TaskFields, SignatureFields
  <2> QED
    BY <2>1 DEF s
<1>3. s["artifacts"] = <<[path |-> "checkpoint.json", sha256 |-> <<"sha256", <<"checkpoint", c>>>>,
                          sizeBytes |-> <<"bytes", <<"checkpoint", c>>>>, mimeType |-> "application/json"]>>
  BY <1>2 DEF Binding, CheckpointHash, canonicalHash
<1> DEFINE item == [path |-> "checkpoint.json", sha256 |-> <<"sha256", <<"checkpoint", c>>>>,
                    sizeBytes |-> <<"bytes", <<"checkpoint", c>>>>, mimeType |-> "application/json"]
<1> HIDE DEF item, items
<1>10. s["artifacts"] = <<item>>
  BY <1>3 DEF item
<1>4. Len(items) = 1 /\ 1 \in 1 .. Len(items)
  BY <1>1, <1>10
<1>5. ItemFor(items[1], entry.checkpoint) =
        [path |-> "checkpoint.json", sha256 |-> <<"sha256", <<"checkpoint", c>>>>,
         sizeBytes |-> <<"bytes", <<"checkpoint", c>>>>, mimeType |-> "application/json"]
  <2>1. ItemFor(items[1], entry.checkpoint) = item
    BY <1>1, <1>4, <1>10
  <2> QED
    BY <2>1 DEF item
<1>6. /\ RelativePath(items[1].path) = "checkpoint.json" /\ items[1].mimeType = "application/json"
      /\ <<"sha256", <<"checkpoint", entry.checkpoint>>>> = <<"sha256", <<"checkpoint", c>>>>
  <2> HIDE DEF items
  <2> QED
    BY <1>5 DEF ItemFor
<1>7. entry.checkpoint = c
  BY <1>6
<1>8. c.signerIdentity = "keeper" /\ c.keyId = order.signingKey[2]
  BY <1>7 DEF IsEntry, IsCheckpointOf
<1>9. IsRetention(order)
  BY <1>1, <1>2, <1>4, <1>6, <1>8 DEF Repeats, IsRetention, FitsProfile, items
<1> QED
  BY <1>7, <1>9, OrdersAssumption DEF IsEntry

LEMMA CallsAreAllowed ==
  ASSUME MarksStandApart, \A k \in DOMAIN retained : IsEntry(retained[k]),
         NEW i \in DOMAIN retained, NEW j \in DOMAIN trusts,
         NEW x \in {InOrder(i, j, adapter) : adapter \in Adapters} \union Disordered(InOrder(i, j, "engine")),
         NEW b, b = x.bundle, NEW t, t = x.trust, NEW o, o = x.options,
         Admission(b, t, o) = "PASS",
         KeyPolicy(t, b.checkpoint, o.checkpointPin) \in {"ACTIVE", "HISTORICAL_SUPERSEDED_ALLOWED"},
         Authentication(b.receipt, KeyOf(t, b.checkpoint)) = "PASS",
         Binding(b.receipt, b.checkpoint) = "PASS"
  PROVE  o.adapter \in AdapterNames /\ \E k \in DOMAIN retained : Allowed(k, j, b.checkpoint, o)
<1> DEFINE c == b.checkpoint
           r == b.receipt
           key == KeyOf(t, c)
           how == [publicKeyOrSecret |-> key.publicKey, expectedAlgorithm |-> "Ed25519",
                   checkFilesOnDisk |-> FALSE]
<1>1. /\ b # Garbage /\ o # Garbage /\ r # Garbage
      /\ checkpoint(c) /\ trust(t) /\ OptionsValid(o)
      /\ o.bundlePin = Pin(t) /\ o.checkpointPin = CheckpointHash(c) /\ FitsProfile(r, c)
  BY AdmissionPasses DEF Admitted
<1>2. o.bundlePin # Garbage
  BY <1>1 DEF OptionsValid
<1>3. r \in ReceiptsPassed(i) /\ o.bundlePin = Pin(trusts[j]) /\ o.adapter \in AdapterNames
  BY <1>1, <1>2, ArgumentsPassed
<1>4. t = trusts[j]
  <2>1. Pin(t) = Pin(trusts[j])
    BY <1>1, <1>3
  <2>2. TrustHash(t) = TrustHash(trusts[j])
    BY <2>1 DEF Pin
  <2> QED
    BY <2>2 DEF TrustHash, canonicalHash
<1>5. PICK n \in DOMAIN t.keys : t.keys[n] = key /\ KeyAllows(t.keys[n], o.checkpointPin)
  <2>1. AllowedByKey(t, b.checkpoint, o.checkpointPin)
    BY <1>1, KeyPolicyAllows
  <2> QED
    BY <2>1 DEF AllowedByKey
<1>6. Accepted(r, how)
  <2> HIDE DEF r, key
  <2> QED
    BY AuthenticationPasses DEF r, key
<1> HIDE DEF how, key, r, c
<1>7. PICK k \in DOMAIN retained :
        LET s == SignedReceiptOf(retained[k])
        IN  /\ IsSigned(s) /\ \A path \in ReceiptFields \ InEitherCase : r[path] = s[path]
            /\ s["signature.value"] =
                 <<s["signature.algorithm"], verifyingKey(how.publicKeyOrSecret, s["signature.algorithm"]),
                   signingPayload(s)>>
  BY <1>3, <1>6, AcceptedReceiptsWereSigned
<1>8. Binding(r, c) = "PASS"
  BY DEF r, c
<1>9. retained[k].order \in Retentions /\ retained[k].checkpoint = c
  <2>1. IsEntry(retained[k]) /\ FitsProfile(r, c)
    BY <1>1
  <2>2. \A path \in ReceiptFields \ InEitherCase : r[path] = SignedReceiptOf(retained[k])[path]
    BY <1>7
  <2> QED
    BY ONLY MarksStandApart, <1>8, <2>1, <2>2, BoundReceiptsRetain
<1>10. key.publicKey = PublicKey(retained[k].order.signingKey)
  <2> DEFINE s == SignedReceiptOf(retained[k])
             payload == signingPayload(s)
             signingKey == retained[k].order.signingKey
  <2>1. Repeats(s, retained[k])
    BY RetainedReceipts
  <2>2. s["signature.algorithm"] = "Ed25519"
    <3>1. "signature.algorithm" \in ReceiptFields \ InEitherCase
      BY FieldsOfReceipts DEF InEitherCase, ReceiptFields, SignatureFields
    <3> QED
      BY <1>1, <1>7, <3>1 DEF FitsProfile
  <2>3. s["signature.value"] = <<"Ed25519", key.publicKey, payload>>
    <3>1. key.publicKey[1] \in {"hex", "public"}
      BY <1>1, <1>5 DEF trust
    <3>2. publicEd25519Key(key.publicKey) = key.publicKey
      BY <3>1 DEF publicEd25519Key
    <3>3. verifyingKey(how.publicKeyOrSecret, "Ed25519") = key.publicKey
      BY <3>2 DEF how, verifyingKey
    <3> QED
      BY <1>7, <2>2, <3>3
  <2> HIDE DEF s, payload, signingKey
  <2>4. s["signature.value"] = signPayload(payload, signingKey, "Ed25519") /\ s["signature.value"] # Throws
    BY <2>1, <2>2 DEF Repeats, payload, signingKey
  <2>5. s["signature.value"] = <<"Ed25519", PublicKey(signingKey), payload>>
    BY <2>4 DEF signPayload, decodeSignatureAlgorithm, SignatureAlgorithms
  <2> QED
    BY <2>3, <2>5 DEF signingKey
<1>11. Allowed(k, j, c, o)
  BY <1>1, <1>3, <1>4, <1>5, <1>9, <1>10 DEF Allowed, KeyAllows
<1> QED
  BY <1>3, <1>11 DEF c
-----------------------------------------------------------------------------
(***************************************************************************)
(* The invariant: ledgers are lists of records, checkpoints are what they  *)
(* were when they were signed, and a call that got to the adapter was      *)
(* allowed; nothing that was kept or published is ever changed.            *)
(***************************************************************************)
Matches == {"CHECKPOINT_MATCH", "CHECKPOINT_PREFIX_MATCH"}

IsAdmitted ==
  /\ \E k \in DOMAIN retained : \E j \in DOMAIN trusts : Allowed(k, j, call.checkpoint, call.options)
  /\ Identity(call.checkpoint, call.options.source) = "PASS"
  /\ call.options.adapter \in AdapterNames

HasSeen ==
  /\ IsAdmitted /\ IsLedger(call.seen)
  /\ call.observation = Answer(call.options.adapter, call.seen, call.checkpoint.eventCount)

HasConcluded ==
  LET comparison == Comparison(call.checkpoint, call.options.source, call.observation)
  IN  /\ HasSeen
      /\ call.result.accepted = (comparison \in Matches)
      /\ call.result.accepted =>
           call.result.suffixCount = call.observation.eventCount - call.checkpoint.eventCount

IsCall(x) ==
  /\ x = [stage |-> x.stage, checkpoint |-> x.checkpoint, options |-> x.options, result |-> x.result,
          observation |-> x.observation, seen |-> x.seen]
  /\ x.result = [accepted |-> x.result.accepted, admission |-> x.result.admission,
                 keyPolicy |-> x.result.keyPolicy, authentication |-> x.result.authentication,
                 binding |-> x.result.binding, sourceComparison |-> x.result.sourceComparison,
                 suffixCount |-> x.result.suffixCount]

CallInv ==
  /\ IsCall(call)
  /\ \/ call.stage = "idle" /\ call.result.accepted = FALSE
     \/ call.stage = "asked" /\ call.result.accepted = FALSE /\ IsAdmitted
     \/ call.stage = "answered" /\ call.result.accepted = FALSE /\ HasSeen
     \/ call.stage = "done" /\ call.result.accepted = FALSE /\ call.seen = Missing
     \/ call.stage = "done" /\ HasConcluded

KeptInv ==
  /\ IsList(retained) /\ \A k \in DOMAIN retained : IsEntry(retained[k])
  /\ IsList(trusts)

IInv == IsLedger(source) /\ KeptInv /\ CallInv

Grown ==
  /\ \A k \in DOMAIN retained : k \in DOMAIN retained' /\ retained'[k] = retained[k]
  /\ \A j \in DOMAIN trusts : j \in DOMAIN trusts' /\ trusts'[j] = trusts[j]

LEMMA CallInvStays ==
  ASSUME CallInv, Grown, call' = call
  PROVE  CallInv'
<1>1. IsAdmitted => IsAdmitted'
  <2> SUFFICES ASSUME IsAdmitted PROVE IsAdmitted'
    OBVIOUS
  <2>1. PICK k \in DOMAIN retained : \E j \in DOMAIN trusts : Allowed(k, j, call.checkpoint, call.options)
    BY DEF IsAdmitted
  <2>2. PICK j \in DOMAIN trusts : Allowed(k, j, call.checkpoint, call.options)
    BY <2>1
  <2>3. /\ k \in DOMAIN retained' /\ retained'[k] = retained[k]
        /\ j \in DOMAIN trusts' /\ trusts'[j] = trusts[j]
    BY DEF Grown
  <2>4. Allowed(k, j, call.checkpoint, call.options)'
    BY <2>2, <2>3 DEF Allowed
  <2> QED
    BY <2>3, <2>4 DEF IsAdmitted
<1>2. HasSeen => HasSeen'
  BY <1>1 DEF HasSeen
<1>3. HasConcluded => HasConcluded'
  BY <1>2 DEF HasConcluded
<1> QED
  BY <1>1, <1>2, <1>3 DEF CallInv

LEMMA ListsStay ==
  ASSUME UNCHANGED <<retained, trusts>>
  PROVE  Grown
BY DEF Grown

LEMMA FrontsAreLists ==
  ASSUME NEW list, IsList(list), list # << >>
  PROVE  IsList(Front(list))
<1> DEFINE n == Len(list)
           T == {list[m] : m \in 1 .. n}
<1>1. list \in Seq(T)
  BY Lists DEF IsList
<1>2. list = [m \in 1 .. n |-> list[m]] /\ n \in Nat
  BY DEF IsList
<1> HIDE DEF T
<1>3. n > 0
  BY <1>1
<1>4. Front(list) \in Seq(T)
  BY <1>1, <1>3 DEF Front
<1> HIDE DEF n
<1>5. Len(Front(list)) \in Nat /\ Front(list) = [m \in 1 .. Len(Front(list)) |-> Front(list)[m]]
  BY <1>4
<1> QED
  BY <1>5 DEF IsList

LEMMA LedgersStayLedgers ==
  ASSUME IsLedger(source)
  PROVE  /\ \A event : Record(event) => IsLedger(source')
         /\ LoseRecord => IsLedger(source')
         /\ \A genesis : StartAnew(genesis) => IsLedger(source')
<1>1. /\ source = [sourceId |-> source.sourceId, genesis |-> source.genesis, records |-> source.records]
      /\ IsList(source.records)
  BY DEF IsLedger, IsList
<1>2. ASSUME NEW records, IsList(records), NEW genesis,
             source' = [sourceId |-> source.sourceId, genesis |-> genesis, records |-> records]
      PROVE  IsLedger(source')
  BY <1>2 DEF IsLedger, IsList
<1>3. ASSUME NEW event, Record(event) PROVE IsLedger(source')
  <2>1. source' = [sourceId |-> source.sourceId, genesis |-> source.genesis,
                   records |-> Append(source.records, event)]
    BY <1>1, <1>3 DEF Record
  <2>2. IsList(Append(source.records, event))
    BY <1>1, OneMoreAtTheEnd
  <2> QED
    BY <1>2, <2>1, <2>2
<1>4. ASSUME LoseRecord PROVE IsLedger(source')
  <2>1. source' = [sourceId |-> source.sourceId, genesis |-> source.genesis,
                   records |-> Front(source.records)]
    BY <1>1, <1>4 DEF LoseRecord
  <2>2. IsList(Front(source.records))
    BY <1>1, <1>4, FrontsAreLists DEF LoseRecord
  <2> QED
    BY <1>2, <2>1, <2>2
<1>5. ASSUME NEW genesis, StartAnew(genesis) PROVE IsLedger(source')
  <2>1. source' = [sourceId |-> source.sourceId, genesis |-> genesis, records |-> << >>]
    BY <1>1, <1>5 DEF StartAnew
  <2>2. IsList(<< >>)
    BY DEF IsList
  <2> QED
    BY <1>2, <2>1, <2>2
<1> QED
  BY <1>3, <1>4, <1>5

LEMMA RetainKeeps ==
  ASSUME IInv, NEW order \in Orders, Retain(order)
  PROVE  KeptInv' /\ Grown
<1> DEFINE c == CheckpointOf(source, order.signingKey)
           entry == [checkpoint |-> c, order |-> order, at |-> source]
<1>1. retained' = Append(retained, entry) /\ trusts' = trusts /\ SignedReceiptOf(entry) # Throws
  BY DEF Retain
<1>2. IsCheckpointOf(c, entry)
  BY DEF IsCheckpointOf, CheckpointOf
<1> HIDE DEF c
<1>3. entry.order = order /\ entry.at = source /\ entry.checkpoint = c
  OBVIOUS
<1> HIDE DEF entry
<1>4. IsEntry(entry)
  BY <1>1, <1>2, <1>3 DEF IsEntry, IInv
<1>5. /\ IsList(retained') /\ DOMAIN retained' = 1 .. Len(retained) + 1
      /\ retained'[Len(retained) + 1] = entry
      /\ \A at \in DOMAIN retained : at \in DOMAIN retained' /\ retained'[at] = retained[at]
      /\ \A at \in DOMAIN retained' : at = Len(retained) + 1 \/ at \in DOMAIN retained
  BY <1>1, OneMoreAtTheEnd DEF IInv, KeptInv
<1>6. \A k \in DOMAIN retained' : IsEntry(retained'[k])
  BY <1>4, <1>5 DEF IInv, KeptInv
<1> QED
  BY <1>1, <1>5, <1>6 DEF IInv, KeptInv, Grown

LEMMA PublishKeeps ==
  ASSUME IInv, NEW policy, NEW listed, Publish(policy, listed)
  PROVE  KeptInv' /\ Grown
<1>1. PICK bundle : trusts' = Append(trusts, bundle)
  BY DEF Publish
<1>2. retained' = retained
  BY DEF Publish
<1>3. /\ IsList(trusts')
      /\ \A at \in DOMAIN trusts : at \in DOMAIN trusts' /\ trusts'[at] = trusts[at]
  BY <1>1, OneMoreAtTheEnd DEF IInv, KeptInv
<1> QED
  BY <1>2, <1>3 DEF IInv, KeptInv, Grown

LEMMA EndsKeep ==
  ASSUME NEW admission, NEW policy, NEW authentication, NEW binding, NEW comparison,
         Ends([accepted |-> FALSE, admission |-> admission, keyPolicy |-> policy,
               authentication |-> authentication, binding |-> binding,
               sourceComparison |-> comparison, suffixCount |-> Missing])
  PROVE  CallInv'
<1> DEFINE result == [accepted |-> FALSE, admission |-> admission, keyPolicy |-> policy,
                      authentication |-> authentication, binding |-> binding,
                      sourceComparison |-> comparison, suffixCount |-> Missing]
<1>1. call' = [stage |-> "done", checkpoint |-> Missing, options |-> Missing, result |-> result,
               observation |-> Missing, seen |-> Missing]
  BY DEF Ends, Idle
<1>2. IsCall(call')
  BY <1>1 DEF IsCall
<1>3. call'.stage = "done" /\ call'.result.accepted = FALSE /\ call'.seen = Missing
  BY <1>1
<1> QED
  BY <1>2, <1>3 DEF CallInv

\* The parts of a verdict that is not complete.
Partial(no, admission, keyPolicy, authentication, binding, comparison) ==
  [accepted |-> no, admission |-> admission, keyPolicy |-> keyPolicy,
   authentication |-> authentication, binding |-> binding, sourceComparison |-> comparison,
   suffixCount |-> Missing]

\* A call is ended with nothing accepted, or gets to the adapter if nothing is wrong with it.
LEMMA StagesKeep ==
  ASSUME NEW admission, NEW policy, NEW authentication, NEW binding, NEW identity, NEW c, NEW o,
         Stages(admission, policy, authentication, binding, identity, c, o)
  PROVE  \/ CallInv'
         \/ /\ admission = "PASS" /\ policy \in {"ACTIVE", "HISTORICAL_SUPERSEDED_ALLOWED"}
            /\ authentication = "PASS" /\ binding = "PASS" /\ identity = "PASS"
            /\ IsCall(call') /\ call'.stage = "asked" /\ call'.result.accepted = FALSE
            /\ call'.checkpoint = c /\ call'.options = o
<1> DEFINE admitted == [NotChecked EXCEPT !.admission = admission]
           allowed == [admitted EXCEPT !.keyPolicy = policy]
           authenticated == [allowed EXCEPT !.authentication = authentication]
           bound == [authenticated EXCEPT !.binding = binding]
           no == FALSE
           Result(p, a, b, i) == Partial(no, admission, p, a, b, i)
<1>0. NotChecked = Partial(no, "NOT_CHECKED", "NOT_CHECKED", "NOT_CHECKED", "NOT_CHECKED", "NOT_CHECKED")
  BY DEF NotChecked, Partial
<1> HIDE DEF no
<1>1. /\ admitted = Result("NOT_CHECKED", "NOT_CHECKED", "NOT_CHECKED", "NOT_CHECKED")
      /\ allowed = Result(policy, "NOT_CHECKED", "NOT_CHECKED", "NOT_CHECKED")
      /\ authenticated = Result(policy, authentication, "NOT_CHECKED", "NOT_CHECKED")
      /\ bound = Result(policy, authentication, binding, "NOT_CHECKED")
      /\ [bound EXCEPT !.sourceComparison = identity] = Result(policy, authentication, binding, identity)
  <2>1. admitted = Result("NOT_CHECKED", "NOT_CHECKED", "NOT_CHECKED", "NOT_CHECKED")
    BY <1>0 DEF Partial
  <2> HIDE DEF admitted
  <2>2. allowed = Result(policy, "NOT_CHECKED", "NOT_CHECKED", "NOT_CHECKED")
    BY <2>1 DEF Partial
  <2> HIDE DEF allowed
  <2>3. authenticated = Result(policy, authentication, "NOT_CHECKED", "NOT_CHECKED")
    BY <2>2 DEF Partial
  <2> HIDE DEF authenticated
  <2>4. bound = Result(policy, authentication, binding, "NOT_CHECKED")
    BY <2>3 DEF Partial
  <2> HIDE DEF bound
  <2>5. [bound EXCEPT !.sourceComparison = identity] = Result(policy, authentication, binding, identity)
    BY <2>4 DEF Partial
  <2> QED
    BY <2>1, <2>2, <2>3, <2>4, <2>5
<1>2. \/ Ends(admitted) \/ Ends(allowed) \/ Ends(authenticated) \/ Ends(bound)
      \/ Ends([bound EXCEPT !.sourceComparison = identity])
      \/ /\ admission = "PASS" /\ policy \in {"ACTIVE", "HISTORICAL_SUPERSEDED_ALLOWED"}
         /\ authentication = "PASS" /\ binding = "PASS" /\ identity = "PASS"
         /\ call' = [Idle EXCEPT !.stage = "asked", !.checkpoint = c, !.options = o, !.result = bound]
  BY DEF Stages
<1>3. ASSUME NEW p, NEW a, NEW b, NEW i, Ends(Result(p, a, b, i))
      PROVE  CallInv'
  BY <1>3, EndsKeep DEF Partial, no
<1> HIDE DEF admitted, allowed, authenticated, bound
<1>4. ASSUME call' = [Idle EXCEPT !.stage = "asked", !.checkpoint = c, !.options = o, !.result = bound]
      PROVE  IsCall(call') /\ call'.stage = "asked" /\ call'.result.accepted = FALSE
             /\ call'.checkpoint = c /\ call'.options = o
  <2>1. call' = [stage |-> "asked", checkpoint |-> c, options |-> o,
                 result |-> Result(policy, authentication, binding, "NOT_CHECKED"),
                 observation |-> Missing, seen |-> Missing]
    BY <1>1, <1>4 DEF Idle
  <2>2. IsCall(call') /\ call'.result.accepted = FALSE
    BY <2>1 DEF IsCall, Partial, no
  <2> QED
    BY <2>1, <2>2
<1> HIDE DEF Result
<1>5. ASSUME \/ Ends(admitted) \/ Ends(allowed) \/ Ends(authenticated) \/ Ends(bound)
             \/ Ends([bound EXCEPT !.sourceComparison = identity])
      PROVE  CallInv'
  BY <1>1, <1>3, <1>5
<1> QED
  BY <1>2, <1>4, <1>5

LEMMA CallKeeps ==
  ASSUME MarksStandApart, IInv, NEW i \in DOMAIN retained, NEW j \in DOMAIN trusts,
         NEW x \in {InOrder(i, j, adapter) : adapter \in Adapters} \union Disordered(InOrder(i, j, "engine")),
         Call(x.bundle, x.trust, x.options)
  PROVE  CallInv'
<1> DEFINE b == x.bundle
           t == x.trust
           o == x.options
           c == b.checkpoint
           admission == Admission(b, t, o)
           policy == KeyPolicy(t, c, o.checkpointPin)
           authentication == Authentication(b.receipt, KeyOf(t, c))
           binding == Binding(b.receipt, c)
           identity == Identity(c, o.source)
<1>1. Stages(admission, policy, authentication, binding, identity, c, o) /\ UNCHANGED <<retained, trusts>>
  BY DEF Call
<1> HIDE DEF admission, policy, authentication, binding, identity, c, o
<1>2. \/ CallInv'
      \/ /\ admission = "PASS" /\ policy \in {"ACTIVE", "HISTORICAL_SUPERSEDED_ALLOWED"}
         /\ authentication = "PASS" /\ binding = "PASS" /\ identity = "PASS"
         /\ IsCall(call') /\ call'.stage = "asked" /\ call'.result.accepted = FALSE
         /\ call'.checkpoint = c /\ call'.options = o
  BY <1>1, StagesKeep
<1>3. CASE /\ admission = "PASS" /\ policy \in {"ACTIVE", "HISTORICAL_SUPERSEDED_ALLOWED"}
           /\ authentication = "PASS" /\ binding = "PASS" /\ identity = "PASS"
           /\ IsCall(call') /\ call'.stage = "asked" /\ call'.result.accepted = FALSE
           /\ call'.checkpoint = c /\ call'.options = o
  <2>1. \A k \in DOMAIN retained : IsEntry(retained[k])
    BY DEF IInv, KeptInv
  <2>2. o.adapter \in AdapterNames /\ \E k \in DOMAIN retained : Allowed(k, j, c, o)
    <3>1. /\ Admission(b, t, o) = "PASS"
          /\ KeyPolicy(t, b.checkpoint, o.checkpointPin) \in {"ACTIVE", "HISTORICAL_SUPERSEDED_ALLOWED"}
          /\ Authentication(b.receipt, KeyOf(t, b.checkpoint)) = "PASS"
          /\ Binding(b.receipt, b.checkpoint) = "PASS"
      BY <1>3 DEF admission, policy, authentication, binding, c
    <3>2. b = x.bundle /\ t = x.trust /\ o = x.options
      BY DEF o
    <3> HIDE DEF b, t
    <3>3. o.adapter \in AdapterNames /\ \E k \in DOMAIN retained : Allowed(k, j, b.checkpoint, o)
      BY ONLY MarksStandApart, <2>1, <3>1, <3>2, CallsAreAllowed, i \in DOMAIN retained, j \in DOMAIN trusts,
         x \in {InOrder(i, j, adapter) : adapter \in Adapters} \union Disordered(InOrder(i, j, "engine"))
    <3> QED
      BY <3>3 DEF c
  <2>3. PICK k \in DOMAIN retained : Allowed(k, j, c, o)
    BY <2>2
  <2>4. Allowed(k, j, call.checkpoint, call.options)'
    BY <1>1, <1>3, <2>3 DEF Allowed
  <2>5. k \in DOMAIN retained' /\ j \in DOMAIN trusts'
    BY <1>1
  <2>6. IsAdmitted'
    BY <1>3, <2>2, <2>4, <2>5 DEF IsAdmitted, identity
  <2> QED
    BY <1>3, <2>6 DEF CallInv
<1> QED
  BY <1>2, <1>3

LEMMA ObserveKeeps ==
  ASSUME IInv, Observe
  PROVE  CallInv'
<1> DEFINE of == LooksAt(call.options.adapter)
           answer == Answer(call.options.adapter, of, call.checkpoint.eventCount)
<1>1. IsCall(call) /\ call.stage = "asked" /\ call.result.accepted = FALSE /\ IsAdmitted
  BY DEF IInv, CallInv, Observe
<1>2. call' = [call EXCEPT !.stage = "answered", !.observation = answer, !.seen = of]
      /\ UNCHANGED <<retained, trusts>>
  BY DEF Observe
<1>3. IsLedger(of)
  BY SourcesAssumption DEF LooksAt, IInv
<1> HIDE DEF answer, of
<1>4. call' = [stage |-> "answered", checkpoint |-> call.checkpoint, options |-> call.options,
               result |-> call.result, observation |-> answer, seen |-> of]
  BY <1>1, <1>2 DEF IsCall
<1>5. IsCall(call') /\ call'.stage = "answered" /\ call'.result.accepted = FALSE
      /\ call'.checkpoint = call.checkpoint /\ call'.options = call.options
      /\ call'.observation = answer /\ call'.seen = of
  BY <1>1, <1>4 DEF IsCall
<1>6. IsAdmitted'
  <2>1. PICK k \in DOMAIN retained : \E j \in DOMAIN trusts : Allowed(k, j, call.checkpoint, call.options)
    BY <1>1 DEF IsAdmitted
  <2>2. PICK j \in DOMAIN trusts : Allowed(k, j, call.checkpoint, call.options)
    BY <2>1
  <2>3. Allowed(k, j, call.checkpoint, call.options)'
    BY <1>2, <1>5, <2>2 DEF Allowed
  <2> QED
    BY <1>1, <1>2, <1>5, <2>3 DEF IsAdmitted
<1>7. HasSeen'
  BY <1>3, <1>5, <1>6 DEF HasSeen, answer
<1> QED
  BY <1>5, <1>7 DEF CallInv

LEMMA ConcludeKeeps ==
  ASSUME IInv, Conclude
  PROVE  CallInv'
<1> DEFINE comparison == Comparison(call.checkpoint, call.options.source, call.observation)
           accepted == comparison \in Matches
           suffixCount == IF accepted THEN call.observation.eventCount - call.checkpoint.eventCount
                          ELSE Missing
           result == [call.result EXCEPT !.sourceComparison = comparison, !.accepted = accepted,
                                         !.suffixCount = suffixCount]
<1>1. IsCall(call) /\ call.stage = "answered" /\ HasSeen
  BY DEF IInv, CallInv, Conclude
<1>2. call' = [call EXCEPT !.stage = "done", !.result = result] /\ UNCHANGED <<retained, trusts>>
  BY DEF Conclude, Matches
<1>3. /\ result = [accepted |-> accepted, admission |-> call.result.admission,
                   keyPolicy |-> call.result.keyPolicy, authentication |-> call.result.authentication,
                   binding |-> call.result.binding, sourceComparison |-> comparison,
                   suffixCount |-> suffixCount]
  <2> DEFINE old == call.result
  <2>1. old = [accepted |-> old.accepted, admission |-> old.admission, keyPolicy |-> old.keyPolicy,
               authentication |-> old.authentication, binding |-> old.binding,
               sourceComparison |-> old.sourceComparison, suffixCount |-> old.suffixCount]
    BY <1>1 DEF IsCall
  <2> HIDE DEF comparison, accepted, suffixCount, old
  <2>2. result = [old EXCEPT !.sourceComparison = comparison, !.accepted = accepted,
                             !.suffixCount = suffixCount]
    BY DEF old
  <2> HIDE DEF result
  <2>3. result = [accepted |-> accepted, admission |-> old.admission, keyPolicy |-> old.keyPolicy,
                  authentication |-> old.authentication, binding |-> old.binding,
                  sourceComparison |-> comparison, suffixCount |-> suffixCount]
    BY <2>1, <2>2
  <2> QED
    BY <2>3 DEF old
<1> HIDE DEF result
<1>4. call' = [stage |-> "done", checkpoint |-> call.checkpoint, options |-> call.options,
               result |-> result, observation |-> call.observation, seen |-> call.seen]
  BY <1>1, <1>2 DEF IsCall
<1> HIDE DEF comparison, accepted, suffixCount
<1>5. /\ IsCall(call') /\ call'.stage = "done" /\ call'.checkpoint = call.checkpoint
      /\ call'.options = call.options /\ call'.observation = call.observation /\ call'.seen = call.seen
  BY <1>3, <1>4 DEF IsCall
<1>6. call'.result.accepted = accepted /\ call'.result.suffixCount = suffixCount
  BY <1>3, <1>4
<1>7. IsAdmitted'
  <2>1. PICK k \in DOMAIN retained : \E j \in DOMAIN trusts : Allowed(k, j, call.checkpoint, call.options)
    BY <1>1 DEF HasSeen, IsAdmitted
  <2>2. PICK j \in DOMAIN trusts : Allowed(k, j, call.checkpoint, call.options)
    BY <2>1
  <2>3. Allowed(k, j, call.checkpoint, call.options)'
    BY <1>2, <1>5, <2>2 DEF Allowed
  <2> QED
    BY <1>1, <1>2, <1>5, <2>3 DEF HasSeen, IsAdmitted
<1>8. HasSeen'
  BY <1>1, <1>5, <1>7 DEF HasSeen
<1>9. HasConcluded'
  <2>1. Comparison(call.checkpoint, call.options.source, call.observation)' = comparison
    BY <1>5 DEF comparison
  <2>2. call'.result.accepted = (comparison \in Matches)
    BY <1>6 DEF accepted
  <2>3. accepted => suffixCount = call.observation.eventCount - call.checkpoint.eventCount
    BY DEF suffixCount
  <2> QED
    BY <1>5, <1>6, <1>8, <2>1, <2>2, <2>3 DEF HasConcluded
<1> QED
  BY <1>5, <1>9 DEF CallInv

LEMMA InitSatisfies ==
  ASSUME Init
  PROVE  IInv
<1>1. source = [sourceId |-> source.sourceId, genesis |-> source.genesis, records |-> << >>]
  BY DEF Init
<1>2. IsList(<< >>) /\ DOMAIN << >> = {}
  BY DEF IsList
<1>3. IsLedger(source)
  <2>1. source.records = << >>
    BY <1>1
  <2>2. source = [sourceId |-> source.sourceId, genesis |-> source.genesis, records |-> source.records]
    BY <1>1, <2>1
  <2>3. IsList(source.records)
    BY <1>2, <2>1
  <2> HIDE DEF Init
  <2> QED
    BY <2>2, <2>3 DEF IsLedger, IsList
<1>4. KeptInv
  BY <1>2 DEF Init, KeptInv
<1>5. IsCall(call) /\ call.stage = "idle" /\ call.result.accepted = FALSE
  BY DEF Init, Idle, NotChecked, IsCall
<1> QED
  BY <1>3, <1>4, <1>5 DEF IInv, CallInv

LEMMA NextPreserves ==
  ASSUME MarksStandApart, IInv, [Next]_vars
  PROVE  IInv'
<1> DEFINE Passed(i, j) == {InOrder(i, j, adapter) : adapter \in Adapters}
                             \union Disordered(InOrder(i, j, "engine"))
<1>1. ASSUME source' = source, retained' = retained, trusts' = trusts, CallInv'
      PROVE  IInv'
  BY <1>1 DEF IInv, KeptInv
<1>2. ASSUME IsLedger(source'), retained' = retained, trusts' = trusts, call' = call
      PROVE  IInv'
  <2>1. Grown
    BY <1>2, ListsStay
  <2>2. CallInv'
    BY <1>2, <2>1, CallInvStays DEF IInv
  <2> QED
    BY <1>2, <2>2 DEF IInv, KeptInv
<1>3. ASSUME source' = source, KeptInv', Grown, call' = call
      PROVE  IInv'
  <2>1. CallInv'
    BY <1>3, CallInvStays DEF IInv
  <2> QED
    BY <1>3, <2>1 DEF IInv
<1>4. CASE \E event \in Events : Record(event)
  <2>1. IsLedger(source') /\ UNCHANGED <<retained, trusts, call>>
    BY <1>4, LedgersStayLedgers DEF IInv, Record
  <2> QED
    BY <1>2, <2>1
<1>5. CASE LoseRecord
  <2>1. IsLedger(source') /\ UNCHANGED <<retained, trusts, call>>
    BY <1>5, LedgersStayLedgers DEF IInv, LoseRecord, Mishap
  <2> QED
    BY <1>2, <2>1
<1>6. CASE \E genesis \in Genesis : StartAnew(genesis)
  <2>1. IsLedger(source') /\ UNCHANGED <<retained, trusts, call>>
    BY <1>6, LedgersStayLedgers DEF IInv, StartAnew, Mishap
  <2> QED
    BY <1>2, <2>1
<1>7. CASE \E order \in Orders : Retain(order)
  <2>1. PICK order \in Orders : Retain(order)
    BY <1>7
  <2>2. KeptInv' /\ Grown
    BY <2>1, RetainKeeps
  <2>3. source' = source /\ call' = call
    BY <2>1 DEF Retain
  <2> QED
    BY <1>3, <2>2, <2>3
<1>8. ASSUME NEW policy, NEW listed, Publish(policy, listed)
      PROVE  IInv'
  <2>1. KeptInv' /\ Grown
    BY <1>8, PublishKeeps
  <2>2. source' = source /\ call' = call
    BY <1>8 DEF Publish
  <2> QED
    BY <1>3, <2>1, <2>2
<1>9. ASSUME NEW i \in DOMAIN retained, NEW j \in DOMAIN trusts, NEW args \in Passed(i, j),
             Call(args.bundle, args.trust, args.options)
      PROVE  IInv'
  <2>1. CallInv'
    BY <1>9, CallKeeps
  <2>2. source' = source /\ retained' = retained /\ trusts' = trusts
    BY <1>9 DEF Call
  <2> QED
    BY <1>1, <2>1, <2>2
<1>10. CASE Observe
  <2>1. source' = source /\ retained' = retained /\ trusts' = trusts
    BY <1>10 DEF Observe
  <2> QED
    BY <1>1, <1>10, <2>1, ObserveKeeps
<1>11. CASE Conclude
  <2>1. source' = source /\ retained' = retained /\ trusts' = trusts
    BY <1>11 DEF Conclude
  <2> QED
    BY <1>1, <1>11, <2>1, ConcludeKeeps
<1>12. CASE UNCHANGED vars
  <2>1. IsLedger(source') /\ retained' = retained /\ trusts' = trusts /\ call' = call
    BY <1>12 DEF vars, IInv
  <2> QED
    BY <1>2, <2>1
<1>13. \/ \E event \in Events : Record(event)
       \/ LoseRecord
       \/ \E genesis \in Genesis : StartAnew(genesis)
       \/ \E order \in Orders : Retain(order)
       \/ \E policy, listed : Publish(policy, listed)
       \/ \E i \in DOMAIN retained : \E j \in DOMAIN trusts : \E args \in Passed(i, j) :
            Call(args.bundle, args.trust, args.options)
       \/ Observe \/ Conclude \/ UNCHANGED vars
  BY DEF Next
<1> HIDE DEF Passed
<1> QED
  BY <1>4, <1>5, <1>6, <1>7, <1>8, <1>9, <1>10, <1>11, <1>12, <1>13

LEMMA InvariantImpliesPolicy ==
  ASSUME IInv
  PROVE  SourceReadUnderPinnedPolicy
<1> SUFFICES ASSUME call.stage \in {"asked", "answered"} \/ call.result.accepted
             PROVE  SourceReadUnderPinnedPolicy
  BY DEF SourceReadUnderPinnedPolicy
<1>1. IsAdmitted
  BY DEF IInv, CallInv, HasConcluded, HasSeen
<1>2. PICK k \in DOMAIN retained : \E j \in DOMAIN trusts : Allowed(k, j, call.checkpoint, call.options)
  BY <1>1 DEF IsAdmitted
<1>3. PICK j \in DOMAIN trusts : Allowed(k, j, call.checkpoint, call.options)
  BY <1>2
<1>4. k \in Kept
  BY <1>3 DEF Allowed, Kept
<1> QED
  BY <1>3, <1>4 DEF Allowed, SourceReadUnderPinnedPolicy

\* The source is read only about a pinned checkpoint that a keeper signed, with a key that the
\* pinned trust bundle admits for it (checkpoint.ts 102-125), for any documents and policies.
THEOREM SourceIsReadUnderPinnedPolicy ==
  ASSUME MarksStandApart
  PROVE  Spec => []SourceReadUnderPinnedPolicy
<1>1. Init => IInv
  BY InitSatisfies
<1>2. IInv /\ [Next]_vars => IInv'
  BY NextPreserves
<1>3. IInv => SourceReadUnderPinnedPolicy
  BY InvariantImpliesPolicy
<1> QED
  BY <1>1, <1>2, <1>3, PTL DEF Spec
-----------------------------------------------------------------------------
(***************************************************************************)
(* What the comparison tells.                                              *)
(***************************************************************************)
\* Numbers are no marks.
NumbersStandApart == \A n \in Nat : n \notin Marks

LEMMA PrefixesOfLists ==
  ASSUME NEW list, IsList(list), NEW other, IsList(other)
  PROVE  /\ SubSeq(list, 1, Len(list)) = list
         /\ IsPrefix(list, other) <=>
              Len(list) <= Len(other) /\ SubSeq(other, 1, Len(list)) = list
<1> DEFINE n == Len(list)
           T == {list[m] : m \in 1 .. n}
<1>1. list \in Seq(T) /\ n \in Nat
  BY Lists DEF IsList
<1> HIDE DEF T
<1>2. SubSeq(list, 1, n) = list
  BY <1>1
<1> HIDE DEF n
<1> QED
  BY <1>2 DEF IsPrefix, n

\* An observation is accepted exactly if it is one of the same source and epoch that has at least
\* as many events, and the hash of the chain at the checkpoint.
LEMMA ComparisonsThatMatch ==
  ASSUME MarksStandApart, NumbersStandApart, NEW c, NEW expected, NEW of, IsLedger(of), NEW hash,
         c.eventCount \in Nat, NEW obs, obs = Observation(of, hash)
  PROVE  Comparison(c, expected, obs) \in Matches <=>
           /\ of.sourceId = expected.sourceId /\ ChainHash(of, 0) = expected.sourceEpochDigest
           /\ Len(of.records) >= c.eventCount
           /\ hash \notin Marks /\ hash = c.chainHeadOrStateHash
<1>1. /\ obs.status = "VALID" /\ obs.sourceId = of.sourceId /\ obs.eventCount = Len(of.records)
      /\ obs.sourceEpochDigest = ChainHash(of, 0) /\ obs.prefixHash = hash
  BY DEF Observation
<1>2. obs # Throws /\ Len(of.records) \in Nat /\ Len(of.records) \notin Marks
  <2>1. \A a, b, d, e : LET r == [status |-> "VALID", sourceId |-> a, sourceEpochDigest |-> b,
                                  eventCount |-> d, prefixHash |-> e]
                        IN  r = [m \in DOMAIN r |-> r[m]]
    OBVIOUS
  <2>2. obs = [m \in DOMAIN obs |-> obs[m]]
    BY <2>1 DEF Observation
  <2> QED
    BY <2>2 DEF MarksStandApart, NumbersStandApart, IsLedger
<1>3. integer(obs.eventCount, 0)
  BY <1>1, <1>2 DEF integer, Marks
<1>4. Identity(obs, expected) = "PASS" <=>
        of.sourceId = expected.sourceId /\ ChainHash(of, 0) = expected.sourceEpochDigest
  BY <1>1 DEF Identity
<1>5. Identity(obs, expected) \in {"PASS", "SOURCE_IDENTITY_MISMATCH", "SOURCE_EPOCH_MISMATCH"}
  BY DEF Identity
<1>6. digest(hash) <=> hash \notin Marks
  BY DEF digest, Marks
<1> DEFINE identity == Identity(obs, expected)
<1>7. Comparison(c, expected, obs) =
        IF identity # "PASS" THEN identity
        ELSE IF Len(of.records) < c.eventCount THEN "TRUNCATED_RELATIVE_TO_CHECKPOINT"
        ELSE IF ~digest(hash) THEN "SOURCE_UNAVAILABLE"
        ELSE IF hash # c.chainHeadOrStateHash THEN "STATE_MISMATCH"
        ELSE IF Len(of.records) = c.eventCount THEN "CHECKPOINT_MATCH" ELSE "CHECKPOINT_PREFIX_MATCH"
  BY <1>1, <1>2, <1>3 DEF Comparison
<1> HIDE DEF identity
<1>8. Comparison(c, expected, obs) \in Matches <=>
        /\ identity = "PASS" /\ ~(Len(of.records) < c.eventCount)
        /\ digest(hash) /\ hash = c.chainHeadOrStateHash
  BY <1>5, <1>7 DEF Matches, identity
<1>9. ~(Len(of.records) < c.eventCount) <=> Len(of.records) >= c.eventCount
  BY <1>2
<1> QED
  BY <1>4, <1>6, <1>8, <1>9 DEF identity

\* The adapters that look at a ledger answer with the hash of the prefix of any length that the
\* ledger has; for others they answer nothing that is accepted.
LEMMA Answers ==
  ASSUME NEW adapter \in AdapterNames \ {"invalid"}, NEW of, NEW count
  PROVE  LET obs == Answer(adapter, of, count)
         IN  /\ ~(count > Len(of.records)) => obs = Observation(of, ChainHash(of, count))
             /\ count > Len(of.records) => obs = Throws \/ obs = Observation(of, Missing)
<1>1. adapter \in {"engine", "elsewhere"} \/ adapter = "counting"
  BY DEF AdapterNames
<1>2. CASE adapter \in {"engine", "elsewhere"}
  <2>1. Answer(adapter, of, count) = observePrefix(of, count)
    BY <1>2 DEF Answer
  <2> QED
    BY <2>1 DEF observePrefix
<1>3. CASE adapter = "counting"
  <2>1. Answer(adapter, of, count) =
          Observation(of, IF count > Len(of.records) THEN Missing ELSE ChainHash(of, count))
    BY <1>3 DEF Answer
  <2> QED
    BY <2>1
<1> QED
  BY <1>1, <1>2, <1>3

\* Of a ledger with the observation obs exactly what extends the ledger at is accepted.
AcceptsExactly(c, expected, obs, of, at) ==
  /\ Comparison(c, expected, obs) \in Matches <=> Extends(of, at)
  /\ Comparison(c, expected, obs) \in Matches =>
       obs.eventCount - c.eventCount = Len(of.records) - Len(at.records)

LEMMA AcceptedLedgersExtend ==
  ASSUME MarksStandApart, NumbersStandApart, NEW entry, IsEntry(entry), NEW c, c = entry.checkpoint,
         NEW expected, Identity(c, expected) = "PASS", NEW of, IsLedger(of),
         NEW adapter \in AdapterNames \ {"invalid"}, NEW obs, obs = Answer(adapter, of, c.eventCount)
  PROVE  AcceptsExactly(c, expected, obs, of, entry.at)
<1> DEFINE at == entry.at
           n == Len(at.records)
           comparison == Comparison(c, expected, obs)
<1>1. /\ c.eventCount = n /\ c.chainHeadOrStateHash = ChainHash(at, n) /\ c.sourceId = at.sourceId
      /\ c.sourceEpochDigest = ChainHash(at, 0) /\ IsLedger(at)
  BY DEF IsEntry, IsCheckpointOf
<1>2. expected.sourceId = at.sourceId /\ expected.sourceEpochDigest = ChainHash(at, 0)
  BY <1>1 DEF Identity
<1>3. IsList(at.records) /\ IsList(of.records) /\ n \in Nat /\ Len(of.records) \in Nat
  BY <1>1 DEF IsLedger, IsList
<1> HIDE DEF at
<1>4. /\ SubSeq(at.records, 1, n) = at.records
      /\ IsPrefix(at.records, of.records) <=> n <= Len(of.records) /\ SubSeq(of.records, 1, n) = at.records
  BY <1>3, PrefixesOfLists
<1>5. SubSeq(at.records, 1, 0) = << >> /\ SubSeq(of.records, 1, 0) = << >>
  OBVIOUS
<1> HIDE DEF n
<1>6. ChainHash(of, 0) = ChainHash(at, 0) <=> of.genesis = at.genesis
  BY <1>5 DEF ChainHash
<1>7. ChainHash(of, n) = ChainHash(at, n) <=>
        of.genesis = at.genesis /\ SubSeq(of.records, 1, n) = at.records
  BY <1>4 DEF ChainHash
<1>8. ChainHash(of, n) \notin Marks
  BY TuplesAreLists, ValuesStandApart DEF ChainHash
<1>9. CASE n > Len(of.records)
  <2>1. obs = Throws \/ obs = Observation(of, Missing)
    BY <1>1, <1>9, Answers
  <2>2. ~Extends(of, at)
    <3>1. ~(n <= Len(of.records))
      BY <1>3, <1>9
    <3> QED
      BY <1>4, <3>1 DEF Extends
  <2>3. obs = Throws => comparison \notin Matches
    BY DEF Comparison, Matches
  <2>4. obs = Observation(of, Missing) => comparison \notin Matches
    <3>1. c.eventCount \in Nat /\ Missing \in Marks
      BY <1>1, <1>3 DEF Marks
    <3> QED
      BY <3>1, ComparisonsThatMatch
  <2> QED
    BY <2>1, <2>2, <2>3, <2>4 DEF at, AcceptsExactly
<1>10. CASE ~(n > Len(of.records))
  <2>1. obs = Observation(of, ChainHash(of, n)) /\ c.eventCount \in Nat
    BY <1>1, <1>3, <1>10, Answers
  <2>2. comparison \in Matches <=>
          /\ of.sourceId = expected.sourceId /\ ChainHash(of, 0) = expected.sourceEpochDigest
          /\ Len(of.records) >= c.eventCount
          /\ ChainHash(of, n) \notin Marks /\ ChainHash(of, n) = c.chainHeadOrStateHash
    BY <2>1, ComparisonsThatMatch
  <2>3. n <= Len(of.records) /\ Len(of.records) >= n
    BY <1>3, <1>10
  <2>4. comparison \in Matches <=> Extends(of, at)
    BY <1>1, <1>2, <1>4, <1>6, <1>7, <1>8, <2>2, <2>3 DEF Extends
  <2>5. obs.eventCount = Len(of.records)
    BY <2>1 DEF Observation
  <2> QED
    BY <1>1, <2>4, <2>5 DEF at, n, AcceptsExactly
<1> QED
  BY <1>9, <1>10

LEMMA InvariantImpliesExactness ==
  ASSUME MarksStandApart, NumbersStandApart, IInv
  PROVE  ComparisonIsExact
<1> DEFINE c == call.checkpoint
           of == call.seen
           expected == call.options.source
           obs == call.observation
           comparison == Comparison(c, expected, obs)
           covered == {i \in Kept : Extends(call.seen, retained[i].at)}
<1> SUFFICES ASSUME call.stage = "done", call.seen # Missing, call.options.adapter # "invalid"
             PROVE  /\ call.result.accepted <=> covered # {}
                    /\ call.result.accepted =>
                         \A i \in covered :
                           call.result.suffixCount = Len(call.seen.records) - Len(retained[i].at.records)
  BY DEF ComparisonIsExact
<1>1. HasConcluded /\ HasSeen /\ IsAdmitted
  BY DEF IInv, CallInv, HasConcluded, HasSeen
<1>2. /\ call.result.accepted = (comparison \in Matches)
      /\ call.result.accepted => call.result.suffixCount = obs.eventCount - c.eventCount
  BY <1>1 DEF HasConcluded
<1>3. /\ IsLedger(of) /\ obs = Answer(call.options.adapter, of, c.eventCount)
      /\ Identity(c, expected) = "PASS" /\ call.options.adapter \in AdapterNames \ {"invalid"}
  BY <1>1 DEF HasSeen, IsAdmitted
<1>4. ASSUME NEW i \in Kept
      PROVE  /\ comparison \in Matches <=> Extends(of, retained[i].at)
             /\ comparison \in Matches =>
                  obs.eventCount - c.eventCount = Len(of.records) - Len(retained[i].at.records)
  <2>1. IsEntry(retained[i]) /\ c = retained[i].checkpoint
    BY DEF IInv, KeptInv, Kept
  <2> HIDE DEF c, of, expected, obs
  <2>2. AcceptsExactly(c, expected, obs, of, retained[i].at)
    BY <1>3, <2>1, AcceptedLedgersExtend
  <2> QED
    BY <2>2 DEF AcceptsExactly
<1>5. Kept # {}
  <2>1. PICK k \in DOMAIN retained : \E j \in DOMAIN trusts : Allowed(k, j, call.checkpoint, call.options)
    BY <1>1 DEF IsAdmitted
  <2>2. PICK j \in DOMAIN trusts : Allowed(k, j, call.checkpoint, call.options)
    BY <2>1
  <2> QED
    BY <2>2 DEF Allowed, Kept
<1> HIDE DEF comparison
<1>6. comparison \in Matches <=> covered # {}
  BY <1>4, <1>5
<1> QED
  BY <1>2, <1>4, <1>6

\* For any ledgers and any history of them, an acceptance says exactly that the ledger that the
\* adapter saw begins with the records of the checkpoint (checkpoint.ts 126-136).
THEOREM AcceptanceIsExact ==
  ASSUME MarksStandApart, NumbersStandApart
  PROVE  Spec => []ComparisonIsExact
<1>1. Init => IInv
  BY InitSatisfies
<1>2. IInv /\ [Next]_vars => IInv'
  BY NextPreserves
<1>3. IInv => ComparisonIsExact
  BY InvariantImpliesExactness
<1> QED
  BY <1>1, <1>2, <1>3, PTL DEF Spec
=============================================================================
