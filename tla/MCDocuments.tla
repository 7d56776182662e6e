----------------------------- MODULE MCDocuments -----------------------------
(***************************************************************************)
(* A small instance of Documents: two keys, receipts with up to five       *)
(* artifacts in both versions and with both algorithms, two bundles, and   *)
(* for each field of a document a value that it could be mistaken for.     *)
(***************************************************************************)
EXTENDS Documents

File(name) == <<"file", name>>
Key == <<"hex", "k1">>
InPem == <<"PEM", "k1">>
OtherKey == <<"hex", "k2">>

Composite(type, members) ==
  [type |-> type, value |-> "", members |-> [m \in DOMAIN members |-> members[m]], own |-> {}]
Object(members) == Composite("object", members)
Number(n) == Scalar("number", n)
EmptyObject == Object(<< >>)
Note == Object("note" :> Scalar("string", "a note"))
Nested == Object("list" :> Composite("array", "0" :> Scalar("boolean", "true") @@ "1" :> Number("1")))
NotFinite == Object("ratio" :> Number("non-finite"))
NotFiniteParsed == Object("ratio" :> Scalar("null", "null"))
Dated == Object("date" :> Scalar("date", "a date"))
DatedParsed == Object("date" :> Scalar("string", "a date"))
Surrogate == Object("note" :> Scalar("string", "lone surrogate"))
Objects == {EmptyObject, Note, Nested, NotFinite, NotFiniteParsed, Dated, DatedParsed, Surrogate}
MCValues == (UNION {{o} \union {o.members[m] : m \in DOMAIN o.members} : o \in Objects})
              \union {Scalar("boolean", "true"), Number("1")}

Artifact(path, data) == [path |-> path, data |-> data, mimeType |-> Missing]
Inline(paths) == [at \in DOMAIN paths |-> Artifact(paths[at], File(paths[at]))]

Order == [name |-> "build", status |-> "SUCCESS", artifacts |-> << >>, metadata |-> EmptyObject,
          mirror |-> Missing, signingKey |-> Key, keyId |-> "key-1", signerIdentity |-> "agent",
          algorithm |-> "HMAC-SHA256"]

Plain == [Order EXCEPT !.artifacts = <<Artifact("a", Missing)>>, !.metadata = Note]
Asymmetric == [Order EXCEPT !.artifacts = <<Artifact("a", Missing), Artifact("./b", Missing)>>,
                            !.algorithm = "Ed25519", !.signingKey = InPem, !.metadata = Nested]
Five == [Order EXCEPT !.artifacts = Inline(<<"p", "q", "r", "s", "t">>)]
Failed == [Order EXCEPT !.status = "FAILURE", !.signingKey = OtherKey]
WithRatio == [Order EXCEPT !.metadata = NotFinite]
Unnamed == [Order EXCEPT !.keyId = Blank]
Unsignable == [Asymmetric EXCEPT !.signingKey = <<"public PEM", "k1">>]
MCOrders == {Plain, Asymmetric, Five, Failed, WithRatio, Unnamed, Unsignable}

MCLegacyOrders == {[Order EXCEPT !.artifacts = Inline(<<"a">>), !.metadata = Dated],
                   [Order EXCEPT !.artifacts = Inline(<<"a", "b">>)]}

Evidence(ref, privacy) == [ref |-> ref, privacy |-> privacy, digest |-> Missing]
Envelope ==
  [path \in EnvelopeFields |->
     CASE path = "profile" -> "nymrel-signal-proof-receipt"
       [] path = "profileVersion" -> "1.0.0"
       [] path = "signalReceiptId" -> " signal-1 "
       [] path \in {"claimSnapshotDigest", "disclosureSnapshotDigest"} -> "a digest"
       [] path = "attestedScopes" -> <<"timing_observed", "artifact_integrity">>
       [] path \in {"observer", "evaluator"} -> "object"
       [] path = "observer.kind" -> "system"
       [] path = "observer.id" -> "observer-1"
       [] path = "observer.observedAt" -> "a time"
       [] path \in {"evaluator.id", "evaluator.version"} -> "evaluator-1"
       [] path = "evidence" -> <<Evidence("evidence-2", "public"), Evidence("evidence-1", "private")>>
       [] path = "limitations" -> <<"a limitation">>
       [] OTHER -> Missing]

Bundle(options, envelope) == [options |-> options, envelope |-> envelope]
MCBundleOrders ==
  {Bundle(Order, Envelope),
   Bundle(Asymmetric, [Envelope EXCEPT !["needDropId"] = "need-1", !["limitations"] = Missing]),
   Bundle([Order EXCEPT !.artifacts = <<Artifact("./envelope.json", Missing)>>], Envelope),
   Bundle(Order, [Envelope EXCEPT !["limitations"] = <<"a limitation", "lone surrogate">>])}

\* An artifact in the working directory, by its absolute path.
MCAliasOrders == {Bundle([Order EXCEPT !.artifacts = <<Artifact("/work/envelope.json", Missing)>>],
                         Envelope)}

MCRelative == [path \in {"./b", "./envelope.json", "/work/envelope.json"} |->
                 IF path = "./b" THEN "b" ELSE "envelope.json"]
MCNormalized == [path \in {"./b", "./envelope.json"} |->
                   IF path = "./b" THEN "b" ELSE "envelope.json"]
MCTrimmed == [text \in {" signal-1 "} |-> "signal-1"]
MCDisk == [path \in {"a", "b", "envelope.json"} |-> File(path)]

Context(material, algorithm) == [publicKeyOrSecret |-> material, expectedAlgorithm |-> algorithm]
MCContexts == {Context(Key, "HMAC-SHA256"), Context(PublicKey(Key), "Ed25519"),
               Context(<<"public PEM", "k1">>, "Ed25519"),
               Context(OtherKey, "HMAC-SHA256"), Context(Missing, "HMAC-SHA256")}

MCAlternatives ==
  [path \in ReceiptFields \ {"merkle.leaves", "merkle.root"} |->
     CASE path = "protocol" -> {Garbage}
       [] path = "version" -> {"1.0.0", "2.0.0", Missing}
       [] path = "proofId" -> {"prf_2", Missing}
       [] path \in {"timestamp", "signature.timestamp"} -> {"another time", "not a timestamp"}
       [] path \in {"parentOrganization", "task.name", "environment.platform", "environment.arch",
                    "environment.runtime", "signature.keyId", "signature.signerIdentity"} ->
            {"another", Blank}
       [] path = "task.status" -> {"FAILURE", "lone surrogate"}
       [] path \in {"task", "environment", "artifacts", "merkle", "signature"} -> {Missing}
       [] path = "merkle.algorithm" -> {"SHA-256", "RFC6962-SHA256"}
       [] path = "signature.algorithm" -> SignatureAlgorithms \union {Garbage}
       [] path = "signature.value" -> {Garbage}
       [] path = "metadata" -> {EmptyObject, Surrogate}
       [] path = "metadata.signalProfile" -> {Missing, Garbage}]

MCArtifactAlternatives ==
  [field \in {"path", "sha256", "sizeBytes", "mimeType"} |->
     CASE field = "path" -> {"b", "../outside"}
       [] field = "sha256" -> {<<"sha256", File("b")>>, Garbage}
       [] field = "sizeBytes" -> {<<"bytes", File("b")>>}
       [] field = "mimeType" -> {"text/plain"}]

MCEnvelopeAlternatives ==
  [path \in EnvelopeFields |->
     CASE path \in EnvelopeTexts \ {"needDropId"} -> {"another", Blank}
       [] path = "needDropId" -> {"need-1", "lone surrogate"}
       [] path = "profile" -> {Garbage}
       [] path = "profileVersion" -> {"2.0.0"}
       [] path \in {"claimSnapshotDigest", "disclosureSnapshotDigest"} -> {"another digest", Garbage}
       [] path = "attestedScopes" -> {<<"identity_verified">>, <<"timing_observed", "timing_observed">>}
       [] path = "observer" -> {Missing}
       [] path = "observer.kind" -> {"independent", "unknown"}
       [] path = "observer.observedAt" -> {"another time", "not a timestamp"}
       [] path = "evaluator" -> {Missing}
       [] path = "evidence" -> {<< >>, <<Evidence("evidence-1", "public")>>, Garbage}
       [] path = "limitations" -> {Missing, <<"another">>, <<"lone surrogate">>}
       [] path = "extra" -> {"present"}]

MCParts == {{"artifacts", "merkle.leaves", "merkle.root"}, SignatureFields, {"signature.value"},
            {"proofId", "signature.value"}, {"metadata", "metadata.signalProfile"}, TaskFields}
=============================================================================
