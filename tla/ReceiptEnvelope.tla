--------------------------- MODULE ReceiptEnvelope ---------------------------
(***************************************************************************)
(* What validateReceiptEnvelope() (src/core/envelope.ts) demands of a      *)
(* parsed receipt. A receipt maps the path of each field to its value; a   *)
(* JSON object among the values is "object", its members have paths of     *)
(* their own. Missing, Garbage (another JSON type, or text that is not of  *)
(* the form wanted) and Blank (the empty string) take the place of a       *)
(* value. Errors are a set of <<code, path, position in a list>>: their    *)
(* order is left out.                                                      *)
(***************************************************************************)
EXTENDS Integers, Sequences

CONSTANTS Missing, Garbage, Blank

Scalars == {"protocol", "version", "proofId", "timestamp", "parentOrganization"}
TaskFields == {"task", "task.name", "task.status"}
EnvironmentFields ==
  {"environment", "environment.platform", "environment.arch", "environment.runtime"}
MerkleFields == {"merkle", "merkle.algorithm", "merkle.leaves", "merkle.root"}
SignatureFields == {"signature", "signature.algorithm", "signature.keyId",
                    "signature.signerIdentity", "signature.value", "signature.timestamp"}
\* "metadata.signalProfile" is the member that the Signal profile adds to the metadata.
ReceiptFields == Scalars \union TaskFields \union EnvironmentFields \union MerkleFields
                   \union SignatureFields \union {"artifacts", "metadata", "metadata.signalProfile"}

Supported == {"1.0.0", "2.0.0"}
SignatureAlgorithms == {"HMAC-SHA256", "Ed25519"}
isDigest(value) == value \notin {Missing, Garbage, Blank}
isTimestamp(value) == isDigest(value) /\ value # "not a timestamp"

Required(value, accepted, code, path, at) ==
  IF value = Missing THEN {<<"FIELD_MISSING", path, at>>}
  ELSE IF accepted THEN {} ELSE {<<code, path, at>>}

requireNonEmptyString(value, path, at) ==
  Required(value, value \notin {Garbage, Blank}, "FIELD_TYPE_INVALID", path, at)

\* The errors of an object or a list: its own if it is none, else those of what it contains.
Within(value, path, contents) ==
  IF value \in {Missing, Garbage} THEN Required(value, FALSE, "FIELD_TYPE_INVALID", path, 0)
  ELSE contents

ProtocolErrors(r) ==
  IF r["protocol"] = Missing THEN {<<"PROTOCOL_MISSING", "protocol", 0>>}
  ELSE IF r["protocol"] # "nymrel-proof-ledger" THEN {<<"PROTOCOL_UNSUPPORTED", "protocol", 0>>} ELSE {}

VersionErrors(r) ==
  IF r["version"] = Missing THEN {<<"VERSION_MISSING", "version", 0>>}
  ELSE IF r["version"] \notin Supported THEN {<<"VERSION_UNSUPPORTED", "version", 0>>} ELSE {}

ScalarErrors(r) ==
  (UNION {requireNonEmptyString(r[path], path, 0) : path \in {"proofId", "parentOrganization"}})
    \union Required(r["timestamp"], isTimestamp(r["timestamp"]),
                    IF r["timestamp"] = Garbage THEN "FIELD_TYPE_INVALID"
                    ELSE "TIMESTAMP_MALFORMED", "timestamp", 0)

TaskErrors(r) ==
  Within(r["task"], "task", requireNonEmptyString(r["task.name"], "task.name", 0))

EnvironmentErrors(r) ==
  Within(r["environment"], "environment",
         UNION {requireNonEmptyString(r[path], path, 0) :
                  path \in EnvironmentFields \ {"environment"}})

ArtifactErrors(item, at) ==
  IF item = Garbage THEN {<<"FIELD_TYPE_INVALID", "artifacts", at>>}
  ELSE requireNonEmptyString(item.path, "artifacts.path", at)
         \union Required(item.sha256, isDigest(item.sha256), "HASH_MALFORMED", "artifacts.sha256", at)
         \union Required(item.sizeBytes, item.sizeBytes # Garbage, "FIELD_TYPE_INVALID",
                         "artifacts.sizeBytes", at)

ArtifactListErrors(r) ==
  Within(r["artifacts"], "artifacts",
         UNION {ArtifactErrors(r["artifacts"][at], at) : at \in DOMAIN r["artifacts"]})

\* The tree algorithm is compared only when the version says which one it has to be.
MerkleErrors(r) ==
  Within(r["merkle"], "merkle",
    Required(r["merkle.algorithm"],
             r["version"] \in Supported =>
               r["merkle.algorithm"] = IF r["version"] = "2.0.0" THEN "RFC6962-SHA256" ELSE "SHA-256",
             "FIELD_TYPE_INVALID", "merkle.algorithm", 0)
    \union Within(r["merkle.leaves"], "merkle.leaves",
             UNION {IF isDigest(r["merkle.leaves"][at]) THEN {}
                    ELSE {<<"HASH_MALFORMED", "merkle.leaves", at>>} : at \in DOMAIN r["merkle.leaves"]})
    \union Required(r["merkle.root"], isDigest(r["merkle.root"]), "HASH_MALFORMED", "merkle.root", 0))

\* The algorithm in whose format a signature value is written, in either case.
Encoding(value) == IF value[1] = "UPPER" THEN value[2][1] ELSE value[1]

SignatureErrors(r) ==
  LET algorithm == r["signature.algorithm"]
      value == r["signature.value"]
  IN  Within(r["signature"], "signature",
        Required(algorithm, algorithm \in SignatureAlgorithms, "FIELD_TYPE_INVALID",
                 "signature.algorithm", 0)
        \union requireNonEmptyString(r["signature.keyId"], "signature.keyId", 0)
        \union requireNonEmptyString(r["signature.signerIdentity"], "signature.signerIdentity", 0)
        \union Required(value, value \notin {Garbage, Blank} /\
                          (algorithm \in SignatureAlgorithms => Encoding(value) = algorithm),
                        "FIELD_TYPE_INVALID", "signature.value", 0)
        \union Required(r["signature.timestamp"], isTimestamp(r["signature.timestamp"]),
                        "TIMESTAMP_MALFORMED", "signature.timestamp", 0))

MetadataErrors(r) == Within(r["metadata"], "metadata", {})

validateReceiptEnvelope(r) ==
  IF r \in {Missing, Garbage} THEN {<<"ENVELOPE_NOT_OBJECT", "", 0>>}
  ELSE ProtocolErrors(r) \union VersionErrors(r) \union ScalarErrors(r) \union TaskErrors(r)
         \union EnvironmentErrors(r) \union ArtifactListErrors(r) \union MerkleErrors(r)
         \union SignatureErrors(r) \union MetadataErrors(r)
=============================================================================
