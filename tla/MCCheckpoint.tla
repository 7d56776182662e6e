----------------------------- MODULE MCCheckpoint -----------------------------
(***************************************************************************)
(* A small instance of Checkpoint: a ledger of two events in two epochs,   *)
(* two keys, two receipts, not all of which retain a checkpoint, and two   *)
(* revisions of the trust bundle.                                          *)
(***************************************************************************)
EXTENDS Checkpoint

Key1 == <<"hex", "k1">>
Key2 == <<"hex", "k2">>
MCKeys == {Key1, Key2}
MCElsewhere == [sourceId |-> "elsewhere", genesis |-> "g1", records |-> <<"e3", "e3">>]

EventsAlike == Permutations(Events)

EmptyObject == [type |-> "object", value |-> "", members |-> [m \in {} |-> m], own |-> {}]
MCValues == {EmptyObject}

File(path, mimeType) == [path |-> path, mimeType |-> mimeType]
Retention ==
  [name |-> "Retain external checkpoint", status |-> "ATTESTED",
   artifacts |-> <<File("checkpoint.json", "application/json")>>, metadata |-> EmptyObject,
   mirror |-> Missing, signingKey |-> Key1, keyId |-> "k1", signerIdentity |-> "keeper",
   algorithm |-> "Ed25519"]

MCRetentions == {Retention, [Retention EXCEPT !.signingKey = Key2, !.keyId = "k2"]}
MCOrders == MCRetentions \union {[Retention EXCEPT !.name = "build"],
                                 [Retention EXCEPT !.artifacts = <<Head(@), Head(@)>>]}

MCPolicies == {[key \in {Key1} |-> "ACTIVE"],
               [key \in MCKeys |-> IF key = Key1 THEN "SUPERSEDED" ELSE "ACTIVE"],
               [key \in MCKeys |-> IF key = Key1 THEN "REVOKED" ELSE "ACTIVE"]}

MCCheckpointAlternatives ==
  [field \in {"version", "checkpointId", "eventCount", "highestSequence"} |->
     CASE field = "version" -> {"0.2.0"}
       [] field = "checkpointId" -> {"another", Garbage}
       [] field = "eventCount" -> {0, Garbage}
       [] field = "highestSequence" -> {7}]

MCReceiptAlternatives ==
  [field \in {"version", "signature.value", "merkle.leaves", "proofId"} |->
     CASE field = "version" -> {"1.0.0"}
       [] field = "signature.value" -> {<<"Ed25519", PublicKey(Key2), <<"another payload">>>>}
       [] field = "merkle.leaves" -> {<< >>}
       [] field = "proofId" -> {Missing}]

MCTrustAlternatives ==
  [field \in {"version", "revision", "keys"} |->
     CASE field = "version" -> {"0.2.0"}
       [] field = "revision" -> {0, 7}
       [] field = "keys" -> {<< >>}]

MCRelative == [path \in {} |-> path]
=============================================================================
