----------------------------- MODULE MerkleTree -----------------------------
(***************************************************************************)
(* The Merkle trees of receipts and audit bundles (src/core/merkle.ts). A  *)
(* digest is a tuple that names what was hashed, so that no two inputs     *)
(* share one; ASCII case is kept, as digests travel in hexadecimal text:   *)
(* <<"UPPER", d>> is the digest d written in capitals. A malformed digest, *)
(* which the code refuses before it hashes, is no value of this module.    *)
(***************************************************************************)
EXTENDS Integers, Sequences

toLowerCase(digest) == IF digest[1] = "UPPER" THEN digest[2] ELSE digest

hashLeaf(item) == <<"leaf", toLowerCase(item)>>
hashNodes(left, right) == <<"node", toLowerCase(left), toLowerCase(right)>>

\* The root of no leaves: the legacy profile hashes its leaf prefix, RFC 6962 nothing.
EmptyRoot(profile) == IF profile = "legacy-duplicated" THEN <<"leaf">> ELSE <<"empty">>

\* Mutant: both profiles pair it with itself.
AlwaysPaired(node, profile) == hashNodes(node, node)

\* A last node without a sibling is paired with itself or promoted.
Unpaired(node, profile) == IF profile = "legacy-duplicated" THEN hashNodes(node, node) ELSE node

\* The loop ends when one node is left: what follows is left as it is.
NextLayer(layer, profile) ==
  IF Len(layer) <= 1 THEN layer
  ELSE [n \in 1 .. (Len(layer) + 1) \div 2 |->
          IF 2 * n <= Len(layer)
          THEN hashNodes(layer[2 * n - 1], layer[2 * n])
          ELSE Unpaired(layer[2 * n - 1], profile)]

buildLayers(leaves, profile) ==
  LET layer[k \in 0 .. Len(leaves)] ==
        IF k = 0 THEN leaves ELSE NextLayer(layer[k - 1], profile)
  IN  layer

getRoot(leaves, profile) ==
  IF leaves = <<>> THEN EmptyRoot(profile)
  ELSE buildLayers(leaves, profile)[Len(leaves)][1]

\* Mutant: a path repeats a node without a sibling in both profiles.
AlwaysOneStep(layer, at, profile) ==
  LET right == at % 2 = 1
      sibling == IF right THEN at - 1 ELSE IF at + 1 < Len(layer) THEN at + 1 ELSE at
  IN  IF Len(layer) <= 1 THEN <<>>
      ELSE <<[position |-> IF right THEN "left" ELSE "right", hash |-> layer[sibling + 1]]>>

\* The steps, none or one, that a path through position `at' (from 0) of a layer adds.
ProofStep(layer, at, profile) ==
  LET right == at % 2 = 1
      sibling == IF right THEN at - 1 ELSE at + 1
  IN  CASE Len(layer) <= 1 -> <<>>
        [] Len(layer) > 1 /\ sibling < Len(layer) ->
             <<[position |-> IF right THEN "left" ELSE "right", hash |-> layer[sibling + 1]]>>
        [] Len(layer) > 1 /\ sibling >= Len(layer) /\ profile = "legacy-duplicated" ->
             <<[position |-> "right", hash |-> layer[at + 1]]>>
        [] OTHER -> <<>>

getProof(leaves, profile, index) ==
  LET layer == buildLayers(leaves, profile)
      path[k \in 0 .. Len(leaves)] ==
        IF k = 0 THEN [at |-> index, steps |-> <<>>]
        ELSE [at |-> path[k - 1].at \div 2,
              steps |-> path[k - 1].steps \o ProofStep(layer[k - 1], path[k - 1].at, profile)]
  IN  path[Len(leaves)].steps

verifyProof(leafHash, proof, expectedRoot) ==
  LET current[k \in 0 .. Len(proof)] ==
        IF k = 0 THEN toLowerCase(leafHash)
        ELSE IF proof[k].position = "left" THEN hashNodes(proof[k].hash, current[k - 1])
        ELSE hashNodes(current[k - 1], proof[k].hash)
  IN  /\ \A k \in DOMAIN proof : proof[k].position \in {"left", "right"}
      /\ current[Len(proof)] = toLowerCase(expectedRoot)
-----------------------------------------------------------------------------
\* RFC 6962, section 2.1, which merkle.ts names as its reference: n > 1 leaves are split
\* after the largest power of two smaller than n.
PowersOfTwo(n) ==
  LET power[d \in 0 .. n] == IF d = 0 THEN 1 ELSE 2 * power[d - 1]
  IN  {power[d] : d \in 0 .. n}

Split(n) == CHOOSE m \in 1 .. n - 1 : n <= 2 * m /\ m \in PowersOfTwo(n)

TreeHead(leaves) ==
  LET ranges == {r \in (0 .. Len(leaves)) \X (1 .. Len(leaves)) : r[1] + r[2] <= Len(leaves)}
      head[r \in ranges] ==
        IF r[2] = 1 THEN leaves[r[1] + 1]
        ELSE hashNodes(head[<<r[1], Split(r[2])>>], head[<<r[1] + Split(r[2]), r[2] - Split(r[2])>>])
  IN  IF leaves = <<>> THEN <<"empty">> ELSE head[<<0, Len(leaves)>>]
=============================================================================
