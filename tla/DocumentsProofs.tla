--------------------------- MODULE DocumentsProofs ---------------------------
(***************************************************************************)
(* Proofs about Documents, for any orders, keys and files, and any changes *)
(* that do not forge a signature.                                          *)
(***************************************************************************)
EXTENDS Documents, ReceiptProofs, FiniteSetTheorems

(***************************************************************************)
(* Receipts that are worked on.                                            *)
(***************************************************************************)
\* A receipt of the right form with the signature of one of the documents.
IsReworked(r, documents) ==
  /\ IsFormed(r)
  /\ \E i \in DOMAIN documents :
       toLowerCase(r["signature.value"]) = documents[i].receipt["signature.value"]

\* What a receipt is after one of its fields was changed.
Changes(r, path, value, t) ==
  /\ IsReceipt(t) /\ (path \in ReceiptFields => t[path] = value)
  /\ \A p \in ReceiptFields : p # path => t[p] = r[p]

LEMMA OneFieldChanged ==
  ASSUME NEW r, IsReceipt(r), NEW path, NEW value, NEW t, t = [r EXCEPT ![path] = value]
  PROVE  Changes(r, path, value, t)
<1>1. DOMAIN r = ReceiptFields
  BY DEF IsReceipt
<1>2. t = [p \in ReceiptFields |-> IF p = path THEN value ELSE r[p]]
  BY <1>1
<1>3. \A p \in ReceiptFields : t[p] = IF p = path THEN value ELSE r[p]
  BY <1>2
<1>4. IsReceipt(t)
  BY <1>2 DEF IsReceipt
<1> QED
  BY <1>3, <1>4 DEF Changes

LEMMA FieldReworked ==
  ASSUME NEW r, NEW documents, IsReworked(r, documents), NEW path \in ReceiptFields, NEW value,
         FieldFits(path, value),
         path = "signature.value" => toLowerCase(value) = toLowerCase(r["signature.value"]),
         NEW t, t = [r EXCEPT ![path] = value]
  PROVE  IsReworked(t, documents)
<1>1. IsReceipt(r) /\ \A p \in ReceiptFields : FieldFits(p, r[p])
  BY FormedFieldsFit DEF IsReworked
<1>2. Changes(r, path, value, t)
  BY <1>1, OneFieldChanged
<1>3. \A p \in ReceiptFields : FieldFits(p, t[p])
  BY <1>1, <1>2 DEF Changes
<1>4. IsFormed(t)
  BY <1>2, <1>3, FormedFieldsFit DEF Changes
<1>5. "signature.value" \in ReceiptFields
  BY DEF ReceiptFields, SignatureFields
<1>6. toLowerCase(t["signature.value"]) = toLowerCase(r["signature.value"])
  BY <1>2, <1>5 DEF Changes
<1> QED
  BY <1>4, <1>6 DEF IsReworked

LEMMA AlternativeChosen ==
  ASSUME NEW r, NEW documents, IsReworked(r, documents), NEW path \in DOMAIN Alternatives,
         NEW value \in Alternatives[path], NEW t, t = [r EXCEPT ![path] = value], ValidReceipt(t)
  PROVE  IsReworked(t, documents)
<1>1. IsReceipt(r)
  BY DEF IsReworked, IsFormed
<1>2. Changes(r, path, value, t)
  BY <1>1, OneFieldChanged
<1>3. CASE path \notin ReceiptFields
  <2>1. t = r
    BY <1>1, <1>2, <1>3 DEF IsReceipt, Changes
  <2> QED
    BY <2>1
<1>4. CASE path \in ReceiptFields
  <2>1. t[path] = value
    BY <1>2, <1>4 DEF Changes
  <2>2. /\ path = "signature.value" => value \in Marks
        /\ path \in Objects \union {"artifacts", "merkle.leaves"} => value \in {Missing, Garbage}
        /\ path = "metadata" => value \in Values \union {Missing, Garbage}
    <3>1. ASSUME path = "signature.value" PROVE value \in Marks
      BY <3>1, AlternativesAssumption DEF Marks
    <3>2. ASSUME path \in Objects \union {"artifacts", "merkle.leaves"} PROVE value \in {Missing, Garbage}
      BY <3>2, AlternativesAssumption DEF Objects
    <3>3. ASSUME path = "metadata" PROVE value \in Values \union {Missing, Garbage}
      BY <3>3, AlternativesAssumption
    <3> QED
      BY <3>1, <3>2, <3>3
  <2>3. path # "signature.value"
    BY <2>1, <2>2, FieldNotValid
  <2>4. path \notin Objects \union {"artifacts", "merkle.leaves"}
    BY <2>1, <2>2, FieldNotValid
  <2>5. path = "metadata" => value \in Values
    BY <2>1, <2>2, FieldNotValid
  <2>6. FieldFits(path, value)
    BY <2>4, <2>5 DEF FieldFits
  <2> QED
    BY <1>4, <2>3, <2>6, FieldReworked
<1> QED
  BY <1>3, <1>4

\* A list of artifacts in which one was changed.
LEMMA ArtifactReworked ==
  ASSUME NEW r, NEW documents, IsReworked(r, documents), NEW at \in DOMAIN r["artifacts"], NEW item,
         IsArtifact(item), NEW t, t = [r EXCEPT !["artifacts"] = [@ EXCEPT ![at] = item]]
  PROVE  IsReworked(t, documents)
<1> DEFINE artifacts == r["artifacts"]
           changed == [artifacts EXCEPT ![at] = item]
<1>1. IsList(artifacts) /\ \A m \in 1 .. Len(artifacts) : IsArtifact(artifacts[m])
  BY DEF IsReworked, IsFormed
<1>2. t = [r EXCEPT !["artifacts"] = changed]
  OBVIOUS
<1> HIDE DEF artifacts
<1>3. changed = [m \in 1 .. Len(artifacts) |-> IF m = at THEN item ELSE artifacts[m]] /\ Len(artifacts) \in Nat
  BY <1>1 DEF IsList
<1> HIDE DEF changed
<1>4. Len(changed) = Len(artifacts)
  BY <1>3
<1>5. IsList(changed) /\ \A m \in 1 .. Len(changed) : IsArtifact(changed[m])
  BY <1>1, <1>3, <1>4 DEF IsList
<1>6. FieldFits("artifacts", changed)
  BY <1>5 DEF FieldFits, Objects
<1>7. "artifacts" \in ReceiptFields
  BY DEF ReceiptFields
<1> QED
  BY <1>2, <1>6, <1>7, FieldReworked

LEMMA UpperLowers ==
  ASSUME NEW digest
  PROVE  toLowerCase(Upper(digest)) = toLowerCase(digest)
BY DEF Upper, toLowerCase

LEMMA CapitalisedArtifact ==
  ASSUME NEW item, IsArtifact(item)
  PROVE  IsArtifact([item EXCEPT !.sha256 = Upper(@)])
<1> DEFINE digest == Upper(item.sha256)
           changed == [item EXCEPT !.sha256 = Upper(@)]
<1>1. toLowerCase(digest) = toLowerCase(item.sha256)
  BY UpperLowers
<1> HIDE DEF digest
<1>2. item = [path |-> item.path, sha256 |-> item.sha256, sizeBytes |-> item.sizeBytes,
              mimeType |-> item.mimeType]
  BY DEF IsArtifact
<1>3. changed = [path |-> item.path, sha256 |-> digest, sizeBytes |-> item.sizeBytes,
                 mimeType |-> item.mimeType]
  BY <1>2 DEF digest
<1> HIDE DEF changed
<1>4. changed = [path |-> changed.path, sha256 |-> changed.sha256, sizeBytes |-> changed.sizeBytes,
                 mimeType |-> changed.mimeType] /\ changed.sha256 = digest
  BY <1>3
<1>5. \E content : toLowerCase(changed.sha256) = <<"sha256", content>>
  BY <1>1, <1>4 DEF IsArtifact
<1> QED
  BY <1>4, <1>5 DEF IsArtifact, changed

LEMMA RecordsChanged ==
  ASSUME NEW item, NEW a, NEW b, NEW c, NEW d, NEW value,
         item = [path |-> a, sha256 |-> b, sizeBytes |-> c, mimeType |-> d]
  PROVE  /\ [item EXCEPT !.path = value] = [path |-> value, sha256 |-> b, sizeBytes |-> c, mimeType |-> d]
         /\ [item EXCEPT !.sha256 = value] = [path |-> a, sha256 |-> value, sizeBytes |-> c, mimeType |-> d]
         /\ [item EXCEPT !.sizeBytes = value] = [path |-> a, sha256 |-> b, sizeBytes |-> value, mimeType |-> d]
         /\ [item EXCEPT !.mimeType = value] = [path |-> a, sha256 |-> b, sizeBytes |-> c, mimeType |-> value]
OBVIOUS

\* An artifact with another path, size or type, or with the digest of another content.
LEMMA ChangedArtifact ==
  ASSUME NEW item, IsArtifact(item), NEW field \in DOMAIN ArtifactAlternatives,
         NEW value \in ArtifactAlternatives[field]
  PROVE  LET changed == [item EXCEPT ![field] = value]
         IN  IsArtifact(changed) \/ changed.sha256 \in Marks
<1> DEFINE changed == [item EXCEPT ![field] = value]
<1>1. item = [path |-> item.path, sha256 |-> item.sha256, sizeBytes |-> item.sizeBytes,
              mimeType |-> item.mimeType]
  BY DEF IsArtifact
<1> DEFINE path == IF field = "path" THEN value ELSE item.path
           sha256 == IF field = "sha256" THEN value ELSE item.sha256
           sizeBytes == IF field = "sizeBytes" THEN value ELSE item.sizeBytes
           mimeType == IF field = "mimeType" THEN value ELSE item.mimeType
<1>2. changed = [path |-> path, sha256 |-> sha256, sizeBytes |-> sizeBytes, mimeType |-> mimeType]
  <2> HIDE DEF changed, path, sha256, sizeBytes, mimeType
  <2>1. CASE field = "path"
    <3>1. changed = [item EXCEPT !.path = value]
      BY <2>1 DEF changed
    <3> QED
      BY <1>1, <2>1, <3>1, RecordsChanged DEF path, sha256, sizeBytes, mimeType
  <2>2. CASE field = "sha256"
    <3>1. changed = [item EXCEPT !.sha256 = value]
      BY <2>2 DEF changed
    <3> QED
      BY <1>1, <2>2, <3>1, RecordsChanged DEF path, sha256, sizeBytes, mimeType
  <2>3. CASE field = "sizeBytes"
    <3>1. changed = [item EXCEPT !.sizeBytes = value]
      BY <2>3 DEF changed
    <3> QED
      BY <1>1, <2>3, <3>1, RecordsChanged DEF path, sha256, sizeBytes, mimeType
  <2>4. CASE field = "mimeType"
    <3>1. changed = [item EXCEPT !.mimeType = value]
      BY <2>4 DEF changed
    <3> QED
      BY <1>1, <2>4, <3>1, RecordsChanged DEF path, sha256, sizeBytes, mimeType
  <2>5. CASE field \notin {"path", "sha256", "sizeBytes", "mimeType"}
    <3>1. DOMAIN item = {"path", "sha256", "sizeBytes", "mimeType"}
      BY <1>1
    <3>2. changed = item
      BY <1>1, <2>5, <3>1 DEF changed
    <3> QED
      BY <1>1, <2>5, <3>2 DEF path, sha256, sizeBytes, mimeType
  <2> QED
    BY <2>1, <2>2, <2>3, <2>4, <2>5
<1> HIDE DEF changed, path, sha256, sizeBytes, mimeType
<1>3. changed = [path |-> changed.path, sha256 |-> changed.sha256, sizeBytes |-> changed.sizeBytes,
                 mimeType |-> changed.mimeType] /\ changed.sha256 = sha256
  BY <1>2
<1>4. CASE field = "sha256"
  <2>1. sha256 = value
    BY <1>4 DEF sha256
  <2>2. value \in Marks \/ value = <<"sha256", value[2]>>
    BY <1>4, AlternativesAssumption DEF Marks
  <2>3. \A content : toLowerCase(<<"sha256", content>>) = <<"sha256", content>>
    BY DEF toLowerCase
  <2>4. sha256 \in Marks \/ toLowerCase(sha256) = <<"sha256", value[2]>>
    BY <2>1, <2>2, <2>3
  <2> QED
    BY <1>3, <2>4 DEF IsArtifact, changed
<1>5. CASE field # "sha256"
  <2>1. sha256 = item.sha256
    BY <1>5 DEF sha256
  <2> QED
    BY <1>3, <2>1 DEF IsArtifact, changed
<1> QED
  BY <1>4, <1>5

\* A list without its last element, and with that element twice.
LEMMA ShorterAndLonger ==
  ASSUME NEW list, IsList(list), list # << >>
  PROVE  /\ IsList(Front(list)) /\ IsList(Append(list, Last(list)))
         /\ \A m \in 1 .. Len(Front(list)) : \E k \in 1 .. Len(list) : Front(list)[m] = list[k]
         /\ \A m \in 1 .. Len(Append(list, Last(list))) :
              \E k \in 1 .. Len(list) : Append(list, Last(list))[m] = list[k]
<1> DEFINE n == Len(list)
           T == {list[m] : m \in 1 .. n}
<1>1. n \in Nat /\ list = [m \in 1 .. n |-> list[m]]
  BY DEF IsList
<1>2. list \in [1 .. n -> T]
  BY <1>1
<1>3. list \in Seq(T)
  BY <1>1, <1>2
<1>4. n > 0
  BY <1>1, <1>3
<1>5. Front(list) \in Seq(T) /\ Len(Front(list)) = n - 1
      /\ \A m \in 1 .. n - 1 : Front(list)[m] = list[m]
  BY <1>1, <1>3, <1>4 DEF Front
<1>6. list[n] \in T
  BY <1>1, <1>4
<1>7. Append(list, list[n]) \in Seq(T) /\ Len(Append(list, list[n])) = n + 1
      /\ \A m \in 1 .. n + 1 : Append(list, list[n])[m] = IF m = n + 1 THEN list[n] ELSE list[m]
  BY <1>1, <1>3, <1>6
<1>8. \A f \in Seq(T) : IsList(f)
  BY DEF IsList
<1> HIDE DEF n, T
<1>9. \A m \in 1 .. Len(Front(list)) : \E k \in 1 .. n : Front(list)[m] = list[k]
  <2> SUFFICES ASSUME NEW m \in 1 .. Len(Front(list)) PROVE \E k \in 1 .. n : Front(list)[m] = list[k]
    OBVIOUS
  <2>1. m \in 1 .. n - 1 /\ m \in 1 .. n
    BY <1>1, <1>4, <1>5
  <2>2. Front(list)[m] = list[m]
    BY <1>5, <2>1
  <2> QED
    BY <2>1, <2>2
<1>10. \A m \in 1 .. Len(Append(list, list[n])) : \E k \in 1 .. n : Append(list, list[n])[m] = list[k]
  BY <1>1, <1>4, <1>7
<1> QED
  BY <1>5, <1>7, <1>8, <1>9, <1>10 DEF Last, n

LEMMA ListReworked ==
  ASSUME NEW r, NEW documents, IsReworked(r, documents), NEW path \in {"artifacts", "merkle.leaves"},
         r[path] # << >>
  PROVE  /\ IsReworked([r EXCEPT ![path] = Front(@)], documents)
         /\ IsReworked([r EXCEPT ![path] = Append(@, Last(@))], documents)
<1> DEFINE list == r[path]
           shorter == Front(list)
           longer == Append(list, Last(list))
<1>1. IsList(list) /\ (path = "artifacts" => \A m \in 1 .. Len(list) : IsArtifact(list[m]))
  BY DEF IsReworked, IsFormed
<1> HIDE DEF list
<1>2. /\ IsList(shorter) /\ \A m \in 1 .. Len(shorter) : \E k \in 1 .. Len(list) : shorter[m] = list[k]
      /\ IsList(longer) /\ \A m \in 1 .. Len(longer) : \E k \in 1 .. Len(list) : longer[m] = list[k]
  BY <1>1, ShorterAndLonger DEF list
<1> HIDE DEF shorter, longer
<1>3. \A f : IsList(f) /\ (\A m \in 1 .. Len(f) : \E k \in 1 .. Len(list) : f[m] = list[k]) => FieldFits(path, f)
  BY <1>1 DEF FieldFits, Objects
<1>4. FieldFits(path, shorter) /\ FieldFits(path, longer)
  BY <1>2, <1>3
<1>5. path \in ReceiptFields /\ path # "signature.value"
  BY DEF ReceiptFields, MerkleFields
<1>6. [r EXCEPT ![path] = Front(@)] = [r EXCEPT ![path] = shorter]
  BY DEF shorter, list
<1>7. [r EXCEPT ![path] = Append(@, Last(@))] = [r EXCEPT ![path] = longer]
  BY DEF longer, list
<1>8. IsReworked([r EXCEPT ![path] = shorter], documents)
  BY <1>4, <1>5, FieldReworked
<1>9. IsReworked([r EXCEPT ![path] = longer], documents)
  BY <1>4, <1>5, FieldReworked
<1> QED
  BY <1>6, <1>7, <1>8, <1>9

LEMMA LeavesCapitalised ==
  ASSUME NEW r, NEW documents, IsReworked(r, documents)
  PROVE  IsReworked([r EXCEPT !["merkle.leaves"] = [at \in DOMAIN @ |-> Upper(@[at])]], documents)
<1> DEFINE leaves == r["merkle.leaves"]
           upper == [at \in DOMAIN leaves |-> Upper(leaves[at])]
<1>1. IsList(leaves)
  BY DEF IsReworked, IsFormed
<1>2. [r EXCEPT !["merkle.leaves"] = [at \in DOMAIN @ |-> Upper(@[at])]] = [r EXCEPT !["merkle.leaves"] = upper]
  OBVIOUS
<1> HIDE DEF leaves
<1>3. Len(leaves) \in Nat /\ upper = [at \in 1 .. Len(leaves) |-> Upper(leaves[at])]
  BY <1>1 DEF IsList
<1> HIDE DEF upper
<1>4. IsList(upper)
  BY <1>3, Lists DEF IsList
<1>5. FieldFits("merkle.leaves", upper) /\ "merkle.leaves" \in ReceiptFields
  BY <1>4 DEF FieldFits, Objects, ReceiptFields, MerkleFields
<1> QED
  BY <1>2, <1>5, FieldReworked

LEMMA DigestCapitalised ==
  ASSUME NEW r, NEW documents, IsReworked(r, documents), NEW path \in {"merkle.root", "signature.value"}
  PROVE  IsReworked([r EXCEPT ![path] = Upper(@)], documents)
<1> DEFINE value == Upper(r[path])
<1>1. toLowerCase(value) = toLowerCase(r[path])
  BY UpperLowers
<1>2. [r EXCEPT ![path] = Upper(@)] = [r EXCEPT ![path] = value]
  OBVIOUS
<1> HIDE DEF value
<1>3. FieldFits(path, value) /\ path \in ReceiptFields
  BY DEF FieldFits, Objects, ReceiptFields, MerkleFields, SignatureFields
<1>4. path = "signature.value" => toLowerCase(value) = toLowerCase(r["signature.value"])
  BY <1>1
<1>5. IsReworked([r EXCEPT ![path] = value], documents)
  BY <1>3, <1>4, FieldReworked
<1> QED
  BY <1>2, <1>5

LEMMA TreeRecomputed ==
  ASSUME NEW r, NEW documents, IsReworked(r, documents)
  PROVE  IsReworked(WithTree(r, Tree(r)), documents)
<1> DEFINE leaves == Tree(r).leaves
           root == Tree(r).root
           t == [r EXCEPT !["merkle.leaves"] = leaves]
<1>1. AreLeaves(leaves)
  BY TreesHaveLeaves DEF IsReworked, IsFormed
<1>2. IsList(leaves)
  BY <1>1 DEF AreLeaves, AreDigests
<1>3. WithTree(r, Tree(r)) = [t EXCEPT !["merkle.root"] = root]
  BY DEF WithTree
<1> HIDE DEF leaves, root
<1>4. FieldFits("merkle.leaves", leaves) /\ "merkle.leaves" \in ReceiptFields
  BY <1>2 DEF FieldFits, Objects, ReceiptFields, MerkleFields
<1>5. IsReworked(t, documents)
  BY <1>4, FieldReworked
<1> HIDE DEF t
<1>6. FieldFits("merkle.root", root) /\ "merkle.root" \in ReceiptFields
  BY DEF FieldFits, Objects, ReceiptFields, MerkleFields
<1>7. IsReworked([t EXCEPT !["merkle.root"] = root], documents)
  BY <1>5, <1>6, FieldReworked
<1> QED
  BY <1>3, <1>7

\* Two receipts of which some fields were exchanged.
LEMMA FieldsExchanged ==
  ASSUME NEW r, NEW documents, IsReworked(r, documents), NEW i \in DOMAIN documents,
         IsSigned(documents[i].receipt), NEW part
  PROVE  IsReworked([path \in ReceiptFields |->
                       IF path \in part THEN documents[i].receipt[path] ELSE r[path]], documents)
<1> DEFINE s == documents[i].receipt
           t == [path \in ReceiptFields |-> IF path \in part THEN s[path] ELSE r[path]]
<1>1. \A path \in ReceiptFields : FieldFits(path, r[path])
  BY FormedFieldsFit DEF IsReworked
<1>2. \A path \in ReceiptFields : FieldFits(path, s[path])
  BY SignedIsFormed, FormedFieldsFit
<1>3. Lower(s["signature.value"])
  BY SignatureValues
<1> HIDE DEF s
<1>4. \A path \in ReceiptFields : t[path] = s[path] \/ t[path] = r[path]
  OBVIOUS
<1>5. IsReceipt(t)
  BY DEF IsReceipt
<1> HIDE DEF t
<1>6. \A path \in ReceiptFields : FieldFits(path, t[path])
  BY <1>1, <1>2, <1>4
<1>7. IsFormed(t)
  BY <1>5, <1>6, FormedFieldsFit
<1>8. "signature.value" \in ReceiptFields
  BY DEF ReceiptFields, SignatureFields
<1>9. CASE t["signature.value"] = s["signature.value"]
  BY <1>3, <1>7, <1>9 DEF IsReworked, Lower, s, t
<1>10. CASE t["signature.value"] = r["signature.value"]
  BY <1>7, <1>10 DEF IsReworked, s, t
<1> QED
  BY <1>4, <1>8, <1>9, <1>10
-----------------------------------------------------------------------------
(***************************************************************************)
(* Lists of the members of a set, and rearranged lists.                    *)
(***************************************************************************)
IsListOf(list, S) == IsList(list) /\ S = {list[at] : at \in DOMAIN list}

LEMMA MembersOnce ==
  ASSUME NEW list, NEW S, IsListOf(list, S)
  PROVE  /\ IsListOf(SetToSeq(S), S)
         /\ \A i, j \in DOMAIN SetToSeq(S) : SetToSeq(S)[i] = SetToSeq(S)[j] => i = j
<1> DEFINE n == Len(list)
           count == Cardinality(S)
           members == SetToSeq(S)
<1>1. n \in Nat /\ DOMAIN list = 1 .. n /\ list = [m \in 1 .. n |-> list[m]]
  BY DEF IsListOf, IsList
<1>2. IsFiniteSet(1 .. n)
  BY <1>1, FS_Interval
<1>3. list \in Surjection(1 .. n, S)
  BY <1>1 DEF Surjection, IsListOf
<1>4. IsFiniteSet(S)
  BY <1>2, <1>3, FS_Surjection
<1>5. count \in Nat /\ ExistsBijection(1 .. count, S)
  BY <1>4, FS_CardinalityType
<1>6. \E f \in [1 .. count -> S] : IsInjective(f)
  BY <1>5 DEF ExistsBijection, Bijection, Injection, IsInjective
<1>7. members \in [1 .. count -> S] /\ IsInjective(members)
  BY <1>6 DEF SetToSeq
<1> HIDE DEF members
<1>8. members \in Injection(1 .. count, S)
  BY <1>7 DEF Injection, IsInjective
<1>9. Cardinality(1 .. count) = count
  BY <1>5, FS_Interval
<1> HIDE DEF count
<1>10. members \in Surjection(1 .. count, S)
  BY <1>4, <1>8, <1>9, FS_Injection DEF count
<1>11. {members[at] : at \in DOMAIN members} = S
  BY <1>7, <1>10 DEF Surjection
<1>12. IsList(members)
  <2>1. Len(members) = count /\ members = [m \in 1 .. count |-> members[m]]
    BY <1>5, <1>7, Lists
  <2> QED
    BY <1>5, <2>1 DEF IsList
<1> QED
  BY <1>7, <1>11, <1>12 DEF IsInjective, IsListOf, members

\* The arrangements of a list with the domain D.
Arrangements(list, D) ==
  {[at \in D |-> list[order[at]]] : order \in {f \in [D -> D] : IsInjective(f)}}

LEMMA SortedIsAnArrangement ==
  ASSUME NEW list
  PROVE  /\ Sorted(list) \in Arrangements(list, DOMAIN list)
         /\ Sorted(list) = CHOOSE a \in Arrangements(list, DOMAIN list) : TRUE
<1> DEFINE D == DOMAIN list
           same == [at \in D |-> at]
<1>1. same \in [D -> D] /\ IsInjective(same)
  BY DEF IsInjective
<1> HIDE DEF same
<1>2. [at \in D |-> list[same[at]]] \in Arrangements(list, D)
  BY <1>1 DEF Arrangements
<1>3. Sorted(list) = CHOOSE a \in Arrangements(list, DOMAIN list) : TRUE
  BY DEF Sorted, Arrangements
<1> QED
  BY <1>2, <1>3

\* An arrangement of a list has the arrangements of that list.
LEMMA SortedStays ==
  ASSUME NEW list, IsList(list)
  PROVE  /\ IsList(Sorted(list)) /\ DOMAIN Sorted(list) = DOMAIN list
         /\ \A at \in DOMAIN list : \E to \in DOMAIN list : Sorted(list)[at] = list[to]
         /\ Sorted(Sorted(list)) = Sorted(list)
<1> DEFINE n == Len(list)
           D == 1 .. n
           s == Sorted(list)
           Injections == {f \in [D -> D] : IsInjective(f)}
<1>1. n \in Nat /\ DOMAIN list = D
  BY DEF IsList
<1>2. s \in Arrangements(list, D)
  BY SortedIsAnArrangement
<1>3. PICK g \in Injections : s = [at \in D |-> list[g[at]]]
  BY <1>1, <1>2 DEF Arrangements
<1> HIDE DEF s
<1>4. DOMAIN s = D /\ \A at \in D : g[at] \in D /\ s[at] = list[g[at]]
  BY <1>3
<1>5. IsList(s)
  <2>1. Len(s) = n
    BY <1>1, <1>3, Lists
  <2> QED
    BY <1>1, <1>3, <2>1 DEF IsList
<1>6. g \in Surjection(D, D)
  <2>1. IsFiniteSet(D)
    BY <1>1, FS_Interval
  <2>2. g \in Injection(D, D)
    BY DEF Injection, IsInjective
  <2> QED
    BY <2>1, <2>2, FS_Injection
<1>7. Arrangements(s, D) \subseteq Arrangements(list, D)
  <2> SUFFICES ASSUME NEW f \in Injections
               PROVE  [at \in D |-> s[f[at]]] \in Arrangements(list, D)
    BY DEF Arrangements
  <2> DEFINE h == [at \in D |-> g[f[at]]]
  <2>1. h \in [D -> D]
    OBVIOUS
  <2>3. DOMAIN h = D /\ \A at \in D : h[at] = g[f[at]] /\ f[at] \in D
    OBVIOUS
  <2> HIDE DEF h
  <2>2. IsInjective(h)
    <3> SUFFICES ASSUME NEW a \in D, NEW b \in D, h[a] = h[b] PROVE a = b
      BY <2>3 DEF IsInjective
    <3>1. f[a] = f[b]
      BY <2>3 DEF IsInjective
    <3> QED
      BY <3>1 DEF IsInjective
  <2> HIDE DEF D
  <2>4. [at \in D |-> s[f[at]]] = [at \in D |-> list[h[at]]]
    BY <1>4, <2>3
  <2> QED
    BY <1>1, <2>1, <2>2, <2>4 DEF Arrangements
<1>8. Arrangements(list, D) \subseteq Arrangements(s, D)
  <2> SUFFICES ASSUME NEW h \in Injections
               PROVE  [at \in D |-> list[h[at]]] \in Arrangements(s, D)
    BY DEF Arrangements
  <2> DEFINE f == [at \in D |-> CHOOSE to \in D : g[to] = h[at]]
  <2>1. \A at \in D : f[at] \in D /\ g[f[at]] = h[at]
    BY <1>6 DEF Surjection
  <2>2. f \in [D -> D]
    BY <2>1
  <2> HIDE DEF f
  <2>3. IsInjective(f)
    BY <2>1, <2>2 DEF IsInjective
  <2> HIDE DEF D
  <2>4. [at \in D |-> list[h[at]]] = [at \in D |-> s[f[at]]]
    BY <1>4, <2>1
  <2> QED
    BY <1>4, <2>2, <2>3, <2>4 DEF Arrangements
<1>9. Sorted(s) = s
  <2>1. Arrangements(s, D) = Arrangements(list, D)
    BY <1>7, <1>8
  <2> HIDE DEF D
  <2>2. Arrangements(s, DOMAIN s) = Arrangements(list, DOMAIN list)
    BY <1>1, <1>4, <2>1
  <2>3. Sorted(s) = CHOOSE a \in Arrangements(s, DOMAIN s) : TRUE
    BY SortedIsAnArrangement
  <2>4. s = CHOOSE a \in Arrangements(list, DOMAIN list) : TRUE
    BY SortedIsAnArrangement DEF s
  <2> QED
    BY <2>2, <2>3, <2>4
<1> QED
  BY <1>1, <1>4, <1>5, <1>9 DEF s
-----------------------------------------------------------------------------
(***************************************************************************)
(* Envelopes that were normalised.                                         *)
(***************************************************************************)
EnvelopeLists == {"attestedScopes", "evidence", "limitations"}
TrimmedItems(list) == [at \in DOMAIN list |-> [list[at] EXCEPT !.ref = trim(@)]]
TrimmedMembers(list) == {trim(list[at]) : at \in DOMAIN list}

LEMMA FieldsOfEnvelopes ==
  /\ EnvelopeTexts \subseteq EnvelopeFields /\ EnvelopeLists \subseteq EnvelopeFields
  /\ EnvelopeTexts \cap EnvelopeLists = {}
BY DEF EnvelopeFields, EnvelopeTexts, EnvelopeLists

LEMMA NormalFields ==
  ASSUME NEW e, NEW n, n = cloneAndNormalizeEnvelope(e)
  PROVE  /\ n = [path \in EnvelopeFields |-> n[path]]
         /\ \A path \in EnvelopeTexts : n[path] = trim(e[path])
         /\ \A path \in EnvelopeFields : path \notin EnvelopeTexts \union EnvelopeLists => n[path] = e[path]
         /\ n["attestedScopes"] = SetToSeq(ToSet(e["attestedScopes"]))
         /\ n["evidence"] = Sorted(TrimmedItems(e["evidence"]))
         /\ e["limitations"] # Missing => n["limitations"] = SetToSeq(TrimmedMembers(e["limitations"]))
         /\ e["limitations"] = Missing => n["limitations"] = Missing
<1> DEFINE items == [at \in DOMAIN e["evidence"] |-> [e["evidence"][at] EXCEPT !.ref = trim(@)]]
           limits == {trim(e["limitations"][at]) : at \in DOMAIN e["limitations"]}
           scopes == ToSet(e["attestedScopes"])
<1>1. items = TrimmedItems(e["evidence"]) /\ limits = TrimmedMembers(e["limitations"])
  BY DEF TrimmedItems, TrimmedMembers
<1>2. n = [path \in EnvelopeFields |->
             CASE path \in EnvelopeTexts -> trim(e[path])
               [] path = "attestedScopes" -> SortedSet(scopes)
               [] path = "evidence" -> Sorted(items)
               [] path = "limitations" /\ e[path] # Missing -> SortedSet(limits)
               [] OTHER -> e[path]]
  <2>1. n = [path \in EnvelopeFields |->
             CASE path \in EnvelopeTexts -> trim(e[path])
               [] path = "attestedScopes" -> SortedSet(ToSet(e[path]))
               [] path = "evidence" ->
                    Sorted([at \in DOMAIN e[path] |-> [e[path][at] EXCEPT !.ref = trim(@)]])
               [] path = "limitations" /\ e[path] # Missing ->
                    SortedSet({trim(e[path][at]) : at \in DOMAIN e[path]})
               [] OTHER -> e[path]]
    BY DEF cloneAndNormalizeEnvelope
  <2> QED
    BY <2>1
<1> HIDE DEF items, limits, scopes
<1>3. "attestedScopes" \in EnvelopeFields /\ "evidence" \in EnvelopeFields /\ "limitations" \in EnvelopeFields
      /\ "attestedScopes" \notin EnvelopeTexts /\ "evidence" \notin EnvelopeTexts /\ "limitations" \notin EnvelopeTexts
  BY FieldsOfEnvelopes DEF EnvelopeLists
<1> DEFINE value(path) ==
             CASE path \in EnvelopeTexts -> trim(e[path])
               [] path = "attestedScopes" -> SortedSet(scopes)
               [] path = "evidence" -> Sorted(items)
               [] path = "limitations" /\ e[path] # Missing -> SortedSet(limits)
               [] OTHER -> e[path]
<1>4. n = [path \in EnvelopeFields |-> value(path)]
  BY <1>2
<1>5. \A path \in EnvelopeTexts : n[path] = trim(e[path])
  <2>1. ASSUME NEW path \in EnvelopeTexts PROVE value(path) = trim(e[path])
    BY FieldsOfEnvelopes DEF EnvelopeLists
  <2> HIDE DEF value
  <2> QED
    BY <1>4, <2>1, FieldsOfEnvelopes
<1>6. \A path \in EnvelopeFields : path \notin EnvelopeTexts \union EnvelopeLists => n[path] = e[path]
  <2>1. ASSUME NEW path, path \notin EnvelopeTexts \union EnvelopeLists PROVE value(path) = e[path]
    BY <2>1 DEF EnvelopeLists
  <2> HIDE DEF value
  <2> QED
    BY <1>4, <2>1
<1>7. n["attestedScopes"] = SetToSeq(scopes)
  BY <1>2, <1>3 DEF SortedSet
<1>8. n["evidence"] = Sorted(items)
  BY <1>2, <1>3
<1>9. n["limitations"] = IF e["limitations"] # Missing THEN SetToSeq(limits) ELSE e["limitations"]
  BY <1>2, <1>3 DEF SortedSet
<1>10. n = [path \in EnvelopeFields |-> n[path]]
  <2> HIDE DEF value
  <2> QED
    BY <1>4
<1> QED
  BY <1>1, <1>5, <1>6, <1>7, <1>8, <1>9, <1>10 DEF scopes

LEMMA TrimmedTexts ==
  ASSUME NEW text
  PROVE  /\ trim(trim(text)) = trim(text)
         /\ text \notin Marks => trim(text) \notin Marks
         /\ text \in Marks => trim(text) = text
BY TrimmedAssumption DEF trim, Marks

\* What an accepted list holds.
AcceptedScopes(list) ==
  \A at \in DOMAIN list :
    list[at] \in AllowedScopes /\ \A before \in 1 .. at - 1 : list[before] # list[at]
AcceptedEvidence(list) == \A at \in DOMAIN list : EvidenceAccepted(list[at])
AcceptedLimitations(list) == \A at \in DOMAIN list : isNonEmptyText(list[at])

LEMMA ListErrorsAre ==
  ASSUME NEW e
  PROVE  /\ ListErrors(e, "attestedScopes") = {} <=>
              (e["attestedScopes"] \notin {Missing, Garbage} => AcceptedScopes(e["attestedScopes"]))
         /\ ListErrors(e, "evidence") = {} <=>
              (e["evidence"] \notin {Missing, Garbage} => AcceptedEvidence(e["evidence"]))
         /\ ListErrors(e, "limitations") = {} <=>
              (e["limitations"] \notin {Missing, Garbage} => AcceptedLimitations(e["limitations"]))
<1>2. ListErrors(e, "attestedScopes") = {} <=>
        (e["attestedScopes"] \notin {Missing, Garbage} => AcceptedScopes(e["attestedScopes"]))
  <2> DEFINE list == e["attestedScopes"]
             bad == {at \in DOMAIN list : \/ list[at] \notin AllowedScopes
                                          \/ \E before \in 1 .. at - 1 : list[before] = list[at]}
             errors == {<<"attestedScopes", at>> : at \in bad}
  <2>1. ListErrors(e, "attestedScopes") =
          IF list \in {Missing, Garbage} THEN {} ELSE errors
    BY DEF ListErrors
  <2>3. errors = {} <=> bad = {}
    <3> HIDE DEF bad
    <3> QED
      OBVIOUS
  <2>2. bad = {} <=> AcceptedScopes(list)
    BY DEF AcceptedScopes
  <2> HIDE DEF bad, errors, list
  <2> QED
    BY <2>1, <2>2, <2>3 DEF list
<1>3. ListErrors(e, "evidence") = {} <=>
        (e["evidence"] \notin {Missing, Garbage} => AcceptedEvidence(e["evidence"]))
  <2> DEFINE list == e["evidence"]
             bad == {at \in DOMAIN list : ~EvidenceAccepted(list[at])}
             errors == {<<"evidence", at>> : at \in bad}
  <2>1. ListErrors(e, "evidence") =
          IF list \in {Missing, Garbage} THEN {} ELSE errors
    BY DEF ListErrors
  <2>3. errors = {} <=> bad = {}
    <3> HIDE DEF bad
    <3> QED
      OBVIOUS
  <2>2. bad = {} <=> AcceptedEvidence(list)
    BY DEF AcceptedEvidence
  <2> HIDE DEF bad, errors, list
  <2> QED
    BY <2>1, <2>2, <2>3 DEF list
<1>4. ListErrors(e, "limitations") = {} <=>
        (e["limitations"] \notin {Missing, Garbage} => AcceptedLimitations(e["limitations"]))
  <2> DEFINE list == e["limitations"]
             bad == {at \in DOMAIN list : ~isNonEmptyText(list[at])}
             errors == {<<"limitations", at>> : at \in bad}
  <2>1. ListErrors(e, "limitations") =
          IF list \in {Missing, Garbage} THEN {} ELSE errors
    BY DEF ListErrors
  <2>3. errors = {} <=> bad = {}
    <3> HIDE DEF bad
    <3> QED
      OBVIOUS
  <2>2. bad = {} <=> AcceptedLimitations(list)
    BY DEF AcceptedLimitations
  <2> HIDE DEF bad, errors, list
  <2> QED
    BY <2>1, <2>2, <2>3 DEF list
<1> QED
  BY <1>2, <1>3, <1>4

LEMMA ValidEnvelopes ==
  ASSUME NEW e
  PROVE  validateSignalProofEnvelope(e) = {} <=>
           /\ e \notin {Missing, Garbage} /\ \A path \in EnvelopeFields : FieldAccepted(e, path)
           /\ \A path \in EnvelopeLists : ListErrors(e, path) = {}
<1> DEFINE bad == {path \in EnvelopeFields : ~FieldAccepted(e, path)}
           lists == {ListErrors(e, path) : path \in EnvelopeLists}
<1>1. validateSignalProofEnvelope(e) =
        IF e \in {Missing, Garbage} THEN {<<"envelope", 0>>}
        ELSE {<<path, 0>> : path \in bad} \union UNION lists
  BY DEF validateSignalProofEnvelope, EnvelopeLists
<1>2. {<<path, 0>> : path \in bad} = {} <=> bad = {}
  <2> HIDE DEF bad
  <2> QED
    OBVIOUS
<1>3. UNION lists = {} <=> \A path \in EnvelopeLists : ListErrors(e, path) = {}
  OBVIOUS
<1>4. bad = {} <=> \A path \in EnvelopeFields : FieldAccepted(e, path)
  OBVIOUS
<1> HIDE DEF bad, lists
<1> QED
  BY <1>1, <1>2, <1>3, <1>4

\* What was accepted is accepted when it is normalised, which changes it once only.
LEMMA NormalEnvelopes ==
  ASSUME MarksStandApart, NEW e, IsEnvelope(e), validateSignalProofEnvelope(e) = {},
         NEW n, n = cloneAndNormalizeEnvelope(e)
  PROVE  validateSignalProofEnvelope(n) = {} /\ cloneAndNormalizeEnvelope(n) = n
<1> DEFINE m == cloneAndNormalizeEnvelope(n)
           Others == EnvelopeFields \ (EnvelopeTexts \union EnvelopeLists)
<1>1. /\ n = [path \in EnvelopeFields |-> n[path]]
      /\ \A path \in EnvelopeTexts : n[path] = trim(e[path])
      /\ \A path \in Others : n[path] = e[path]
      /\ n["attestedScopes"] = SetToSeq(ToSet(e["attestedScopes"]))
      /\ n["evidence"] = Sorted(TrimmedItems(e["evidence"]))
      /\ e["limitations"] # Missing => n["limitations"] = SetToSeq(TrimmedMembers(e["limitations"]))
      /\ e["limitations"] = Missing => n["limitations"] = Missing
  BY NormalFields
<1>2. /\ m = [path \in EnvelopeFields |-> m[path]]
      /\ \A path \in EnvelopeTexts : m[path] = trim(n[path])
      /\ \A path \in Others : m[path] = n[path]
      /\ m["attestedScopes"] = SetToSeq(ToSet(n["attestedScopes"]))
      /\ m["evidence"] = Sorted(TrimmedItems(n["evidence"]))
      /\ n["limitations"] # Missing => m["limitations"] = SetToSeq(TrimmedMembers(n["limitations"]))
      /\ n["limitations"] = Missing => m["limitations"] = Missing
  BY NormalFields
<1> HIDE DEF m, Others
<1>3. /\ \A path \in EnvelopeFields : FieldAccepted(e, path)
      /\ \A path \in EnvelopeLists : ListErrors(e, path) = {}
  BY ValidEnvelopes
<1>4. \A f : IsList(f) => f \notin Marks
  BY ValuesStandApart
<1>5. \A value : IsArray(value) <=> IsList(value)
  BY DEF IsArray, IsList
<1>6. /\ n["attestedScopes"] \notin {Missing, Garbage, << >>} /\ AcceptedScopes(n["attestedScopes"])
      /\ m["attestedScopes"] = n["attestedScopes"]
  <2> DEFINE list == e["attestedScopes"]
             S == {list[at] : at \in DOMAIN list}
             members == SetToSeq(S)
  <2>1. list \notin {Missing, Garbage} /\ list # << >>
    <3>1. FieldAccepted(e, "attestedScopes")
      BY <1>3, FieldsOfEnvelopes DEF EnvelopeLists
    <3> QED
      BY <3>1 DEF FieldAccepted
  <2>2. IsList(list)
    BY <1>5, <2>1 DEF IsEnvelope
  <2>3. AcceptedScopes(list)
    BY <1>3, <2>1, ListErrorsAre DEF EnvelopeLists
  <2>4. n["attestedScopes"] = members
    BY <1>1 DEF ToSet
  <2>5. \E at \in DOMAIN list : list[at] \in S
    <3>1. DOMAIN list # {}
      BY <2>1, <2>2, OnlyTheEmptyListIsEmpty DEF IsList
    <3> QED
      BY <3>1
  <2>6. \A x \in S : x \in AllowedScopes
    BY <2>3 DEF AcceptedScopes
  <2> HIDE DEF list
  <2>7. /\ IsList(members) /\ {members[at] : at \in DOMAIN members} = S
        /\ \A i, j \in DOMAIN members : members[i] = members[j] => i = j
    <3>1. IsListOf(list, S)
      BY <2>2 DEF IsListOf
    <3> HIDE DEF S
    <3>2. IsListOf(members, S) /\ \A i, j \in DOMAIN members : members[i] = members[j] => i = j
      BY <3>1, MembersOnce
    <3> QED
      BY <3>2 DEF IsListOf
  <2> HIDE DEF S, members
  <2>8. members # << >>
    <3>1. S # {}
      BY <2>5
    <3>2. Len(members) # 0
      BY <2>7, <3>1 DEF IsList
    <3> QED
      BY <3>2
  <2>9. AcceptedScopes(members)
    <3> SUFFICES ASSUME NEW at \in DOMAIN members
                 PROVE  members[at] \in AllowedScopes /\ \A before \in 1 .. at - 1 : members[before] # members[at]
      BY DEF AcceptedScopes
    <3>1. members[at] \in AllowedScopes
      BY <2>6, <2>7
    <3>2. at \in 1 .. Len(members) /\ DOMAIN members = 1 .. Len(members) /\ Len(members) \in Nat
      BY <2>7 DEF IsList
    <3>3. \A before \in 1 .. at - 1 : before \in DOMAIN members /\ before # at
      BY <3>2
    <3> QED
      BY <2>7, <3>1, <3>3
  <2>10. m["attestedScopes"] = members
    BY <1>2, <2>4, <2>7 DEF ToSet, members
  <2> QED
    BY <1>4, <2>4, <2>7, <2>8, <2>9, <2>10 DEF Marks
<1>7. /\ n["evidence"] \notin {Missing, Garbage} /\ AcceptedEvidence(n["evidence"])
      /\ m["evidence"] = n["evidence"]
  <2> DEFINE list == e["evidence"]
             items == TrimmedItems(list)
             sorted == Sorted(items)
  <2>1. list \notin {Missing, Garbage}
    <3>1. FieldAccepted(e, "evidence")
      BY <1>3, FieldsOfEnvelopes DEF EnvelopeLists
    <3> QED
      BY <3>1 DEF FieldAccepted
  <2>2. IsList(list)
    BY <1>5, <2>1 DEF IsEnvelope
  <2>3. AcceptedEvidence(list)
    BY <1>3, <2>1, ListErrorsAre DEF EnvelopeLists
  <2>4. \A at \in DOMAIN list :
          list[at] = [ref |-> list[at].ref, privacy |-> list[at].privacy, digest |-> list[at].digest]
    BY <2>1, <2>3 DEF AcceptedEvidence, EvidenceAccepted, IsEnvelope
  <2>5. n["evidence"] = sorted
    BY <1>1
  <2> DEFINE Item(x) == x = [ref |-> x.ref, privacy |-> x.privacy, digest |-> x.digest]
             Cut(x) == [x EXCEPT !.ref = trim(@)]
  <2>6. ASSUME NEW x, Item(x), EvidenceAccepted(x)
        PROVE  Item(Cut(x)) /\ EvidenceAccepted(Cut(x)) /\ Cut(Cut(x)) = Cut(x)
    <3> DEFINE y == Cut(x)
    <3>1. y = [ref |-> trim(x.ref), privacy |-> x.privacy, digest |-> x.digest]
      BY <2>6
    <3> HIDE DEF y
    <3>2. y.ref = trim(x.ref) /\ y.privacy = x.privacy /\ y.digest = x.digest /\ Item(y)
      BY <3>1
    <3>3. y # Garbage
      <4>1. y = [f \in DOMAIN y |-> y[f]]
        BY <3>1
      <4> QED
        BY <4>1 DEF MarksStandApart, Marks
    <3>4. EvidenceAccepted(y)
      BY <2>6, <3>2, <3>3, TrimmedTexts DEF EvidenceAccepted, isNonEmptyText, Marks
    <3>5. Cut(y) = y
      <4>1. trim(y.ref) = y.ref
        BY <3>2, TrimmedTexts
      <4> QED
        BY <3>1, <4>1
    <3> QED
      BY <3>2, <3>4, <3>5 DEF y
  <2>7. /\ IsList(items) /\ DOMAIN items = DOMAIN list
        /\ \A at \in DOMAIN list : items[at] = Cut(list[at])
    <3>1. items = [at \in 1 .. Len(list) |-> Cut(list[at])] /\ Len(list) \in Nat
      BY <2>2 DEF IsList, TrimmedItems
    <3> HIDE DEF items
    <3>2. Len(items) = Len(list) /\ items = [at \in 1 .. Len(items) |-> items[at]] /\ DOMAIN items = 1 .. Len(list)
      BY <3>1, Lists
    <3> QED
      BY <2>2, <3>1, <3>2 DEF IsList
  <2> HIDE DEF list, items, Cut
  <2>8. \A at \in DOMAIN items : Item(items[at]) /\ EvidenceAccepted(items[at]) /\ Cut(items[at]) = items[at]
    BY <2>3, <2>4, <2>6, <2>7 DEF AcceptedEvidence
  <2>9. /\ IsList(sorted) /\ DOMAIN sorted = DOMAIN items
        /\ \A at \in DOMAIN items : \E to \in DOMAIN items : sorted[at] = items[to]
        /\ Sorted(sorted) = sorted
    BY <2>7, SortedStays
  <2> HIDE DEF sorted, Item
  <2>10. \A at \in DOMAIN sorted : EvidenceAccepted(sorted[at]) /\ Cut(sorted[at]) = sorted[at]
    BY <2>8, <2>9
  <2>11. TrimmedItems(sorted) = sorted
    <3>1. TrimmedItems(sorted) = [at \in DOMAIN sorted |-> Cut(sorted[at])]
      BY DEF TrimmedItems, Cut
    <3> QED
      BY <2>9, <2>10, <3>1 DEF IsList
  <2>12. m["evidence"] = sorted
    BY <1>2, <2>5, <2>9, <2>11
  <2>13. AcceptedEvidence(sorted)
    BY <2>10 DEF AcceptedEvidence
  <2> QED
    BY <1>4, <2>5, <2>9, <2>12, <2>13 DEF Marks
<1>8. /\ n["limitations"] # Garbage /\ m["limitations"] = n["limitations"]
      /\ n["limitations"] # Missing => AcceptedLimitations(n["limitations"])
  <2> DEFINE list == e["limitations"]
             T == TrimmedMembers(list)
             members == SetToSeq(T)
  <2>1. list # Garbage
    <3>1. FieldAccepted(e, "limitations")
      BY <1>3, FieldsOfEnvelopes DEF EnvelopeLists
    <3> QED
      BY <3>1 DEF FieldAccepted
  <2>2. CASE list = Missing
    <3>1. n["limitations"] = Missing /\ m["limitations"] = Missing
      BY <1>1, <1>2, <2>2
    <3> QED
      BY <2>1, <2>2, <3>1
  <2>3. CASE list # Missing
    <3>1. IsList(list)
      BY <1>5, <2>1, <2>3 DEF IsEnvelope, EnvelopeLists
    <3>2. AcceptedLimitations(list)
      BY <1>3, <2>1, <2>3, ListErrorsAre DEF EnvelopeLists
    <3> DEFINE cut == [at \in 1 .. Len(list) |-> trim(list[at])]
    <3>3. IsList(cut) /\ DOMAIN cut = DOMAIN list
      <4>1. cut = [at \in 1 .. Len(list) |-> cut[at]]
        OBVIOUS
      <4> HIDE DEF cut
      <4> QED
        BY <3>1, <4>1, Lists DEF IsList
    <3>4. T = {cut[at] : at \in DOMAIN cut}
      <4>1. \A at \in DOMAIN list : cut[at] = trim(list[at])
        BY <3>1 DEF IsList
      <4> HIDE DEF cut
      <4> QED
        BY <3>3, <4>1 DEF TrimmedMembers
    <3>5. \A x \in T : x \notin Marks /\ trim(x) = x
      <4> SUFFICES ASSUME NEW at \in DOMAIN list
                   PROVE  trim(list[at]) \notin Marks /\ trim(trim(list[at])) = trim(list[at])
        BY DEF TrimmedMembers
      <4>1. list[at] \notin Marks
        BY <3>2 DEF AcceptedLimitations, isNonEmptyText, Marks
      <4> HIDE DEF list
      <4> QED
        BY <4>1, TrimmedTexts
    <3> HIDE DEF T, cut
    <3>6. IsList(members) /\ {members[at] : at \in DOMAIN members} = T
      <4>1. IsListOf(cut, T)
        BY <3>3, <3>4 DEF IsListOf
      <4>2. IsListOf(members, T)
        BY <4>1, MembersOnce
      <4> QED
        BY <4>2 DEF IsListOf
    <3>7. n["limitations"] = members
      BY <1>1, <2>3 DEF T
    <3> HIDE DEF members
    <3>8. AcceptedLimitations(members)
      BY <3>5, <3>6 DEF AcceptedLimitations, isNonEmptyText, Marks
    <3>9. TrimmedMembers(members) = T
      <4>1. \A at \in DOMAIN members : trim(members[at]) = members[at]
        BY <3>5, <3>6
      <4> QED
        BY <3>6, <4>1 DEF TrimmedMembers
    <3>10. members \notin Marks
      BY <1>4, <3>6
    <3>11. m["limitations"] = members
      BY <1>2, <3>7, <3>9, <3>10 DEF Marks, members
    <3> QED
      BY <3>7, <3>8, <3>10, <3>11 DEF Marks
  <2> QED
    BY <2>2, <2>3
<1>9. m = n
  <2>1. \A path \in EnvelopeTexts : m[path] = n[path]
    BY <1>1, <1>2, TrimmedTexts
  <2>2. \A path \in EnvelopeLists : m[path] = n[path]
    BY <1>6, <1>7, <1>8 DEF EnvelopeLists
  <2>3. \A path \in EnvelopeFields : m[path] = n[path]
    BY <1>2, <2>1, <2>2 DEF Others
  <2> QED
    BY <1>1, <1>2, <2>3
<1>10. \A path \in EnvelopeFields : FieldAccepted(n, path)
  <2>1. \A path \in EnvelopeTexts :
          /\ isNonEmptyText(e[path]) => isNonEmptyText(n[path])
          /\ isOptionalText(e[path]) => isOptionalText(n[path])
    BY <1>1, TrimmedTexts DEF isNonEmptyText, isOptionalText, Marks
  <2>2. "observer" \in Others /\ "evaluator" \in Others
    BY DEF Others, EnvelopeFields, EnvelopeTexts, EnvelopeLists
  <2>3. n["observer"] = e["observer"] /\ n["evaluator"] = e["evaluator"]
    BY <1>1, <2>2
  <2>4. ASSUME NEW path \in EnvelopeTexts PROVE FieldAccepted(n, path)
    <3>1. FieldAccepted(e, path)
      BY <1>3, FieldsOfEnvelopes
    <3>2. /\ isNonEmptyText(e[path]) => isNonEmptyText(n[path])
          /\ isOptionalText(e[path]) => isOptionalText(n[path])
      BY <2>1
    <3>3. path \notin {"extra", "profile", "profileVersion", "claimSnapshotDigest",
                       "disclosureSnapshotDigest", "attestedScopes", "observer", "observer.kind",
                       "observer.observedAt", "evaluator", "evidence", "limitations"}
      BY DEF EnvelopeTexts
    <3>4. ObserverAccepted(e, path) => ObserverAccepted(n, path)
      BY <3>2, <3>3 DEF ObserverAccepted
    <3>5. EvaluatorAccepted(e, path) => EvaluatorAccepted(n, path)
      BY <3>2 DEF EvaluatorAccepted
    <3> QED
      BY <2>3, <3>1, <3>2, <3>3, <3>4, <3>5 DEF FieldAccepted
  <2>5. ASSUME NEW path \in Others PROVE FieldAccepted(n, path)
    <3>1. FieldAccepted(e, path) /\ n[path] = e[path] /\ path \notin EnvelopeTexts \union EnvelopeLists
      BY <1>1, <1>3 DEF Others
    <3> QED
      BY <2>3, <3>1 DEF FieldAccepted, ObserverAccepted, EvaluatorAccepted, EnvelopeTexts, EnvelopeLists, isNonEmptyText
  <2>6. ASSUME NEW path \in EnvelopeLists PROVE FieldAccepted(n, path)
    BY <1>6, <1>7, <1>8 DEF FieldAccepted, ObserverAccepted, EvaluatorAccepted, EnvelopeLists
  <2> QED
    BY <2>4, <2>5, <2>6 DEF Others
<1>11. \A path \in EnvelopeLists : ListErrors(n, path) = {}
  BY <1>6, <1>7, <1>8, ListErrorsAre DEF EnvelopeLists
<1>12. n \notin {Missing, Garbage}
  <2>1. n = [path \in DOMAIN n |-> n[path]]
    BY <1>1
  <2> QED
    BY <2>1 DEF MarksStandApart, Marks
<1> QED
  BY <1>9, <1>10, <1>11, <1>12, ValidEnvelopes DEF m
-----------------------------------------------------------------------------
(***************************************************************************)
(* The documents that are issued.                                          *)
(***************************************************************************)
IsDocument(d) ==
  d = [profile |-> d.profile, bundleVersion |-> d.bundleVersion, envelope |-> d.envelope,
       receipt |-> d.receipt]

\* The content of an envelope is named by the receipt of its own bundle only.
NamesItsEnvelope(d) ==
  \A at \in DOMAIN d.receipt["artifacts"] : \A e :
    d.receipt["artifacts"][at].sha256 = <<"sha256", EnvelopeContent(e)>> => d.envelope = e

\* A receipt of version 1.0.0 is looked at only if it is valid by what is demanded today.
IsUsable(r) == r["version"] = "1.0.0" => ValidReceipt(r) /\ metadataHash(r) # Throws

\* A receipt that was signed with the key of an order.
KeyedBy(s, options) ==
  /\ s["signature.algorithm"] = options.algorithm
  /\ s["signature.value"] = signPayload(signingPayload(s), options.signingKey, options.algorithm)
  /\ s["signature.value"] # Throws

LEMMA OrdersAreKeyed ==
  ASSUME NEW options, NEW artifacts, NEW version, NEW proofId,
         NEW s, s = SignedReceipt(Header(options, artifacts, version, proofId), options.signingKey),
         s # Throws
  PROVE  KeyedBy(s, options)
<1> DEFINE header == Header(options, artifacts, version, proofId)
<1>1. IsReceipt(header)
  BY ZenonT(60) DEF IsReceipt, Header
<1>2. header["signature.algorithm"] = options.algorithm /\ "signature.algorithm" \in ReceiptFields \ Computed
  BY FieldsOfReceipts DEF Header
<1> HIDE DEF header
<1>3. /\ \A path \in ReceiptFields \ Computed : s[path] = header[path]
      /\ s["signature.value"] = signPayload(signingPayload(s), options.signingKey, s["signature.algorithm"])
      /\ s["signature.value"] # Throws
  BY <1>1, SignedReceipts DEF header
<1> QED
  BY <1>2, <1>3 DEF KeyedBy

\* Some verifier can tell that it was signed.
HasReader(r) ==
  \E context \in Contexts :
    /\ r["signature.algorithm"] = context.expectedAlgorithm
    /\ ~Unusable(context.publicKeyOrSecret)
    /\ r["signature.value"] =
         <<context.expectedAlgorithm, verifyingKey(context.publicKeyOrSecret, context.expectedAlgorithm),
           signingPayload(r)>>

LEMMA KeyedHasReader ==
  ASSUME MarksStandApart, NEW options \in AllOrders, NEW s, KeyedBy(s, options)
  PROVE  HasReader(s)
<1> DEFINE algorithm == options.algorithm
           key == options.signingKey
<1>1. PICK context \in Contexts :
        /\ context.publicKeyOrSecret = VerificationKey(options)
        /\ context.expectedAlgorithm = algorithm
  <2>1. options.algorithm = "Ed25519" => privateEd25519Key(options.signingKey) # Throws
    BY DEF KeyedBy, signPayload, decodeSignatureAlgorithm, SignatureAlgorithms
  <2> QED
    BY <2>1, ContextsAssumption
<1>2. /\ decodeSignatureAlgorithm(algorithm) # Missing /\ ~Unusable(key)
      /\ s["signature.value"] = <<decodeSignatureAlgorithm(algorithm),
                                  IF decodeSignatureAlgorithm(algorithm) = "Ed25519" THEN PublicKey(key) ELSE key,
                                  signingPayload(s)>>
  BY DEF KeyedBy, signPayload
<1>3. decodeSignatureAlgorithm(algorithm) = algorithm
  BY <1>2 DEF decodeSignatureAlgorithm
<1>4. ~Unusable(PublicKey(key))
  <2>1. PublicKey(key) \notin Marks
    BY TuplesAreLists, ValuesStandApart DEF PublicKey
  <2>2. PublicKey(key)[1] = "public" /\ <<"text", "lone surrogate">>[1] = "text"
    BY DEF PublicKey
  <2> QED
    BY <2>1, <2>2 DEF Unusable, Marks
<1>5. ~Unusable(VerificationKey(options))
  BY <1>2, <1>4 DEF VerificationKey
<1>6. s["signature.value"] = <<algorithm, VerificationKey(options), signingPayload(s)>>
  BY <1>2, <1>3 DEF VerificationKey
<1>7. verifyingKey(VerificationKey(options), algorithm) = VerificationKey(options)
  <2>1. PublicKey(key)[1] = "public"
    BY DEF PublicKey
  <2>2. publicEd25519Key(PublicKey(key)) = PublicKey(key)
    BY <2>1 DEF publicEd25519Key
  <2> QED
    BY <2>2 DEF verifyingKey, VerificationKey
<1> QED
  BY <1>1, <1>5, <1>6, <1>7 DEF HasReader, KeyedBy

\* JSON does not change who can read a receipt.
LEMMA ReaderStays ==
  ASSUME NEW s, IsSigned(s), HasReader(s), NEW t, t = [s EXCEPT !["metadata"] = Parsed[@]]
  PROVE  HasReader(t)
<1>1. (s["version"] = "2.0.0" => t = s) /\ \A path \in ReceiptFields \ {"metadata"} : t[path] = s[path]
  BY SerialisedIsSigned
<1>2. CASE s["version"] = "2.0.0"
  BY <1>1, <1>2
<1>3. CASE s["version"] # "2.0.0"
  <2>1. s["version"] = "1.0.0"
    BY <1>3 DEF IsSigned, Supported
  <2>2. /\ t["version"] = "1.0.0" /\ t["merkle.root"] = s["merkle.root"]
        /\ t["signature.value"] = s["signature.value"]
        /\ t["signature.algorithm"] = s["signature.algorithm"]
        /\ t["proofId"] = s["proofId"] /\ t["timestamp"] = s["timestamp"]
        /\ t["parentOrganization"] = s["parentOrganization"] /\ t["task.name"] = s["task.name"]
    BY <1>1, <2>1, FieldsOfReceipts DEF Computed
  <2>3. signingPayload(t) = signingPayload(s)
    BY <2>1, <2>2 DEF signingPayload
  <2> QED
    BY <2>2, <2>3 DEF HasReader
<1> QED
  BY <1>2, <1>3

\* What was signed and is valid is accepted by that verifier.
LEMMA ReadersAccept ==
  ASSUME MarksStandApart, NEW s, IsSigned(s), IsUsable(s), HasReader(s), ValidReceipt(s)
  PROVE  \E context \in Contexts : Accepted(s, With(context, FALSE))
<1>1. PICK context \in Contexts :
        /\ s["signature.algorithm"] = context.expectedAlgorithm
        /\ ~Unusable(context.publicKeyOrSecret)
        /\ s["signature.value"] =
             <<context.expectedAlgorithm, verifyingKey(context.publicKeyOrSecret, context.expectedAlgorithm),
               signingPayload(s)>>
  BY DEF HasReader
<1> DEFINE options == With(context, FALSE)
<1>2. /\ options.publicKeyOrSecret = context.publicKeyOrSecret
      /\ options.expectedAlgorithm = context.expectedAlgorithm
  BY DEF With
<1> HIDE DEF options
<1>3. /\ s["signature.algorithm"] \in SignatureAlgorithms /\ signingPayload(s) # Throws
      /\ Lower(s["signature.value"])
  BY SignatureValues
<1>4. s["signature.algorithm"] # Missing
  <2>1. s["signature.algorithm"] \in Texts
    BY <1>3 DEF SignatureAlgorithms, Texts
  <2> QED
    BY <2>1, ValuesStandApart DEF Marks
<1>5. decodeSignatureAlgorithm(s["signature.algorithm"]) # Missing
  BY <1>3, <1>4 DEF decodeSignatureAlgorithm
<1>6. ContextValid(options) /\ hasKey(options)
  BY <1>1, <1>2, <1>4, <1>5 DEF ContextValid, hasKey, Unusable
<1>7. SignatureValid(s, options)
  BY <1>1, <1>2, <1>3, <1>5 DEF SignatureValid, verifySignature, Lower
<1>8. metadataHash(s) # Throws
  <2>1. CASE s["version"] = "1.0.0"
    BY <2>1 DEF IsUsable
  <2>2. CASE s["version"] # "1.0.0"
    BY <1>3, <2>2 DEF signingPayload, CanonicalPayload
  <2> QED
    BY <2>1, <2>2
<1>9. LeavesValid(s, Tree(s)) /\ RootValid(s, Tree(s))
  BY SignedTreesAreValid
<1>10. validateReceiptEnvelope(s) = {}
  BY ValidReceipts
<1>11. Accepted(s, options)
  BY <1>1, <1>2, <1>6, <1>7, <1>8, <1>9, <1>10 DEF Accepted, IsSigned
<1> QED
  BY <1>11 DEF options

\* No text without a canonical form was signed in the current version.
LEMMA SignedTextsAreCanonical ==
  ASSUME NEW s, IsSigned(s), s["version"] = "2.0.0"
  PROVE  /\ \A path \in ReceiptFields \ {"artifacts", "merkle.leaves", "merkle.root", "signature.value",
                                         "metadata", "metadata.signalProfile"} :
              s[path] # "lone surrogate"
         /\ canonicalizeRfc8785[s["metadata"]] # Throws
<1> DEFINE texts == <<s["proofId"], s["timestamp"], s["parentOrganization"], s["task.name"]>>
                      \o <<s["protocol"], s["version"], s["merkle.algorithm"], s["signature.algorithm"],
                           s["signature.keyId"], s["signature.signerIdentity"], s["signature.timestamp"]>>
<1>1. signingPayload(s) = CanonicalPayload(texts, s["merkle.root"], metadataHash(s))
  BY DEF signingPayload
<1>2. signingPayload(s) # Throws
  BY SignatureValues
<1>3. metadataHash(s) # Throws /\ \A t \in DOMAIN texts : texts[t] # "lone surrogate"
  <2> HIDE DEF texts
  <2> QED
    BY <1>1, <1>2 DEF CanonicalPayload
<1>4. canonicalizeRfc8785[s["metadata"]] # Throws
  BY <1>3 DEF metadataHash, profilesFor, canonicalize
<1>5. \A path \in {"proofId", "timestamp", "parentOrganization", "task.name", "protocol", "version",
                   "merkle.algorithm", "signature.algorithm", "signature.keyId",
                   "signature.signerIdentity", "signature.timestamp"} : s[path] # "lone surrogate"
  <2>1. /\ {1, 2, 3, 4, 5, 6, 7, 8, 9, 10, 11} \subseteq DOMAIN texts
        /\ texts[1] = s["proofId"] /\ texts[2] = s["timestamp"] /\ texts[3] = s["parentOrganization"]
        /\ texts[4] = s["task.name"] /\ texts[5] = s["protocol"] /\ texts[6] = s["version"]
        /\ texts[7] = s["merkle.algorithm"] /\ texts[8] = s["signature.algorithm"]
        /\ texts[9] = s["signature.keyId"] /\ texts[10] = s["signature.signerIdentity"]
        /\ texts[11] = s["signature.timestamp"]
    OBVIOUS
  <2> HIDE DEF texts
  <2>2. \A t \in {1, 2, 3, 4, 5, 6, 7, 8, 9, 10, 11} : texts[t] # "lone surrogate"
    BY <1>3, <2>1
  <2>3. /\ texts[1] # "lone surrogate" /\ texts[2] # "lone surrogate" /\ texts[3] # "lone surrogate"
        /\ texts[4] # "lone surrogate" /\ texts[5] # "lone surrogate" /\ texts[6] # "lone surrogate"
        /\ texts[7] # "lone surrogate" /\ texts[8] # "lone surrogate" /\ texts[9] # "lone surrogate"
        /\ texts[10] # "lone surrogate" /\ texts[11] # "lone surrogate"
    BY <2>2
  <2> QED
    BY <2>1, <2>3
<1>6. \A path \in {"task.status", "environment.platform", "environment.arch", "environment.runtime"} :
        s[path] # "lone surrogate"
  <2> DEFINE task == <<s["task.name"], s["task.status"]>>
             environment == <<s["environment.platform"], s["environment.arch"], s["environment.runtime"]>>
  <2>1. /\ IsList(receiptLeaves(s)) /\ Len(receiptLeaves(s)) = Len(s["artifacts"]) + 2
        /\ receiptLeaves(s)[1] = ObjectHash("task", task, << >>, "rfc8785")
        /\ receiptLeaves(s)[2] = ObjectHash("environment", environment, << >>, "rfc8785")
    BY LeavesOfReceipts DEF IsSigned, profilesFor
  <2>2. 1 \in DOMAIN receiptLeaves(s) /\ 2 \in DOMAIN receiptLeaves(s)
    BY <2>1 DEF IsSigned, IsList
  <2>3. /\ ObjectHash("task", task, << >>, "rfc8785") # Throws
        /\ ObjectHash("environment", environment, << >>, "rfc8785") # Throws
    BY <2>1, <2>2 DEF IsSigned, AnyThrows
  <2>4. /\ {1, 2} \subseteq DOMAIN task /\ task[2] = s["task.status"]
        /\ {1, 2, 3} \subseteq DOMAIN environment /\ environment[1] = s["environment.platform"]
        /\ environment[2] = s["environment.arch"] /\ environment[3] = s["environment.runtime"]
    OBVIOUS
  <2> HIDE DEF task, environment
  <2>5. /\ \A t \in DOMAIN task : task[t] # "lone surrogate"
        /\ \A t \in DOMAIN environment : environment[t] # "lone surrogate"
    BY <2>3 DEF ObjectHash
  <2>6. /\ task[2] # "lone surrogate" /\ environment[1] # "lone surrogate"
        /\ environment[2] # "lone surrogate" /\ environment[3] # "lone surrogate"
    BY <2>4, <2>5
  <2> QED
    BY <2>4, <2>6
<1>7. \A path \in {"task", "environment", "merkle", "signature"} : s[path] # "lone surrogate"
  BY DEF IsSigned
<1> QED
  BY <1>4, <1>5, <1>6, <1>7 DEF ReceiptFields, Scalars, TaskFields, EnvironmentFields, MerkleFields,
     SignatureFields

\* A bundle as createSignalProofBundle() makes it: its envelope is in normal form, is the first
\* of the artifacts, and is the only one under the reserved path.
IsBound(d) ==
  /\ d.profile = "nymrel-signal-proof-bundle" /\ d.bundleVersion = "1.0.0"
  /\ validateSignalProofEnvelope(d.envelope) = {} /\ ~NotCanonical(d.envelope)
  /\ cloneAndNormalizeEnvelope(d.envelope) = d.envelope
  /\ d.receipt["version"] = "2.0.0"
  /\ d.receipt["metadata.signalProfile"] = mirrorFromEnvelope(d.envelope)
  /\ d.receipt["artifacts"][1] =
       [path |-> ReservedPath, sha256 |-> <<"sha256", EnvelopeContent(d.envelope)>>,
        sizeBytes |-> <<"bytes", EnvelopeContent(d.envelope)>>, mimeType |-> "application/json"]
  /\ EnvelopeArtifacts(d.receipt) = {1}

\* What verifyReceipt() reports of a receipt that it trusts without having looked at files.
LEMMA AcceptedReports ==
  ASSUME NEW r, NEW options, Accepted(r, options), ~options.checkFilesOnDisk, NEW files
  PROVE  verifyReceipt(r, options, files) = Report(r, options, {}, {})
<1>1. CoreErrors(r, options, Tree(r)) = {}
  BY DEF Accepted, CoreErrors
<1>2. DiskVerdict(r, options, files, {}) = Report(r, options, {}, {})
  BY DEF DiskVerdict
<1>3. Verdict(r, options, files, {}) = Report(r, options, {}, {})
  BY <1>1, <1>2 DEF Verdict, Accepted
<1> QED
  BY <1>3 DEF verifyReceipt, Accepted

LEMMA BoundIsAccepted ==
  ASSUME NEW d, IsBound(d)
  PROVE  BindingErrors(d.receipt, d.envelope) = {}
<1> DEFINE r == d.receipt
           item == r["artifacts"][1]
<1>1. /\ item.sha256 = <<"sha256", EnvelopeContent(d.envelope)>>
      /\ item.sizeBytes = <<"bytes", EnvelopeContent(d.envelope)>> /\ item.mimeType = "application/json"
  BY DEF IsBound
<1>2. EnvelopeArtifacts(r) = {1}
  BY DEF IsBound
<1> HIDE DEF r
<1>3. toLowerCase(item.sha256) = item.sha256
  BY <1>1 DEF toLowerCase
<1>4. EnvelopeBound(r, d.envelope)
  BY <1>1, <1>2, <1>3 DEF EnvelopeBound
<1>5. MimeTypeAccepted(r)
  BY <1>1, <1>2 DEF MimeTypeAccepted
<1>6. compareMirror(r, d.envelope)
  BY DEF compareMirror, IsBound, r
<1> QED
  BY <1>4, <1>5, <1>6 DEF BindingErrors, r

LEMMA SameOption ==
  ASSUME NEW a, NEW b, NEW value,
         NEW options, options = [publicKeyOrSecret |-> a, expectedAlgorithm |-> b, checkFilesOnDisk |-> value]
  PROVE  options.checkFilesOnDisk = value /\ [options EXCEPT !.checkFilesOnDisk = value] = options
OBVIOUS

LEMMA BoundIsValid ==
  ASSUME NEW d, IsSigned(d.receipt), IsBound(d), NEW context, NEW files,
         Accepted(d.receipt, With(context, FALSE))
  PROVE  verifySignalProofBundle(d, With(context, FALSE), files).valid
<1> DEFINE r == d.receipt
           options == With(context, FALSE)
           first == Report(r, options, {}, {})
<1>1. ~options.checkFilesOnDisk /\ [options EXCEPT !.checkFilesOnDisk = FALSE] = options
  <2> DEFINE no == FALSE
  <2>1. options = [publicKeyOrSecret |-> context.publicKeyOrSecret,
                   expectedAlgorithm |-> context.expectedAlgorithm, checkFilesOnDisk |-> no]
    BY DEF With
  <2> HIDE DEF no, options
  <2>2. options.checkFilesOnDisk = no /\ [options EXCEPT !.checkFilesOnDisk = no] = options
    BY <2>1, SameOption
  <2> QED
    BY <2>2 DEF no
<1>2. hasKey(options)
  BY DEF Accepted
<1> HIDE DEF options
<1>3. verifyReceipt(r, [options EXCEPT !.checkFilesOnDisk = FALSE], files) = first
  BY <1>1, AcceptedReports DEF options
<1>4. /\ first.valid /\ first.merkleValid /\ first.artifactsValid /\ first.trusted
      /\ first.errors = {} /\ first.receipt = r
  BY <1>1, <1>2 DEF Report
<1> HIDE DEF first
<1>5. ~SnapshotThrows(d)
  BY SignedTextsAreCanonical DEF SnapshotThrows, IsBound
<1>6. BundleErrors(d) \union VersionError(first.receipt) = {}
  BY <1>4 DEF BundleErrors, VersionError, IsBound
<1>7. BindingErrors(first.receipt, d.envelope) = {} /\ cloneAndNormalizeEnvelope(d.envelope) = d.envelope
  BY <1>4, BoundIsAccepted DEF IsBound
<1>8. verifySignalProofBundle(d, options, files) = AfterCore(d.envelope, {}, first, options, files)
  BY <1>3, <1>5, <1>6, <1>7 DEF verifySignalProofBundle, SignalVerdict
<1>9. AfterCore(d.envelope, {}, first, options, files) = AfterBinding(d.envelope, TRUE, {}, first, options, files)
  BY <1>4, <1>7 DEF AfterCore
<1>10. AfterBinding(d.envelope, TRUE, {}, first, options, files) = SignalReport(d.envelope, TRUE, {}, first)
  BY <1>1 DEF AfterBinding, CoreWithDisk
<1>11. SignalReport(d.envelope, TRUE, {}, first).valid
  BY <1>4 DEF SignalReport
<1> QED
  BY <1>8, <1>9, <1>10, <1>11 DEF options

\* No path becomes the reserved one only by being made relative to the directory.
NoAliases ==
  \A order \in BundleOrders : \A at \in DOMAIN order.options.artifacts :
    LET path == order.options.artifacts[at].path
    IN  normalizeArtifactPath(RelativePath(path)) = ReservedPath =>
          normalizeArtifactPath(path) = ReservedPath

IsIssued(d) ==
  /\ IsDocument(d) /\ IsSigned(d.receipt)
  /\ MarksStandApart =>
       /\ NamesItsEnvelope(d) /\ IsUsable(d.receipt) /\ HasReader(d.receipt)
       /\ NoAliases /\ d.envelope # Missing => IsBound(d)

\* What is hashed for an item of an order.
ContentOf(item, d) == IF item.data = Missing THEN d[RelativePath(item.path)] ELSE item.data

LEMMA HashedContents ==
  ASSUME NEW options, NEW d, ~AnyThrows(HashedArtifacts(options, d)), NEW at \in DOMAIN options.artifacts
  PROVE  HashedArtifacts(options, d)[at].sha256 = <<"sha256", ContentOf(options.artifacts[at], d)>>
<1> DEFINE item == options.artifacts[at]
           hashed == HashedArtifacts(options, d)[at]
<1>1. hashed = hashArtifact(item, d) /\ hashed # Throws
  BY DEF HashedArtifacts, AnyThrows
<1> HIDE DEF hashed, item
<1>2. hashed.sha256 = <<"sha256", ContentOf(item, d)>>
  BY <1>1 DEF hashArtifact, ContentOf
<1> QED
  BY <1>2 DEF hashed, item

LEMMA FilesAreNoEnvelopes ==
  ASSUME NEW content, IsFile(content), NEW e
  PROVE  <<"sha256", content>> # <<"sha256", EnvelopeContent(e)>>
<1>1. content # <<"signal", e>>
  <2>1. content[1] = "file" /\ <<"signal", e>>[1] = "signal"
    BY DEF IsFile
  <2> QED
    BY <2>1
<1> QED
  BY <1>1 DEF EnvelopeContent

LEMMA OrderedFiles ==
  ASSUME NEW options, IsOrder(options), ~AnyThrows(HashedArtifacts(options, Disk)),
         NEW at \in DOMAIN options.artifacts, NEW e
  PROVE  HashedArtifacts(options, Disk)[at].sha256 # <<"sha256", EnvelopeContent(e)>>
<1> DEFINE item == options.artifacts[at]
           content == ContentOf(item, Disk)
<1>1. IF item.data = Missing THEN RelativePath(item.path) \in DOMAIN Disk ELSE IsFile(item.data)
  BY DEF IsOrder
<1>2. IsFile(content)
  BY <1>1, DiskAssumption DEF ContentOf
<1>3. HashedArtifacts(options, Disk)[at].sha256 = <<"sha256", content>>
  BY HashedContents
<1> HIDE DEF content
<1> QED
  BY <1>2, <1>3, FilesAreNoEnvelopes

LEMMA OrdersAreLists ==
  ASSUME NEW options, IsOrder(options)
  PROVE  IsList(options.artifacts) /\ options.metadata \in Values
BY DEF IsOrder, IsArray, IsList

\* What is published for a receipt.
ReceiptOnly(r) == [profile |-> Missing, bundleVersion |-> Missing, envelope |-> Missing, receipt |-> r]

LEMMA ReceiptsAreIssued ==
  ASSUME NEW options \in Orders, NEW proofId, NEW s, s = createReceipt(options, proofId, Disk), s # Throws
  PROVE  IsIssued(ReceiptOnly(Serialised(s)))
<1> DEFINE artifacts == HashedArtifacts(options, Disk)
<1>1. IsOrder(options)
  BY OrdersAssumption DEF AllOrders
<1>2. /\ ~AnyThrows(artifacts)
      /\ s = SignedReceipt(Header(options, artifacts, "2.0.0", proofId), options.signingKey)
  BY DEF createReceipt
<1>3. IsSigned(s) /\ s["artifacts"] = artifacts /\ s["version"] = "2.0.0"
  <2>1. IsList(options.artifacts) /\ options.metadata \in Values /\ "2.0.0" \in Supported
    BY <1>1, OrdersAreLists DEF Supported
  <2> QED
    BY <1>2, <2>1, OrdersAreSigned
<1>4. Serialised(s) = s
  BY <1>3, SerialisedIsSigned DEF Serialised
<1> DEFINE d == ReceiptOnly(s)
<1>5. IsDocument(d) /\ d.receipt = s /\ d.envelope = Missing
  BY DEF IsDocument, ReceiptOnly
<1> HIDE DEF d
<1>6. NamesItsEnvelope(d)
  <2>1. DOMAIN artifacts = DOMAIN options.artifacts
    BY DEF HashedArtifacts
  <2>2. \A at \in DOMAIN artifacts : \A e : artifacts[at].sha256 # <<"sha256", EnvelopeContent(e)>>
    BY <1>1, <1>2, <2>1, OrderedFiles
  <2> HIDE DEF artifacts
  <2> QED
    BY <1>3, <1>5, <2>2 DEF NamesItsEnvelope
<1>7. IsUsable(s)
  BY <1>3 DEF IsUsable
<1>8. MarksStandApart => HasReader(s)
  <2>1. KeyedBy(s, options)
    BY <1>2, OrdersAreKeyed
  <2> QED
    BY <2>1, KeyedHasReader DEF AllOrders
<1> QED
  BY <1>3, <1>4, <1>5, <1>6, <1>7, <1>8 DEF IsIssued, d

LEMMA LegacyReceiptsAreIssued ==
  ASSUME NEW options \in LegacyOrders, NEW proofId \in Texts, ~AnyThrows(HashedArtifacts(options, Disk)),
         NEW s, s = SignedReceipt(Header(options, HashedArtifacts(options, Disk), "1.0.0", proofId),
                                  options.signingKey),
         s # Throws
  PROVE  IsIssued(ReceiptOnly(Serialised(s)))
<1> DEFINE artifacts == HashedArtifacts(options, Disk)
           t == [s EXCEPT !["metadata"] = Parsed[@]]
<1>1. IsOrder(options)
  BY OrdersAssumption DEF AllOrders
<1>2. IsList(options.artifacts) /\ options.metadata \in Values
  BY <1>1, OrdersAreLists
<1>3. IsSigned(s) /\ s["artifacts"] = artifacts /\ s["version"] = "1.0.0" /\ s["metadata"] = options.metadata
  <2>1. "1.0.0" \in Supported
    BY DEF Supported
  <2> QED
    BY <1>2, <2>1, OrdersAreSigned
<1>4. IsSigned(t) /\ \A path \in ReceiptFields \ {"metadata"} : t[path] = s[path]
  BY <1>3, SerialisedIsSigned
<1>5. t["artifacts"] = artifacts /\ t["version"] = "1.0.0" /\ t["metadata"] = Parsed[options.metadata]
  <2>1. {"artifacts", "version"} \subseteq ReceiptFields \ {"metadata"} /\ "metadata" \in ReceiptFields
    BY FieldsOfReceipts
  <2>2. DOMAIN s = ReceiptFields
    BY <1>3 DEF IsSigned, IsReceipt
  <2>3. t["metadata"] = Parsed[s["metadata"]]
    BY <2>1, <2>2
  <2> QED
    BY <1>3, <1>4, <2>1, <2>3
<1>6. MarksStandApart => ValidReceipt(t)
  <2>1. /\ options.name \notin Marks /\ options.keyId \notin Marks /\ options.signerIdentity \notin Marks
        /\ \A at \in DOMAIN options.artifacts : RelativePath(options.artifacts[at].path) \notin Marks
    BY LegacyOrdersAssumption DEF Marks
  <2> SUFFICES ASSUME MarksStandApart PROVE ValidReceipt(t)
    OBVIOUS
  <2>2. \A u : u = [s EXCEPT !["metadata"] = Parsed[@]] => ValidReceipt(u)
    BY <1>2, <2>1, LegacyOrdersAreValid
  <2> QED
    BY <2>2
<1>7. Serialised(s) = t
  BY DEF Serialised
<1>12. MarksStandApart => HasReader(t)
  <2> SUFFICES ASSUME MarksStandApart PROVE HasReader(t)
    OBVIOUS
  <2>1. KeyedBy(s, options)
    BY OrdersAreKeyed
  <2>2. HasReader(s)
    BY <2>1, KeyedHasReader DEF AllOrders
  <2> HIDE DEF t
  <2> QED
    BY <1>3, <2>2, ReaderStays DEF t
<1> HIDE DEF t
<1>8. MarksStandApart => metadataHash(t) # Throws
  <2> SUFFICES ASSUME MarksStandApart PROVE metadataHash(t) # Throws
    OBVIOUS
  <2> DEFINE form == canonicalize(t["metadata"], profilesFor(t["version"]).canonical)
  <2>1. form # Throws
    BY <1>5, LegacyOrdersAssumption DEF canonicalize, profilesFor
  <2>2. metadataHash(t) = <<"sha256", "metadata", form, t["metadata.signalProfile"]>>
    BY <2>1 DEF metadataHash
  <2> HIDE DEF form
  <2>3. IsList(metadataHash(t))
    BY <2>2, TuplesAreLists
  <2> QED
    BY <2>3, ValuesStandApart
<1>9. MarksStandApart => IsUsable(t)
  BY <1>6, <1>8 DEF IsUsable
<1> DEFINE d == ReceiptOnly(t)
<1>10. IsDocument(d) /\ d.receipt = t /\ d.envelope = Missing
  BY DEF IsDocument, ReceiptOnly
<1> HIDE DEF d
<1>11. NamesItsEnvelope(d)
  <2>1. DOMAIN artifacts = DOMAIN options.artifacts
    BY DEF HashedArtifacts
  <2>2. \A at \in DOMAIN artifacts : \A e : artifacts[at].sha256 # <<"sha256", EnvelopeContent(e)>>
    BY <1>1, <2>1, OrderedFiles
  <2> HIDE DEF artifacts
  <2> QED
    BY <1>5, <1>10, <2>2 DEF NamesItsEnvelope
<1> QED
  BY <1>4, <1>7, <1>9, <1>10, <1>11, <1>12 DEF IsIssued, d

HasInFront(whole, item, list) ==
  /\ IsList(whole) /\ Len(whole) = Len(list) + 1 /\ whole[1] = item
  /\ \A at \in 2 .. Len(whole) : at - 1 \in 1 .. Len(list) /\ whole[at] = list[at - 1]

LEMMA OneMoreInFront ==
  ASSUME NEW item, NEW list, IsList(list)
  PROVE  HasInFront(<<item>> \o list, item, list)
<1> DEFINE n == Len(list)
           whole == <<item>> \o list
           T == {list[m] : m \in 1 .. n} \union {item}
<1>1. n \in Nat /\ list = [m \in 1 .. n |-> list[m]]
  BY DEF IsList
<1>2. list \in [1 .. n -> T]
  BY <1>1
<1>3. list \in Seq(T) /\ <<item>> \in Seq(T) /\ Len(<<item>>) = 1 /\ <<item>>[1] = item
  <2>1. item \in T
    OBVIOUS
  <2> HIDE DEF T
  <2>2. list \in Seq(T)
    BY <1>1, <1>2
  <2>3. <<item>> \in Seq(T) /\ Len(<<item>>) = 1 /\ <<item>>[1] = item
    BY <2>1
  <2> QED
    BY <2>2, <2>3
<1> HIDE DEF T
<1>4. whole \in Seq(T) /\ Len(whole) = n + 1 /\ whole[1] = item
  BY <1>1, <1>3
<1>5. \A at \in 2 .. n + 1 : at - 1 \in 1 .. n /\ whole[at] = list[at - 1]
  BY <1>1, <1>3
<1> HIDE DEF whole
<1>6. IsList(whole)
  BY <1>4 DEF IsList
<1> QED
  BY <1>4, <1>5, <1>6 DEF HasInFront, whole

LEMMA BundlesAreIssued ==
  ASSUME NEW order \in BundleOrders, NEW proofId, NEW bundle, bundle # Throws,
         bundle = createSignalProofBundle(order.options, order.envelope, proofId, Disk)
  PROVE  IsIssued([bundle EXCEPT !.receipt = Serialised(@)])
<1> DEFINE options == order.options
           normal == cloneAndNormalizeEnvelope(order.envelope)
           item == [path |-> ReservedPath, data |-> EnvelopeContent(normal),
                    mimeType |-> "application/json"]
           asked == [options EXCEPT !.artifacts = <<item>> \o @, !.mirror = mirrorFromEnvelope(normal)]
           receipt == createReceipt(asked, proofId, Disk)
           artifacts == HashedArtifacts(asked, Disk)
<1>1. IsOrder(options)
  BY OrdersAssumption DEF AllOrders
<1>2. bundle = BundleOf(normal, receipt)
  BY DEF createSignalProofBundle, SignedBundle
<1>3. /\ receipt # Throws
      /\ bundle = [profile |-> "nymrel-signal-proof-bundle", bundleVersion |-> "1.0.0",
                   envelope |-> normal, receipt |-> receipt]
  <2> HIDE DEF receipt
  <2> QED
    BY <1>2 DEF BundleOf
<1>4. asked = [options EXCEPT !.artifacts = <<item>> \o options.artifacts, !.mirror = mirrorFromEnvelope(normal)]
  <2> HIDE DEF options, normal, item
  <2> QED
    OBVIOUS
<1> HIDE DEF asked, options
<1>5. /\ asked.artifacts = <<item>> \o options.artifacts /\ asked.metadata = options.metadata
      /\ asked.mirror = mirrorFromEnvelope(normal)
      /\ asked.signingKey = options.signingKey /\ asked.algorithm = options.algorithm
  <2> DEFINE list == <<item>> \o options.artifacts
             mirror == mirrorFromEnvelope(normal)
  <2>1. asked = [options EXCEPT !.artifacts = list, !.mirror = mirror]
    BY <1>4
  <2> HIDE DEF list, mirror
  <2>2. /\ asked.artifacts = list /\ asked.metadata = options.metadata /\ asked.mirror = mirror
        /\ asked.signingKey = options.signingKey /\ asked.algorithm = options.algorithm
    BY <1>1, <2>1 DEF IsOrder, OrderFields
  <2> QED
    BY <2>2 DEF list, mirror
<1> HIDE DEF item, normal
<1>6. /\ IsList(asked.artifacts) /\ Len(asked.artifacts) = Len(options.artifacts) + 1
      /\ asked.artifacts[1] = item
      /\ \A at \in 2 .. Len(asked.artifacts) :
           at - 1 \in 1 .. Len(options.artifacts) /\ asked.artifacts[at] = options.artifacts[at - 1]
  <2> DEFINE list == options.artifacts
             whole == asked.artifacts
  <2>1. IsList(list) /\ whole = <<item>> \o list
    BY <1>1, <1>5, OrdersAreLists
  <2> HIDE DEF list, whole
  <2>2. HasInFront(whole, item, list)
    BY <2>1, OneMoreInFront
  <2> QED
    BY <2>2 DEF list, whole, HasInFront
<1>7. /\ ~AnyThrows(artifacts)
      /\ receipt = SignedReceipt(Header(asked, artifacts, "2.0.0", proofId), asked.signingKey)
  BY <1>3 DEF createReceipt
<1> HIDE DEF receipt
<1>8. /\ IsSigned(receipt) /\ receipt["artifacts"] = artifacts /\ receipt["version"] = "2.0.0"
      /\ receipt["metadata.signalProfile"] = mirrorFromEnvelope(normal)
  <2>1. asked.metadata \in Values /\ "2.0.0" \in Supported
    BY <1>1, <1>5, OrdersAreLists DEF Supported
  <2>2. /\ IsSigned(receipt) /\ receipt["artifacts"] = artifacts /\ receipt["version"] = "2.0.0"
        /\ receipt["metadata.signalProfile"] = asked.mirror
    BY <1>3, <1>6, <1>7, <2>1, OrdersAreSigned
  <2> QED
    BY <1>5, <2>2
<1>9. Serialised(receipt) = receipt
  BY <1>8, SerialisedIsSigned DEF Serialised
<1> DEFINE d == [bundle EXCEPT !.receipt = Serialised(@)]
<1>10. /\ IsDocument(d) /\ d.receipt = receipt /\ d.envelope = normal
       /\ d.profile = "nymrel-signal-proof-bundle" /\ d.bundleVersion = "1.0.0"
  BY <1>3, <1>9 DEF IsDocument
<1> HIDE DEF d
<1>11. MarksStandApart => NamesItsEnvelope(d)
  <2> SUFFICES ASSUME MarksStandApart, NEW at \in DOMAIN artifacts, NEW e,
                      artifacts[at].sha256 = <<"sha256", EnvelopeContent(e)>>
               PROVE  normal = e
    BY <1>8, <1>10 DEF NamesItsEnvelope
  <2>1. at \in DOMAIN asked.artifacts /\ DOMAIN asked.artifacts = 1 .. Len(asked.artifacts)
    BY <1>6 DEF HashedArtifacts, IsList
  <2> DEFINE content == ContentOf(asked.artifacts[at], Disk)
  <2>2. artifacts[at].sha256 = <<"sha256", content>>
    BY <1>7, <2>1, HashedContents
  <2> HIDE DEF artifacts
  <2>3. CASE at = 1
    <3>1. IsList(EnvelopeContent(normal))
      BY TuplesAreLists DEF EnvelopeContent
    <3>2. EnvelopeContent(normal) # Missing
      BY <3>1, ValuesStandApart DEF Marks
    <3>3. content = EnvelopeContent(normal)
      BY <1>6, <2>3, <3>2 DEF ContentOf, item
    <3>4. EnvelopeContent(normal) = EnvelopeContent(e)
      BY <2>2, <3>3
    <3> QED
      BY <3>4 DEF EnvelopeContent
  <2>4. CASE at # 1
    <3>1. at \in 2 .. Len(asked.artifacts)
      BY <1>1, <1>6, <2>1, <2>4 DEF IsList
    <3> DEFINE before == at - 1
    <3>2. before \in DOMAIN options.artifacts /\ asked.artifacts[at] = options.artifacts[before]
      BY <1>1, <1>6, <3>1, OrdersAreLists DEF IsList
    <3> HIDE DEF before
    <3>3. IsFile(content)
      <4> DEFINE old == options.artifacts[before]
      <4>1. IF old.data = Missing THEN RelativePath(old.path) \in DOMAIN Disk ELSE IsFile(old.data)
        BY <1>1, <3>2 DEF IsOrder
      <4>2. content = ContentOf(old, Disk)
        BY <3>2
      <4> HIDE DEF old, content
      <4> QED
        BY <4>1, <4>2, DiskAssumption DEF ContentOf
    <3> HIDE DEF content
    <3> QED
      BY <2>2, <3>3, FilesAreNoEnvelopes
  <2> QED
    BY <2>3, <2>4
<1>12. IsUsable(receipt)
  BY <1>8 DEF IsUsable
<1>13. MarksStandApart => HasReader(receipt)
  <2>1. KeyedBy(receipt, asked)
    <3> HIDE DEF artifacts
    <3> QED
      BY <1>3, <1>7, OrdersAreKeyed
  <2>2. KeyedBy(receipt, options)
    BY <1>5, <2>1 DEF KeyedBy
  <2>3. options \in AllOrders
    BY DEF AllOrders, options
  <2> QED
    BY <2>2, <2>3, KeyedHasReader
<1>14. MarksStandApart /\ NoAliases => IsBound(d)
  <2> SUFFICES ASSUME MarksStandApart, NoAliases PROVE IsBound(d)
    OBVIOUS
  <2>1. /\ validateSignalProofEnvelope(order.envelope) = {} /\ ~NotCanonical(normal)
        /\ ~NamesReservedPath(options.artifacts)
    BY DEF createSignalProofBundle, normal, options
  <2>2. validateSignalProofEnvelope(normal) = {} /\ cloneAndNormalizeEnvelope(normal) = normal
    BY <2>1, EnvelopesAssumption, NormalEnvelopes DEF normal
  <2>3. DOMAIN artifacts = 1 .. Len(options.artifacts) + 1 /\ Len(options.artifacts) \in Nat
    BY <1>1, <1>6, OrdersAreLists DEF HashedArtifacts, IsList
  <2>4. \A at \in DOMAIN artifacts :
          artifacts[at] # Throws /\ artifacts[at] = hashArtifact(asked.artifacts[at], Disk)
    BY <1>7 DEF HashedArtifacts, AnyThrows
  <2> HIDE DEF artifacts
  <2>5. artifacts[1] = [path |-> ReservedPath, sha256 |-> <<"sha256", EnvelopeContent(normal)>>,
                        sizeBytes |-> <<"bytes", EnvelopeContent(normal)>>,
                        mimeType |-> "application/json"]
    <3>1. artifacts[1] # Throws /\ artifacts[1] = hashArtifact(item, Disk)
      BY <1>6, <2>3, <2>4
    <3>2. EnvelopeContent(normal) # Missing
      BY TuplesAreLists, ValuesStandApart DEF EnvelopeContent, Marks
    <3>3. RelativePath(ReservedPath) = ReservedPath
      BY ReservedPathAssumption
    <3> QED
      BY <3>1, <3>2, <3>3 DEF hashArtifact, item
  <2>6. ASSUME NEW at \in DOMAIN artifacts
        PROVE  normalizeArtifactPath(artifacts[at].path) = ReservedPath <=> at = 1
    <3>1. CASE at = 1
      BY <2>5, <3>1, ReservedPathAssumption
    <3>2. CASE at # 1
      <4>1. at - 1 \in 1 .. Len(options.artifacts) /\ asked.artifacts[at] = options.artifacts[at - 1]
        BY <1>6, <2>3, <3>2
      <4> DEFINE before == at - 1
                 path == options.artifacts[before].path
      <4>2. before \in DOMAIN options.artifacts
        BY <1>1, <4>1, OrdersAreLists DEF IsList
      <4>3. artifacts[at].path = RelativePath(path)
        BY <2>4, <4>1 DEF hashArtifact
      <4> HIDE DEF before
      <4>4. normalizeArtifactPath(path) # ReservedPath
        BY <2>1, <4>2 DEF NamesReservedPath
      <4>5. normalizeArtifactPath(RelativePath(path)) # ReservedPath
        BY <4>2, <4>4 DEF NoAliases, options
      <4> QED
        BY <3>2, <4>3, <4>5
    <3> QED
      BY <3>1, <3>2
  <2>7. EnvelopeArtifacts(receipt) = {1}
    <3>1. 1 \in DOMAIN artifacts
      BY <2>3
    <3>2. EnvelopeArtifacts(receipt) =
            {at \in DOMAIN artifacts : normalizeArtifactPath(artifacts[at].path) = ReservedPath}
      BY <1>8 DEF EnvelopeArtifacts
    <3> QED
      BY <2>6, <3>1, <3>2
  <2> QED
    BY <1>8, <1>10, <2>1, <2>2, <2>5, <2>7 DEF IsBound
<1> QED
  BY <1>8, <1>10, <1>11, <1>12, <1>13, <1>14 DEF IsIssued, d
-----------------------------------------------------------------------------
(***************************************************************************)
(* The inductive invariant: what the reader has carries the signature of a *)
(* document that was issued, as long as it is valid at all.                *)
(***************************************************************************)
HeldInv ==
  held # Missing =>
    /\ IsDocument(held) /\ IsReceipt(held.receipt)
    /\ ValidReceipt(held.receipt) => IsReworked(held.receipt, issued)

UntouchedInv ==
  edits = 0 => /\ disk = Disk
               /\ held # Missing => \E i \in DOMAIN issued : held = issued[i]

IInv ==
  /\ edits \in Nat /\ IsList(issued) /\ \A i \in DOMAIN issued : IsIssued(issued[i])
  /\ UntouchedInv /\ HeldInv

LEMMA InitSatisfies == Init => IInv
<1> SUFFICES ASSUME Init PROVE IInv
  OBVIOUS
<1>1. issued = << >> /\ held = Missing /\ edits = 0 /\ disk = Disk
  BY DEF Init
<1>2. IsList(issued) /\ DOMAIN issued = {}
  BY <1>1 DEF IsList
<1> QED
  BY <1>1, <1>2 DEF IInv, UntouchedInv, HeldInv

LEMMA PublishKeeps ==
  ASSUME IInv, NEW d, IsIssued(d), MayIssue, Publish(d)
  PROVE  IInv'
<1>1. issued' = Append(issued, d) /\ held' = d /\ edits' = edits /\ disk' = disk /\ edits = 0
  BY DEF Publish, MayIssue
<1> DEFINE n == Len(issued)
<1>2. /\ IsList(issued') /\ DOMAIN issued' = 1 .. n + 1 /\ issued'[n + 1] = d
      /\ \A i \in DOMAIN issued : i \in DOMAIN issued' /\ issued'[i] = issued[i]
      /\ \A i \in DOMAIN issued' : i = n + 1 \/ i \in DOMAIN issued
  BY <1>1, OneMoreAtTheEnd DEF IInv
<1>3. n + 1 \in DOMAIN issued'
  BY <1>2 DEF IInv, IsList
<1> HIDE DEF n
<1>4. \A i \in DOMAIN issued' : IsIssued(issued'[i])
  BY <1>2 DEF IInv
<1>5. UntouchedInv'
  BY <1>1, <1>2, <1>3 DEF IInv, UntouchedInv
<1>6. IsDocument(d) /\ IsReceipt(d.receipt) /\ IsFormed(d.receipt) /\ Lower(d.receipt["signature.value"])
  BY SignedIsFormed, SignatureValues DEF IsIssued, IsSigned
<1>7. IsReworked(d.receipt, issued')
  BY <1>2, <1>3, <1>6 DEF IsReworked, Lower
<1>8. HeldInv'
  BY <1>1, <1>6, <1>7 DEF HeldInv
<1> QED
  BY <1>1, <1>2, <1>4, <1>5, <1>8 DEF IInv

LEMMA IssuesKeep ==
  ASSUME IInv
  PROVE  /\ (\E options \in Orders : Issue(options)) => IInv'
         /\ (\E options \in LegacyOrders : IssueLegacy(options)) => IInv'
         /\ (\E order \in BundleOrders : IssueBundle(order)) => IInv'
<1>1. MayIssue => disk = Disk /\ NextProofId \in Texts
  <2> SUFFICES ASSUME MayIssue PROVE disk = Disk /\ NextProofId \in Texts
    OBVIOUS
  <2>1. disk = Disk
    BY DEF MayIssue, IInv, UntouchedInv
  <2>2. Len(ProofIds) = 3 /\ ProofIds[1] = "prf_1" /\ ProofIds[2] = "prf_2" /\ ProofIds[3] = "prf_3"
    BY DEF ProofIds
  <2>3. Len(issued) \in Nat /\ Len(issued) < 3
    BY <2>2 DEF MayIssue, IInv, IsList
  <2>4. Len(issued) + 1 \in {1, 2, 3}
    BY <2>3
  <2>5. NextProofId \in {"prf_1", "prf_2", "prf_3"}
    BY <2>2, <2>4 DEF NextProofId
  <2> QED
    BY <2>1, <2>5 DEF Texts
<1>2. ASSUME NEW options \in Orders, Issue(options) PROVE IInv'
  <2> DEFINE s == createReceipt(options, NextProofId, disk)
  <2>1. MayIssue /\ s # Throws /\ Publish(ReceiptOnly(Serialised(s)))
    BY <1>2 DEF Issue, PublishReceipt, ReceiptOnly
  <2>2. IsIssued(ReceiptOnly(Serialised(s)))
    BY <1>1, <2>1, ReceiptsAreIssued
  <2> HIDE DEF s
  <2> QED
    BY <2>1, <2>2, PublishKeeps
<1>3. ASSUME NEW options \in LegacyOrders, IssueLegacy(options) PROVE IInv'
  <2> DEFINE s == SignedReceipt(Header(options, HashedArtifacts(options, disk), "1.0.0", NextProofId),
                                options.signingKey)
  <2>1. /\ MayIssue /\ s # Throws /\ Publish(ReceiptOnly(Serialised(s)))
        /\ ~AnyThrows(HashedArtifacts(options, disk))
    BY <1>3 DEF IssueLegacy, PublishReceipt, ReceiptOnly
  <2>2. IsIssued(ReceiptOnly(Serialised(s)))
    BY <1>1, <2>1, LegacyReceiptsAreIssued
  <2> HIDE DEF s
  <2> QED
    BY <2>1, <2>2, PublishKeeps
<1>4. ASSUME NEW order \in BundleOrders, IssueBundle(order) PROVE IInv'
  <2> DEFINE bundle == createSignalProofBundle(order.options, order.envelope, NextProofId, disk)
             d == [bundle EXCEPT !.receipt = Serialised(@)]
  <2>1. MayIssue /\ bundle # Throws /\ Publish(d)
    BY <1>4 DEF IssueBundle, PublishBundle
  <2>2. IsIssued(d)
    BY <1>1, <2>1, BundlesAreIssued
  <2> HIDE DEF d
  <2> QED
    BY <2>1, <2>2, PublishKeeps
<1> QED
  BY <1>2, <1>3, <1>4

\* A change to a receipt that was valid keeps the invariant if its result is valid only with
\* the signature of a document.
LEMMA EditedKeeps ==
  ASSUME IInv, held # Missing, NEW t, EditedReceipt(t), IsReceipt(t),
         ValidReceipt(t) => IsReworked(t, issued)
  PROVE  IInv'
<1>1. /\ held' = [held EXCEPT !.receipt = t] /\ edits' = edits + 1
      /\ issued' = issued /\ disk' = disk
  BY DEF EditedReceipt, Edited
<1>2. IsDocument(held) /\ edits \in Nat
  BY DEF IInv, HeldInv
<1>3. IsDocument(held') /\ held'.receipt = t
  BY <1>1, <1>2 DEF IsDocument
<1>4. edits' \in Nat /\ edits' # 0
  BY <1>1, <1>2
<1>5. HeldInv'
  BY <1>1, <1>3 DEF HeldInv
<1>6. UntouchedInv'
  BY <1>4 DEF UntouchedInv
<1> QED
  BY <1>1, <1>4, <1>5, <1>6 DEF IInv

LEMMA ValidIsReworked ==
  ASSUME IInv, MayEdit, WellFormed
  PROVE  IsReworked(held.receipt, issued) /\ IsReceipt(held.receipt) /\ held # Missing
BY ValidReceipts DEF IInv, HeldInv, MayEdit, WellFormed

LEMMA ChangeFieldKeeps ==
  ASSUME IInv, MayEdit, WellFormed, NEW path \in DOMAIN Alternatives, ChangeField(path)
  PROVE  IInv'
<1>1. PICK value \in Alternatives[path] : EditedReceipt([held.receipt EXCEPT ![path] = value])
  BY DEF ChangeField
<1>2. IsReworked(held.receipt, issued) /\ IsReceipt(held.receipt) /\ held # Missing
  BY ValidIsReworked
<1> DEFINE r == held.receipt
           t == [r EXCEPT ![path] = value]
<1>3. IsReceipt(t)
  <2> HIDE DEF r
  <2> QED
    BY <1>2, OneFieldChanged DEF Changes, r
<1>4. ValidReceipt(t) => IsReworked(t, issued)
  <2> HIDE DEF r
  <2> QED
    BY <1>2, AlternativeChosen DEF r
<1> QED
  BY <1>1, <1>2, <1>3, <1>4, EditedKeeps

LEMMA ReworkedKeeps ==
  ASSUME IInv, held # Missing, NEW t, IsReworked(t, issued), EditedReceipt(t)
  PROVE  IInv'
<1>1. IsReceipt(t)
  BY DEF IsReworked, IsFormed
<1> QED
  BY <1>1, EditedKeeps

LEMMA ChangeArtifactKeeps ==
  ASSUME IInv, MayEdit, WellFormed, NEW at \in DOMAIN held.receipt["artifacts"],
         NEW field \in DOMAIN ArtifactAlternatives, ChangeArtifact(at, field)
  PROVE  IInv'
<1> DEFINE r == held.receipt
           old == r["artifacts"][at]
<1>1. PICK value \in ArtifactAlternatives[field] :
        EditedReceipt([r EXCEPT !["artifacts"][at] = [@ EXCEPT ![field] = value]])
  BY DEF ChangeArtifact
<1>2. IsReworked(r, issued) /\ IsReceipt(r) /\ held # Missing
  BY ValidIsReworked
<1> DEFINE item == [old EXCEPT ![field] = value]
           t == [r EXCEPT !["artifacts"] = [@ EXCEPT ![at] = item]]
<1>3. EditedReceipt(t)
  BY <1>1
<1>4. IsList(r["artifacts"]) /\ at \in 1 .. Len(r["artifacts"]) /\ IsArtifact(old)
  BY <1>2 DEF IsReworked, IsFormed, IsList
<1>5. IsArtifact(item) \/ item.sha256 \in Marks
  BY <1>4, ChangedArtifact
<1> HIDE DEF item
<1>6. CASE IsArtifact(item)
  <2>1. IsReworked(t, issued)
    <3> HIDE DEF r
    <3> QED
      BY <1>2, <1>6, ArtifactReworked DEF r
  <2> HIDE DEF t
  <2> QED
    BY <1>2, <1>3, <2>1, ReworkedKeeps
<1>7. CASE item.sha256 \in Marks
  <2> DEFINE list == [r["artifacts"] EXCEPT ![at] = item]
  <2>1. t = [r EXCEPT !["artifacts"] = list]
    OBVIOUS
  <2>2. at \in DOMAIN list /\ list[at] = item
    BY <1>4
  <2>3. "artifacts" \in ReceiptFields
    BY DEF ReceiptFields
  <2> HIDE DEF list, t, r
  <2>4. IsReceipt(t) /\ t["artifacts"] = list
    <3>1. Changes(r, "artifacts", list, t)
      BY <1>2, <2>1, OneFieldChanged
    <3> QED
      BY <2>3, <3>1 DEF Changes
  <2>5. ~ValidReceipt(t)
    BY <1>7, <2>2, <2>4, FieldNotValid
  <2> QED
    BY <1>2, <1>3, <2>4, <2>5, EditedKeeps
<1> QED
  BY <1>5, <1>6, <1>7

LEMMA CapitaliseArtifactKeeps ==
  ASSUME IInv, MayEdit, WellFormed, NEW at \in DOMAIN held.receipt["artifacts"], CapitaliseArtifact(at)
  PROVE  IInv'
<1> DEFINE r == held.receipt
           old == r["artifacts"][at]
           item == [old EXCEPT !.sha256 = Upper(@)]
           t == [r EXCEPT !["artifacts"] = [@ EXCEPT ![at] = item]]
<1>1. EditedReceipt(t)
  BY DEF CapitaliseArtifact
<1>2. IsReworked(r, issued) /\ held # Missing
  BY ValidIsReworked
<1>3. at \in 1 .. Len(r["artifacts"]) /\ IsArtifact(old)
  BY <1>2 DEF IsReworked, IsFormed, IsList
<1>4. IsArtifact(item)
  BY <1>3, CapitalisedArtifact
<1> HIDE DEF item
<1>5. IsReworked(t, issued)
  <2> HIDE DEF r
  <2> QED
    BY <1>2, <1>4, ArtifactReworked DEF r
<1> HIDE DEF t
<1> QED
  BY <1>1, <1>2, <1>5, ReworkedKeeps

LEMMA EditListKeeps ==
  ASSUME IInv, MayEdit, WellFormed, EditList
  PROVE  IInv'
<1> DEFINE r == held.receipt
<1>1. IsReworked(r, issued) /\ held # Missing
  BY ValidIsReworked
<1>2. ASSUME NEW path \in {"artifacts", "merkle.leaves"}, DropLast(path) PROVE IInv'
  <2>1. r[path] # << >> /\ EditedReceipt([r EXCEPT ![path] = Front(@)])
    BY <1>2 DEF DropLast
  <2>2. IsReworked([r EXCEPT ![path] = Front(@)], issued)
    BY <1>1, <2>1, ListReworked
  <2> QED
    BY <1>1, <2>1, <2>2, ReworkedKeeps
<1>3. ASSUME NEW path \in {"artifacts", "merkle.leaves"}, RepeatLast(path) PROVE IInv'
  <2>1. r[path] # << >> /\ EditedReceipt([r EXCEPT ![path] = Append(@, Last(@))])
    BY <1>3 DEF RepeatLast
  <2>2. IsReworked([r EXCEPT ![path] = Append(@, Last(@))], issued)
    BY <1>1, <2>1, ListReworked
  <2> QED
    BY <1>1, <2>1, <2>2, ReworkedKeeps
<1>4. ASSUME NEW at \in DOMAIN r["artifacts"], CapitaliseArtifact(at) PROVE IInv'
  BY <1>4, CapitaliseArtifactKeeps
<1>5. ASSUME NEW at \in DOMAIN r["artifacts"], NEW field \in DOMAIN ArtifactAlternatives,
             ChangeArtifact(at, field)
      PROVE  IInv'
  BY <1>5, ChangeArtifactKeeps
<1>6. ASSUME CapitaliseLeaves PROVE IInv'
  <2> DEFINE t == [r EXCEPT !["merkle.leaves"] = [at \in DOMAIN @ |-> Upper(@[at])]]
  <2>1. EditedReceipt(t)
    BY <1>6 DEF CapitaliseLeaves
  <2>2. IsReworked(t, issued)
    BY <1>1, LeavesCapitalised
  <2> HIDE DEF t
  <2> QED
    BY <1>1, <2>1, <2>2, ReworkedKeeps
<1>7. ASSUME NEW path \in {"merkle.root", "signature.value"}, Capitalise(path) PROVE IInv'
  <2> DEFINE t == [r EXCEPT ![path] = Upper(@)]
  <2>1. EditedReceipt(t)
    BY <1>7 DEF Capitalise
  <2>2. IsReworked(t, issued)
    BY <1>1, DigestCapitalised
  <2> HIDE DEF t
  <2> QED
    BY <1>1, <2>1, <2>2, ReworkedKeeps
<1>8. ASSUME RecomputeTree PROVE IInv'
  <2> DEFINE t == WithTree(r, Tree(r))
  <2>1. EditedReceipt(t)
    BY <1>8 DEF RecomputeTree
  <2>2. IsReworked(t, issued)
    BY <1>1, TreeRecomputed
  <2> HIDE DEF t
  <2> QED
    BY <1>1, <2>1, <2>2, ReworkedKeeps
<1> QED
  BY <1>2, <1>3, <1>4, <1>5, <1>6, <1>7, <1>8 DEF EditList

LEMMA ExchangeKeeps ==
  ASSUME IInv, MayEdit, WellFormed, NEW part, NEW i \in DOMAIN issued, Exchange(part, issued[i])
  PROVE  IInv'
<1> DEFINE r == held.receipt
           t == [path \in ReceiptFields |-> IF path \in part THEN issued[i].receipt[path] ELSE r[path]]
<1>1. EditedReceipt(t)
  BY DEF Exchange
<1>2. IsReworked(r, issued) /\ held # Missing /\ IsSigned(issued[i].receipt)
  BY ValidIsReworked DEF IInv, IsIssued
<1>3. IsReworked(t, issued)
  BY <1>2, FieldsExchanged
<1> HIDE DEF t
<1> QED
  BY <1>1, <1>2, <1>3, ReworkedKeeps

LEMMA EnvelopeEditsKeep ==
  ASSUME IInv, MayEdit, EditEnvelope
  PROVE  IInv'
<1>1. \E e : held' = [held EXCEPT !.envelope = e]
  <2>1. ASSUME NEW path \in DOMAIN EnvelopeAlternatives, ChangeEnvelope(path)
        PROVE  \E e : held' = [held EXCEPT !.envelope = e]
    BY <2>1 DEF ChangeEnvelope, Edited
  <2>2. ASSUME NEW path, ReverseEnvelope(path)
        PROVE  \E e : held' = [held EXCEPT !.envelope = e]
    <3> DEFINE e == [held.envelope EXCEPT ![path] = Reverse(@)]
    <3>1. held' = [held EXCEPT !.envelope = e]
      BY <2>2 DEF ReverseEnvelope, Edited
    <3> HIDE DEF e
    <3> QED
      BY <3>1
  <2> QED
    BY <2>1, <2>2 DEF EditEnvelope
<1>2. edits' = edits + 1 /\ issued' = issued /\ disk' = disk
  BY DEF EditEnvelope, ChangeEnvelope, ReverseEnvelope, Edited
<1>3. held # Missing /\ IsDocument(held) /\ edits \in Nat
  BY DEF MayEdit, IInv, HeldInv
<1>4. IsDocument(held') /\ held'.receipt = held.receipt
  BY <1>1, <1>3 DEF IsDocument
<1>5. HeldInv'
  BY <1>2, <1>3, <1>4 DEF IInv, HeldInv
<1>6. edits' \in Nat /\ edits' # 0
  BY <1>2, <1>3
<1>7. UntouchedInv'
  BY <1>6 DEF UntouchedInv
<1> QED
  BY <1>2, <1>5, <1>6, <1>7 DEF IInv

LEMMA FileChangesKeep ==
  ASSUME IInv, NEW path, NEW content, FileChanges(path, content)
  PROVE  IInv'
<1>1. edits' = edits + 1 /\ issued' = issued /\ held' = held /\ edits \in Nat
  BY DEF FileChanges, IInv
<1>2. edits' \in Nat /\ edits' # 0
  BY <1>1
<1> QED
  BY <1>1, <1>2 DEF IInv, HeldInv, UntouchedInv

LEMMA NextPreserves == IInv /\ [Next]_vars => IInv'
<1> SUFFICES ASSUME IInv, [Next]_vars PROVE IInv'
  OBVIOUS
<1>1. CASE \E options \in Orders : Issue(options)
  BY <1>1, IssuesKeep
<1>2. CASE \E options \in LegacyOrders : IssueLegacy(options)
  BY <1>2, IssuesKeep
<1>3. CASE \E order \in BundleOrders : IssueBundle(order)
  BY <1>3, IssuesKeep
<1>4. CASE MayEdit /\ WellFormed /\ \E path \in DOMAIN Alternatives : ChangeField(path)
  BY <1>4, ChangeFieldKeeps
<1>5. CASE MayEdit /\ WellFormed /\ EditList
  BY <1>5, EditListKeeps
<1>6. CASE MayEdit /\ WellFormed /\ \E part \in Parts, i \in DOMAIN issued : Exchange(part, issued[i])
  BY <1>6, ExchangeKeeps
<1>7. CASE MayEdit /\ EnvelopeWellFormed /\ EditEnvelope
  BY <1>7, EnvelopeEditsKeep
<1>8. CASE MayEdit /\ \E path \in DOMAIN disk, content \in {Missing, <<"file", "new">>} :
             FileChanges(path, content)
  BY <1>8, FileChangesKeep
<1>9. CASE UNCHANGED vars
  BY <1>9 DEF vars, IInv, HeldInv, UntouchedInv
<1> QED
  BY <1>1, <1>2, <1>3, <1>4, <1>5, <1>6, <1>7, <1>8, <1>9 DEF Next

\* Whatever the reader holds, if it is valid at all, has the form of a receipt and, up to the
\* case of its letters, the signature of a document that was issued, which in turn was signed
\* over its own fields (Documents, with receipt.ts 273-346).
THEOREM HeldIsReworked == Spec => []IInv
<1> QED
  BY InitSatisfies, NextPreserves, PTL DEF Spec
-----------------------------------------------------------------------------
(***************************************************************************)
(* What a verifier can rely on.                                            *)
(***************************************************************************)
\* An accepted receipt says what a document says that the same verifier accepts.
LEMMA AcceptedSaysWhatWasSigned ==
  ASSUME IInv, MarksStandApart, held # Missing, NEW options, Accepted(held.receipt, options)
  PROVE  \E i \in DOMAIN issued :
           /\ SameSigned(held.receipt, issued[i].receipt) /\ Accepted(issued[i].receipt, options)
           /\ NamesItsEnvelope(issued[i])
           /\ held.receipt["version"] = "2.0.0" => held.receipt["artifacts"] = issued[i].receipt["artifacts"]
<1> DEFINE r == held.receipt
<1>1. ValidReceipt(r)
  BY ValidReceipts DEF Accepted
<1>2. IsReworked(r, issued)
  BY <1>1 DEF IInv, HeldInv
<1>3. PICK i \in DOMAIN issued : toLowerCase(r["signature.value"]) = issued[i].receipt["signature.value"]
  BY <1>2 DEF IsReworked
<1> DEFINE s == issued[i].receipt
<1>4. IsFormed(r) /\ IsSigned(s) /\ NamesItsEnvelope(issued[i]) /\ IsUsable(s)
  BY <1>2 DEF IsReworked, IInv, IsIssued
<1> HIDE DEF r, s
<1>5. toLowerCase(r["signature.value"]) = s["signature.value"] /\ Accepted(r, options)
  BY <1>3 DEF r, s
<1>6. s["version"] = "1.0.0" => ValidReceipt(s) /\ metadataHash(s) # Throws
  BY <1>4 DEF IsUsable
<1>7. Accepted(s, options)
  BY <1>4, <1>5, <1>6, SignedIsAccepted
<1>8. /\ LoweredLeaves(s["merkle.leaves"]) = s["merkle.leaves"] /\ Lower(s["signature.value"])
      /\ s["version"] \in {"1.0.0", "2.0.0"}
  BY <1>4, SignedIsFormed, SignatureValues DEF IsSigned, Supported
<1>9. CASE s["version"] = "2.0.0"
  <2>1. /\ \A path \in ReceiptFields \ InEitherCase : r[path] = s[path]
        /\ LoweredLeaves(r["merkle.leaves"]) = s["merkle.leaves"]
    BY <1>4, <1>5, <1>9, AcceptedIsSigned
  <2>2. {"version", "artifacts"} \subseteq ReceiptFields \ InEitherCase
    BY DEF InEitherCase, ReceiptFields, Scalars
  <2>3. r["version"] = "2.0.0" /\ r["artifacts"] = s["artifacts"]
    BY <1>9, <2>1, <2>2
  <2>4. Lowered("merkle.leaves", r["merkle.leaves"]) = Lowered("merkle.leaves", s["merkle.leaves"])
    BY <1>8, <2>1 DEF Lowered, LoweredLeaves
  <2>5. Lowered("signature.value", r["signature.value"]) = Lowered("signature.value", s["signature.value"])
    BY <1>5, <1>8 DEF Lowered, Lower
  <2>6. \A path \in ReceiptFields : path \in ReceiptFields \ InEitherCase \/ path = "merkle.leaves"
                                      \/ path = "signature.value"
    BY DEF InEitherCase
  <2>7. \A path \in ReceiptFields \ InEitherCase : Lowered(path, r[path]) = Lowered(path, s[path])
    BY <2>1
  <2>8. Agree(r, s, ReceiptFields)
    BY <2>4, <2>5, <2>6, <2>7 DEF Agree
  <2>9. SameSigned(r, s)
    BY <2>3, <2>8 DEF SameSigned
  <2> QED
    BY <1>4, <1>7, <2>3, <2>9 DEF r, s
<1>10. CASE s["version"] = "1.0.0"
  <2>1. /\ \A path \in Scalars \union TaskFields \union EnvironmentFields \union {"merkle.root"} :
             r[path] = s[path]
        /\ LoweredDigests(r) = LoweredDigests(s)
    BY <1>4, <1>5, <1>10, LegacyAcceptedIsSigned
  <2>2. "version" \in Scalars \union TaskFields \union EnvironmentFields \union {"merkle.root"}
    BY DEF Scalars
  <2>3. r["version"] = "1.0.0"
    BY <1>10, <2>1, <2>2
  <2>4. Agree(r, s, Scalars \union TaskFields \union EnvironmentFields \union {"merkle.root"})
    BY <2>1 DEF Agree
  <2>5. Digests(r) = Digests(s)
    BY <2>1 DEF Digests, LoweredDigests
  <2>6. SameSigned(r, s)
    BY <2>3, <2>4, <2>5 DEF SameSigned
  <2> QED
    BY <1>4, <1>7, <2>3, <2>6 DEF r, s
<1> QED
  BY <1>8, <1>9, <1>10

LEMMA NothingWrongOnDisk ==
  ASSUME NEW r, NEW d, DiskErrors(r, d) = {}
  PROVE  \A at \in DOMAIN r["artifacts"] :
           LET artifact == r["artifacts"][at]
           IN  /\ artifact.path \notin Escaping
               /\ <<"sha256", ContentAt(d, artifact.path)>> = toLowerCase(artifact.sha256)
<1> SUFFICES ASSUME NEW at \in DOMAIN r["artifacts"]
             PROVE  LET artifact == r["artifacts"][at]
                    IN  /\ artifact.path \notin Escaping
                        /\ <<"sha256", ContentAt(d, artifact.path)>> = toLowerCase(artifact.sha256)
  OBVIOUS
<1>1. ~(at \in Opened(r, d) => <<"sha256", ContentAt(d, r["artifacts"][at].path)>>
                                  # toLowerCase(r["artifacts"][at].sha256))
  <2> DEFINE wrong == {m \in DOMAIN r["artifacts"] :
                         m \in Opened(r, d) =>
                           <<"sha256", ContentAt(d, r["artifacts"][m].path)>>
                             # toLowerCase(r["artifacts"][m].sha256)}
  <2>1. {<<"ARTIFACT", "artifacts", m>> : m \in wrong} = {}
    BY DEF DiskErrors
  <2>2. at \notin wrong
    <3> HIDE DEF wrong
    <3> QED
      BY <2>1
  <2> QED
    BY <2>2
<1> QED
  BY <1>1 DEF Opened, artifactPathWithin

LEMMA InvariantImpliesTrust ==
  ASSUME IInv, MarksStandApart
  PROVE  TrustedIsWhatWasSigned
<1> SUFFICES ASSUME held # Missing, NEW context \in Contexts, Vouches(context, held.receipt)
             PROVE  /\ \E i \in DOMAIN issued : /\ SameSigned(held.receipt, issued[i].receipt)
                                                /\ Vouches(context, issued[i].receipt)
                    /\ verifyReceipt(held.receipt, With(context, TRUE), disk).trusted =>
                         \A at \in DOMAIN held.receipt["artifacts"] :
                           LET artifact == held.receipt["artifacts"][at]
                           IN  /\ artifact.path \notin Escaping
                               /\ <<"sha256", ContentAt(disk, artifact.path)>> = toLowerCase(artifact.sha256)
  BY DEF TrustedIsWhatWasSigned
<1> DEFINE options == With(context, FALSE)
           withFiles == With(context, TRUE)
<1>1. options.checkFilesOnDisk = FALSE /\ withFiles.checkFilesOnDisk = TRUE
  BY DEF With
<1> HIDE DEF options, withFiles
<1>2. \A r : verifyReceipt(r, options, disk).trusted <=> Accepted(r, options)
  BY <1>1, TrustedMeansAccepted
<1>3. Accepted(held.receipt, options)
  BY <1>2 DEF Vouches, options
<1>4. \E i \in DOMAIN issued :
        SameSigned(held.receipt, issued[i].receipt) /\ Accepted(issued[i].receipt, options)
  BY <1>3, AcceptedSaysWhatWasSigned
<1>5. \E i \in DOMAIN issued :
        SameSigned(held.receipt, issued[i].receipt) /\ Vouches(context, issued[i].receipt)
  BY <1>2, <1>4 DEF Vouches, options
<1>6. ASSUME verifyReceipt(held.receipt, withFiles, disk).trusted
      PROVE  DiskErrors(held.receipt, disk) = {}
  BY <1>1, <1>6, TrustedMeansAccepted
<1>7. ASSUME verifyReceipt(held.receipt, withFiles, disk).trusted
      PROVE  \A at \in DOMAIN held.receipt["artifacts"] :
               LET artifact == held.receipt["artifacts"][at]
               IN  /\ artifact.path \notin Escaping
                   /\ <<"sha256", ContentAt(disk, artifact.path)>> = toLowerCase(artifact.sha256)
  BY <1>6, <1>7, NothingWrongOnDisk
<1> QED
  BY <1>5, <1>7 DEF withFiles

\* Of any documents signed and any changes that forge no signature, a receipt that
\* verifyReceipt() trusts says what one signed receipt says that the same verifier trusts:
\* every field of version 2.0.0, the task, environment and digests of version 1.0.0, and with
\* disk checks the files have the digests it names (receipt.ts 242-271, 432-490).
THEOREM TrustedReceiptsWereSigned ==
  ASSUME MarksStandApart
  PROVE  Spec => []TrustedIsWhatWasSigned
<1>1. IInv => TrustedIsWhatWasSigned
  BY InvariantImpliesTrust
<1> QED
  BY <1>1, HeldIsReworked, PTL

LEMMA PrefixesAreDigests ==
  ASSUME NEW list, AreDigests(list), NEW count \in 0 .. Len(list)
  PROVE  AreDigests(SubSeq(list, 1, count))
<1> DEFINE n == Len(list)
           prefix == SubSeq(list, 1, count)
           T == {list[m] : m \in 1 .. n}
<1>1. n \in Nat /\ list = [m \in 1 .. n |-> list[m]] /\ \A m \in 1 .. n : Lower(list[m])
  BY DEF AreDigests, IsList
<1>2. list \in [1 .. n -> T]
  BY <1>1
<1> HIDE DEF T
<1>3. list \in Seq(T) /\ count \in Nat /\ count <= n
  BY <1>1, <1>2
<1>4. prefix \in Seq(T) /\ Len(prefix) = count /\ \A m \in 1 .. count : prefix[m] = list[m]
  BY <1>1, <1>3
<1> HIDE DEF prefix
<1>5. IsList(prefix)
  BY <1>4 DEF IsList
<1>6. \A m \in 1 .. count : m \in 1 .. n
  BY <1>1, <1>3
<1>7. \A m \in 1 .. Len(prefix) : Lower(prefix[m])
  BY <1>1, <1>4, <1>6
<1> QED
  BY <1>5, <1>7 DEF AreDigests, prefix

LEMMA InvariantImpliesInclusion ==
  ASSUME IInv
  PROVE  InclusionProofs
<1> SUFFICES ASSUME held # Missing, edits = 0, NEW count \in 0 .. Len(held.receipt["merkle.leaves"])
             PROVE  LET leaves == SubSeq(held.receipt["merkle.leaves"], 1, count)
                        profile == profilesFor(held.receipt["version"]).merkle
                        root == getRoot(leaves, profile)
                    IN  /\ profile = "rfc6962" => root = TreeHead(leaves)
                        /\ \A i, j \in DOMAIN leaves :
                             verifyProof(leaves[j], getProof(leaves, profile, i - 1), root)
                               <=> leaves[i] = leaves[j]
  BY DEF InclusionProofs
<1> DEFINE r == held.receipt
           leaves == SubSeq(r["merkle.leaves"], 1, count)
           profile == profilesFor(r["version"]).merkle
           root == getRoot(leaves, profile)
<1>1. IsSigned(r)
  BY DEF IInv, UntouchedInv, IsIssued
<1> HIDE DEF r
<1>2. AreDigests(r["merkle.leaves"])
  BY <1>1, SignedIsFormed DEF IsSigned, AreLeaves
<1>3. AreDigests(leaves)
  <2>1. count \in 0 .. Len(r["merkle.leaves"])
    BY DEF r
  <2> QED
    BY <1>2, <2>1, PrefixesAreDigests
<1> HIDE DEF leaves, profile
<1>4. profile = "rfc6962" => root = TreeHead(leaves)
  BY <1>3, RootsAreTreeHeads
<1>5. DOMAIN leaves = 1 .. Len(leaves) /\ \A m \in DOMAIN leaves : Lower(leaves[m])
  BY <1>3 DEF AreDigests, IsList
<1>6. ASSUME NEW i \in DOMAIN leaves, NEW j \in DOMAIN leaves
      PROVE  verifyProof(leaves[j], getProof(leaves, profile, i - 1), root) <=> leaves[i] = leaves[j]
  <2>1. toLowerCase(leaves[j]) = leaves[j] /\ Lower(toLowerCase(leaves[j])) /\ i \in 1 .. Len(leaves)
    BY <1>5 DEF Lower
  <2>2. verifyProof(leaves[j], getProof(leaves, profile, i - 1), root) <=> toLowerCase(leaves[j]) = leaves[i]
    BY <1>3, <2>1, ProofsAreExact
  <2> QED
    BY <2>1, <2>2
<1> QED
  BY <1>4, <1>6 DEF leaves, profile, r

\* For any receipt and any prefix of its leaves, of any length, the path that getProof() gives
\* for one leaf leads that leaf, and no other, to the root, which for version 2.0.0 is the
\* tree head of RFC 6962 (merkle.ts 66-142).
THEOREM InclusionProofsHold == Spec => []InclusionProofs
<1>1. IInv => InclusionProofs
  BY InvariantImpliesInclusion
<1> QED
  BY <1>1, HeldIsReworked, PTL

LEMMA ValidReportsNameTheReceipt ==
  ASSUME NEW r, NEW options, NEW d, verifyReceipt(r, options, d).valid
  PROVE  verifyReceipt(r, options, d).receipt = r
<1>1. \A errors : ~invalidContext(errors).valid
  BY DEF invalidContext
<1>2. \A opened, errors : Report(r, options, opened, errors).receipt = r
  BY DEF Report
<1>3. \A core : DiskVerdict(r, options, d, core).receipt = r
  BY <1>2 DEF DiskVerdict
<1>4. \A malformed : Verdict(r, options, d, malformed).valid => Verdict(r, options, d, malformed).receipt = r
  BY <1>1, <1>3 DEF Verdict
<1> QED
  BY <1>1, <1>4 DEF verifyReceipt

\* What a bundle that verifySignalProofBundle() finds valid went through.
LEMMA ValidBundles ==
  ASSUME NEW bundle, NEW options, NEW d, verifySignalProofBundle(bundle, options, d).valid
  PROVE  /\ \E o : Accepted(bundle.receipt, o)
         /\ bundle.receipt # Missing => bundle.receipt["version"] = "2.0.0"
         /\ EnvelopeBound(bundle.receipt, cloneAndNormalizeEnvelope(bundle.envelope))
         /\ verifySignalProofBundle(bundle, options, d).authoritative =
              Authoritative(cloneAndNormalizeEnvelope(bundle.envelope))
<1> DEFINE result == verifySignalProofBundle(bundle, options, d)
           normal == cloneAndNormalizeEnvelope(bundle.envelope)
           without == [options EXCEPT !.checkFilesOnDisk = FALSE]
           first == verifyReceipt(bundle.receipt, without, d)
           wrong == BundleErrors(bundle) \union VersionError(first.receipt)
           admitted == wrong = {} /\ first.valid /\ first.merkleValid
           errors == IF admitted THEN BindingErrors(first.receipt, normal) ELSE wrong
           core == CoreWithDisk(first, options, d, admitted /\ errors = {})
<1>1. result = SignalVerdict(bundle, options, d)
  <2>1. ~failedSignalProofVerification.valid
    BY DEF failedSignalProofVerification
  <2> QED
    BY <2>1 DEF verifySignalProofBundle
<1>2. result = SignalReport(normal, admitted, errors, core)
  BY <1>1 DEF SignalVerdict, AfterCore, AfterBinding
<1> HIDE DEF result, normal, core, errors
<1>3. result.valid /\ result = SignalReport(normal, admitted, errors, core)
  BY <1>2 DEF result
<1> HIDE DEF admitted
<1>4. admitted /\ errors = {} /\ core.trusted /\ result.authoritative = Authoritative(normal)
  BY <1>3 DEF SignalReport
<1>5. /\ wrong = {} /\ first.valid /\ BindingErrors(first.receipt, normal) = {}
      /\ core = CoreWithDisk(first, options, d, TRUE)
  BY <1>4 DEF admitted, errors, core
<1>6. first.receipt = bundle.receipt
  BY <1>5, ValidReportsNameTheReceipt
<1>7. bundle.receipt # Missing => bundle.receipt["version"] = "2.0.0"
  <2>1. VersionError(bundle.receipt) = {}
    BY <1>5, <1>6
  <2> QED
    BY <2>1 DEF VersionError
<1>8. EnvelopeBound(bundle.receipt, normal)
  <2>1. BindingErrors(bundle.receipt, normal) = {}
    BY <1>5, <1>6
  <2> QED
    BY <2>1 DEF BindingErrors
<1>9. \E o : Accepted(bundle.receipt, o)
  <2>1. CASE ~options.checkFilesOnDisk
    <3>1. core = first
      BY <1>5, <2>1 DEF CoreWithDisk
    <3>2. verifyReceipt(bundle.receipt, without, d).trusted
      BY <1>4, <3>1
    <3> HIDE DEF without
    <3>3. Accepted(bundle.receipt, without)
      BY <3>2, TrustedMeansAccepted
    <3> QED
      BY <3>3
  <2>2. CASE options.checkFilesOnDisk
    <3>1. core = verifyReceipt(bundle.receipt, options, d)
      BY <1>5, <1>6, <2>2 DEF CoreWithDisk
    <3>2. Accepted(bundle.receipt, options)
      BY <1>4, <3>1, TrustedMeansAccepted
    <3> QED
      BY <3>2
  <2> QED
    BY <2>1, <2>2
<1> QED
  BY <1>4, <1>7, <1>8, <1>9 DEF result, normal

LEMMA InvariantImpliesAuthority ==
  ASSUME IInv, MarksStandApart
  PROVE  AuthoritativeIsSigned
<1> DEFINE normal == cloneAndNormalizeEnvelope(held.envelope)
<1> SUFFICES ASSUME held # Missing, HoldsBundle, NEW options,
                    verifySignalProofBundle(held, options, disk).valid
             PROVE  \E i \in DOMAIN issued :
                      /\ issued[i].envelope = normal /\ SameSigned(held.receipt, issued[i].receipt)
                      /\ verifySignalProofBundle(held, options, disk).authoritative =
                           Authoritative(issued[i].envelope)
  BY DEF AuthoritativeIsSigned
<1>1. /\ \E o : Accepted(held.receipt, o)
      /\ held.receipt # Missing => held.receipt["version"] = "2.0.0"
      /\ EnvelopeBound(held.receipt, normal)
      /\ verifySignalProofBundle(held, options, disk).authoritative = Authoritative(normal)
  BY ValidBundles
<1> HIDE DEF normal
<1>2. held.receipt["version"] = "2.0.0"
  <2>1. ValidReceipt(held.receipt)
    BY <1>1, ValidReceipts DEF Accepted
  <2> QED
    BY <1>1, <2>1 DEF ValidReceipt
<1>3. PICK i \in DOMAIN issued :
        /\ SameSigned(held.receipt, issued[i].receipt) /\ NamesItsEnvelope(issued[i])
        /\ held.receipt["artifacts"] = issued[i].receipt["artifacts"]
  BY <1>1, <1>2, AcceptedSaysWhatWasSigned
<1> DEFINE artifacts == issued[i].receipt["artifacts"]
<1>4. PICK at \in DOMAIN artifacts : toLowerCase(artifacts[at].sha256) = <<"sha256", EnvelopeContent(normal)>>
  BY <1>1, <1>3 DEF EnvelopeBound, EnvelopeArtifacts
<1>5. IsHashed(artifacts[at])
  BY <1>4 DEF IInv, IsIssued, IsSigned, IsList
<1>6. artifacts[at].sha256 = <<"sha256", EnvelopeContent(normal)>>
  <2> DEFINE item == artifacts[at]
  <2> HIDE DEF item
  <2>1. PICK path, content, mimeType :
          item = [path |-> path, sha256 |-> <<"sha256", content>>, sizeBytes |-> <<"bytes", content>>,
                  mimeType |-> mimeType]
    BY <1>5 DEF IsHashed, item
  <2>2. item.sha256 = <<"sha256", content>>
    BY <2>1
  <2>3. toLowerCase(item.sha256) = item.sha256
    BY <2>2 DEF toLowerCase
  <2> QED
    BY <1>4, <2>3 DEF item
<1>7. issued[i].envelope = normal
  BY <1>3, <1>4, <1>6 DEF NamesItsEnvelope
<1> QED
  BY <1>1, <1>3, <1>7

\* A bundle that verifySignalProofBundle() finds valid, whatever was done to it, has the
\* envelope of one bundle that was signed, up to white space and order, and what is reported
\* as authoritative is that envelope's content (signal.ts 373-409, 542-624).
THEOREM AuthoritativeContentWasSigned ==
  ASSUME MarksStandApart
  PROVE  Spec => []AuthoritativeIsSigned
<1>1. IInv => AuthoritativeIsSigned
  BY InvariantImpliesAuthority
<1> QED
  BY <1>1, HeldIsReworked, PTL

LEMMA InvariantImpliesAcceptance ==
  ASSUME IInv, MarksStandApart, NoAliases
  PROVE  SerialisedReceiptsVerify
<1> SUFFICES ASSUME held # Missing, edits = 0, validateReceiptEnvelope(held.receipt) = {}
             PROVE  \E context \in Contexts :
                      /\ Vouches(context, held.receipt)
                      /\ HoldsBundle => verifySignalProofBundle(held, With(context, FALSE), disk).valid
  BY DEF SerialisedReceiptsVerify
<1>1. IsIssued(held)
  BY DEF IInv, UntouchedInv
<1>2. PICK context \in Contexts : Accepted(held.receipt, With(context, FALSE))
  BY <1>1, ValidReceipts, ReadersAccept DEF IsIssued
<1>3. Vouches(context, held.receipt)
  <2> DEFINE options == With(context, FALSE)
  <2>1. options.checkFilesOnDisk = FALSE
    BY DEF With
  <2> HIDE DEF options
  <2>2. Accepted(held.receipt, options)
    BY <1>2 DEF options
  <2>3. verifyReceipt(held.receipt, options, disk).trusted
    BY <2>1, <2>2, TrustedMeansAccepted
  <2> QED
    BY <2>3 DEF Vouches, options
<1>4. ASSUME HoldsBundle
      PROVE  verifySignalProofBundle(held, With(context, FALSE), disk).valid
  <2>1. IsSigned(held.receipt) /\ IsBound(held)
    BY <1>1, <1>4 DEF IsIssued, HoldsBundle
  <2> QED
    BY <1>2, <2>1, BoundIsValid
<1> QED
  BY <1>3, <1>4

\* Whatever a receipt was asked for, it is accepted, after it went through JSON, by a verifier
\* that knows its key, and so is the bundle it came in, unless a name in it is empty
\* (canonical.ts 22-76, receipt.ts 273-346, signal.ts 373-409). For bundles, no path of an
\* artifact may become the envelope's only when it is made relative: createSignalProofBundle()
\* does not refuse these.
THEOREM SerialisedReceiptsAreAccepted ==
  ASSUME MarksStandApart, NoAliases
  PROVE  Spec => []SerialisedReceiptsVerify
<1>1. IInv => SerialisedReceiptsVerify
  BY InvariantImpliesAcceptance
<1> QED
  BY <1>1, HeldIsReworked, PTL

LEMMA InvariantImpliesRefusal ==
  ASSUME IInv, MarksStandApart, NoAliases
  PROVE  CollisionsAreRefused
<1> SUFFICES ASSUME NEW i \in DOMAIN issued, issued[i].envelope # Missing
             PROVE  Cardinality(EnvelopeArtifacts(issued[i].receipt)) = 1
  BY DEF CollisionsAreRefused
<1>1. EnvelopeArtifacts(issued[i].receipt) = {1}
  BY DEF IInv, IsIssued, IsBound
<1> QED
  BY <1>1, FS_Singleton

\* What signal.test.ts:416 expects of reserved paths holds of every bundle that is signed as
\* long as no path of an artifact becomes the reserved one only when it is made relative: that
\* createSignalProofBundle() looks at the paths before they are is the one cause of the
\* collisions (signal.ts 379-396).
THEOREM CollisionsAreAliases ==
  ASSUME MarksStandApart, NoAliases
  PROVE  Spec => []CollisionsAreRefused
<1>1. IInv => CollisionsAreRefused
  BY InvariantImpliesRefusal
<1> QED
  BY <1>1, HeldIsReworked, PTL
=============================================================================
