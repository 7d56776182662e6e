---------------------------- MODULE ReceiptProofs ----------------------------
(***************************************************************************)
(* Proofs about Receipt, and about the trees and canonical forms that      *)
(* receipts are made of: for trees of any number of leaves, and for        *)
(* receipts with any artifacts and metadata.                               *)
(***************************************************************************)
EXTENDS Receipt, TLAPS, WellFoundedInduction

(***************************************************************************)
(* Induction, with the set of the numbers that have the property in place  *)
(* of the property.                                                        *)
(***************************************************************************)
Below == {pair \in Nat \X Nat : pair[1] < pair[2]}

LEMMA BelowIsWellFounded == IsWellFoundedOn(Below, Nat)
BY NatLessThanWellFounded DEF OpToRel, Below

\* Whatever holds of a number if it holds of all smaller ones holds of all.
LEMMA Complete ==
  ASSUME NEW S, \A n \in Nat : (\A m \in Nat : m < n => m \in S) => n \in S
  PROVE  Nat \subseteq S
<1> DEFINE T == Nat \ S
<1> SUFFICES ASSUME T # {} PROVE FALSE
  OBVIOUS
<1>1. T \subseteq Nat
  OBVIOUS
<1> HIDE DEF T
<1>2. PICK n \in T : \A m \in T : ~(<<m, n>> \in Below)
  BY <1>1, BelowIsWellFounded, WFMin
<1>3. \A m \in Nat : m < n => m \in S
  BY <1>1, <1>2 DEF Below, T
<1> QED
  BY <1>1, <1>3 DEF T

LEMMA Inductive ==
  ASSUME NEW S, 0 \in S, \A n \in Nat : n \in S => n + 1 \in S
  PROVE  Nat \subseteq S
<1>1. ASSUME NEW n \in Nat, \A m \in Nat : m < n => m \in S
      PROVE  n \in S
  <2>1. CASE n = 0
    BY <2>1
  <2>2. CASE n # 0
    <3>1. n - 1 \in Nat /\ n - 1 < n /\ (n - 1) + 1 = n
      BY <2>2
    <3>2. n - 1 \in S
      BY <1>1, <3>1
    <3>3. (n - 1) + 1 \in S
      BY <3>1, <3>2
    <3> QED
      BY <3>1, <3>3
  <2> QED
    BY <2>1, <2>2
<1> QED
  BY <1>1, Complete
-----------------------------------------------------------------------------
(***************************************************************************)
(* Layers.                                                                 *)
(***************************************************************************)
\* A list is a function on an interval that starts with 1.
LEMMA Lists ==
  ASSUME NEW q \in Nat, NEW f, f = [m \in 1 .. q |-> f[m]]
  PROVE  /\ Len(f) = q /\ DOMAIN f = 1 .. q
         /\ f \in Seq({f[m] : m \in 1 .. q})
<1>1. f \in [1 .. q -> {f[m] : m \in 1 .. q}]
  OBVIOUS
<1>2. f \in Seq({f[m] : m \in 1 .. q})
  BY <1>1
<1> QED
  BY <1>2

IsList(f) == Len(f) \in Nat /\ f = [m \in 1 .. Len(f) |-> f[m]]

LEMMA OneMoreAtTheEnd ==
  ASSUME NEW list, IsList(list), NEW item
  PROVE  LET whole == Append(list, item)
         IN  /\ IsList(whole) /\ DOMAIN whole = 1 .. Len(list) + 1 /\ whole[Len(list) + 1] = item
             /\ \A at \in DOMAIN list : at \in DOMAIN whole /\ whole[at] = list[at]
             /\ \A at \in DOMAIN whole : at = Len(list) + 1 \/ at \in DOMAIN list
<1> DEFINE n == Len(list)
           whole == Append(list, item)
           T == {list[m] : m \in 1 .. n} \union {item}
<1>1. n \in Nat /\ list = [m \in 1 .. n |-> list[m]] /\ DOMAIN list = 1 .. n
  BY DEF IsList
<1>2. list \in [1 .. n -> T]
  BY <1>1
<1>3. item \in T
  OBVIOUS
<1> HIDE DEF T
<1>4. list \in Seq(T)
  BY <1>1, <1>2
<1>5. whole \in Seq(T) /\ Len(whole) = n + 1 /\ DOMAIN whole = 1 .. n + 1
      /\ \A m \in 1 .. n + 1 : whole[m] = IF m = n + 1 THEN item ELSE list[m]
  BY <1>1, <1>3, <1>4
<1> HIDE DEF whole
<1>6. IsList(whole)
  BY <1>5 DEF IsList
<1>7. whole[n + 1] = item /\ \A m \in 1 .. n : m \in DOMAIN whole /\ whole[m] = list[m]
  BY <1>1, <1>5
<1> QED
  BY <1>1, <1>5, <1>6, <1>7 DEF whole

\* The recursion of buildLayers(), up to layer n.
LayersTo(n, f, leaves, profile) ==
  f = [k \in 0 .. n |-> IF k = 0 THEN leaves ELSE NextLayer(f[k - 1], profile)]

LEMMA LayersExist ==
  ASSUME NEW leaves, NEW profile, NEW count \in Nat
  PROVE  \E f : LayersTo(count, f, leaves, profile)
<1> DEFINE S == {n \in Nat : \E f : LayersTo(n, f, leaves, profile)}
<1>1. 0 \in S
  <2> DEFINE f == [k \in 0 .. 0 |-> leaves]
  <2>1. LayersTo(0, f, leaves, profile)
    BY DEF LayersTo
  <2> QED
    BY <2>1
<1>2. ASSUME NEW n \in Nat, n \in S
      PROVE  n + 1 \in S
  <2>1. PICK f : LayersTo(n, f, leaves, profile)
    BY <1>2
  <2> DEFINE g == [k \in 0 .. n + 1 |-> IF k = n + 1 THEN NextLayer(f[n], profile) ELSE f[k]]
  <2>2. \A k \in 0 .. n : f[k] = IF k = 0 THEN leaves ELSE NextLayer(f[k - 1], profile)
    BY <2>1 DEF LayersTo
  <2>3. \A k \in 0 .. n + 1 : g[k] = IF k = 0 THEN leaves ELSE NextLayer(g[k - 1], profile)
    <3>1. ASSUME NEW k \in 0 .. n
          PROVE  g[k] = IF k = 0 THEN leaves ELSE NextLayer(g[k - 1], profile)
      <4>1. g[k] = f[k]
        OBVIOUS
      <4>2. k # 0 => g[k - 1] = f[k - 1]
        OBVIOUS
      <4> HIDE DEF g
      <4> QED
        BY <2>2, <4>1, <4>2
    <3>2. g[n + 1] = NextLayer(g[n], profile)
      OBVIOUS
    <3> HIDE DEF g
    <3> QED
      BY <3>1, <3>2
  <2>4. g = [k \in 0 .. n + 1 |-> g[k]]
    OBVIOUS
  <2> HIDE DEF g
  <2>5. LayersTo(n + 1, g, leaves, profile)
    BY <2>3, <2>4 DEF LayersTo
  <2> QED
    BY <2>5
<1> HIDE DEF S
<1>3. Nat \subseteq S
  BY <1>1, <1>2, Inductive
<1> QED
  BY <1>3 DEF S

LEMMA LayersFacts ==
  ASSUME NEW leaves, NEW profile, Len(leaves) \in Nat
  PROVE  LET layer == buildLayers(leaves, profile)
         IN  /\ layer[0] = leaves
             /\ \A k \in 1 .. Len(leaves) : layer[k] = NextLayer(layer[k - 1], profile)
<1> DEFINE layer == buildLayers(leaves, profile)
<1>1. \E f : LayersTo(Len(leaves), f, leaves, profile)
  BY LayersExist
<1>2. LayersTo(Len(leaves), layer, leaves, profile)
  BY <1>1 DEF buildLayers, LayersTo
<1>3. \A k \in 0 .. Len(leaves) : layer[k] = IF k = 0 THEN leaves ELSE NextLayer(layer[k - 1], profile)
  BY <1>2 DEF LayersTo
<1> HIDE DEF layer
<1> QED
  BY <1>3 DEF layer

Lower(x) == toLowerCase(x) = x
AreDigests(f) == IsList(f) /\ \A m \in 1 .. Len(f) : Lower(f[m])

LEMMA NodesAreLower ==
  ASSUME NEW left, NEW right
  PROVE  Lower(hashNodes(left, right))
<1>1. hashNodes(left, right)[1] = "node"
  BY DEF hashNodes
<1> QED
  BY <1>1 DEF Lower, toLowerCase

\* The node above position n of a layer.
Above(layer, profile, n) ==
  IF 2 * n <= Len(layer) THEN hashNodes(layer[2 * n - 1], layer[2 * n])
  ELSE Unpaired(layer[2 * n - 1], profile)

LEMMA NextLayerFacts ==
  ASSUME NEW layer, NEW profile, AreDigests(layer), Len(layer) > 1
  PROVE  LET next == NextLayer(layer, profile)
         IN  /\ AreDigests(next) /\ Len(next) = (Len(layer) + 1) \div 2
             /\ \A n \in 1 .. Len(next) : next[n] = Above(layer, profile, n)
<1> DEFINE q == (Len(layer) + 1) \div 2
           next == NextLayer(layer, profile)
<1>1. q \in Nat
  BY DEF AreDigests, IsList
<1>2. next = [n \in 1 .. q |-> Above(layer, profile, n)]
  BY DEF NextLayer, Above, AreDigests, IsList
<1>3. \A n \in 1 .. q : Lower(Above(layer, profile, n))
  <2> SUFFICES ASSUME NEW n \in 1 .. q
               PROVE  Lower(Above(layer, profile, n))
    OBVIOUS
  <2>1. 2 * n - 1 \in 1 .. Len(layer)
    BY DEF AreDigests, IsList
  <2>2. Lower(layer[2 * n - 1])
    BY <2>1 DEF AreDigests
  <2> QED
    BY <2>2, NodesAreLower DEF Above, Unpaired
<1> HIDE DEF q, next
<1>4. next = [n \in 1 .. q |-> next[n]] /\ \A n \in 1 .. q : next[n] = Above(layer, profile, n)
  BY <1>2
<1>5. Len(next) = q
  BY <1>1, <1>4, Lists
<1> QED
  BY <1>1, <1>3, <1>4, <1>5 DEF AreDigests, IsList, q, next

\* Layers are lists of digests, and each is shorter than the one before it until one node
\* is left.
LEMMA LayerShapes ==
  ASSUME NEW leaves, NEW profile, AreDigests(leaves), Len(leaves) > 0
  PROVE  \A k \in 0 .. Len(leaves) :
           LET layer == buildLayers(leaves, profile)[k]
           IN  /\ AreDigests(layer) /\ Len(layer) > 0
               /\ Len(layer) = 1 \/ Len(layer) <= Len(leaves) - k
<1> DEFINE layer == buildLayers(leaves, profile)
           Shape(k) == /\ AreDigests(layer[k]) /\ Len(layer[k]) > 0
                       /\ Len(layer[k]) = 1 \/ Len(layer[k]) <= Len(leaves) - k
           S == {k \in Nat : k <= Len(leaves) => Shape(k)}
<1>1. Len(leaves) \in Nat
  BY DEF AreDigests, IsList
<1>2. /\ layer[0] = leaves
      /\ \A k \in 1 .. Len(leaves) : layer[k] = NextLayer(layer[k - 1], profile)
  BY <1>1, LayersFacts
<1> HIDE DEF layer
<1>3. 0 \in S
  BY <1>1, <1>2
<1>4. ASSUME NEW k \in Nat, k \in S
      PROVE  k + 1 \in S
  <2> SUFFICES ASSUME k + 1 <= Len(leaves)
               PROVE  Shape(k + 1)
    OBVIOUS
  <2>1. Shape(k) /\ layer[k + 1] = NextLayer(layer[k], profile)
    BY <1>1, <1>2, <1>4
  <2>2. CASE Len(layer[k]) = 1
    <3>1. layer[k + 1] = layer[k]
      BY <2>1, <2>2 DEF NextLayer
    <3> QED
      BY <2>1, <2>2, <3>1
  <2>3. CASE Len(layer[k]) # 1
    <3> DEFINE n == Len(leaves)
               m == Len(layer[k])
               next == layer[k + 1]
    <3>1. m \in Nat /\ n \in Nat
      BY <1>1, <2>1 DEF AreDigests, IsList
    <3>2. m > 0 /\ m # 1 /\ m <= n - k /\ k + 1 <= n
      BY <2>1, <2>3
    <3>3. AreDigests(layer[k]) /\ next = NextLayer(layer[k], profile)
      BY <2>1
    <3>4. m > 1
      <4> HIDE DEF m
      <4> QED
        BY <3>1, <3>2
    <3>5. AreDigests(next) /\ Len(next) = (m + 1) \div 2
      BY <3>3, <3>4, NextLayerFacts
    <3> HIDE DEF m, n, next
    <3>6. Len(next) > 0 /\ (Len(next) = 1 \/ Len(next) <= n - (k + 1))
      BY <3>1, <3>2, <3>4, <3>5
    <3> QED
      BY <3>5, <3>6 DEF n, next
  <2> QED
    BY <2>2, <2>3
<1> HIDE DEF S
<1>5. Nat \subseteq S
  BY <1>3, <1>4, Inductive
<1> QED
  BY <1>1, <1>5 DEF S, layer
-----------------------------------------------------------------------------
(***************************************************************************)
(* Paths: what verifyProof() computes from a digest along a path.          *)
(***************************************************************************)
Combined(step, current) ==
  IF step.position = "left" THEN hashNodes(step.hash, current) ELSE hashNodes(current, step.hash)

CurrentTo(n, c, x, proof) ==
  c = [k \in 0 .. n |-> IF k = 0 THEN toLowerCase(x) ELSE Combined(proof[k], c[k - 1])]

\* The path leads from x to y.
Climbs(x, proof, y) == \E c : CurrentTo(Len(proof), c, x, proof) /\ c[Len(proof)] = y

LEMMA ClimbNothing ==
  ASSUME NEW x
  PROVE  Climbs(x, <<>>, toLowerCase(x))
<1> DEFINE c == [k \in 0 .. 0 |-> toLowerCase(x)]
<1>1. CurrentTo(0, c, x, <<>>) /\ c[0] = toLowerCase(x)
  BY DEF CurrentTo
<1> QED
  BY <1>1 DEF Climbs

LEMMA ClimbOneMore ==
  ASSUME NEW x, NEW T, NEW proof \in Seq(T), NEW step \in T, NEW y, Climbs(x, proof, y)
  PROVE  Climbs(x, proof \o <<step>>, Combined(step, y))
<1> DEFINE n == Len(proof)
           longer == proof \o <<step>>
<1>1. n \in Nat /\ Len(longer) = n + 1 /\ longer[n + 1] = step /\ \A k \in 1 .. n : longer[k] = proof[k]
  OBVIOUS
<1>2. PICK c : CurrentTo(n, c, x, proof) /\ c[n] = y
  BY DEF Climbs
<1> HIDE DEF n, longer
<1> DEFINE d == [k \in 0 .. n + 1 |-> IF k = n + 1 THEN Combined(step, y) ELSE c[k]]
<1>3. \A k \in 0 .. n : c[k] = IF k = 0 THEN toLowerCase(x) ELSE Combined(proof[k], c[k - 1])
  BY <1>2 DEF CurrentTo
<1>4. \A k \in 0 .. n + 1 : d[k] = IF k = 0 THEN toLowerCase(x) ELSE Combined(longer[k], d[k - 1])
  <2>1. ASSUME NEW k \in 0 .. n
        PROVE  d[k] = IF k = 0 THEN toLowerCase(x) ELSE Combined(longer[k], d[k - 1])
    <3>1. d[k] = c[k] /\ (k # 0 => d[k - 1] = c[k - 1])
      BY <1>1
    <3> HIDE DEF d
    <3> QED
      BY <1>1, <1>3, <3>1
  <2>2. d[n + 1] = Combined(longer[n + 1], d[n])
    BY <1>1, <1>2
  <2> HIDE DEF d
  <2> QED
    BY <1>1, <2>1, <2>2
<1>5. d = [k \in 0 .. n + 1 |-> d[k]] /\ d[n + 1] = Combined(step, y)
  BY <1>1
<1> HIDE DEF d
<1>6. CurrentTo(n + 1, d, x, longer)
  BY <1>4, <1>5 DEF CurrentTo
<1> QED
  BY <1>1, <1>5, <1>6 DEF Climbs, longer

\* Two climbs along one path from one digest end at the same place.
LEMMA ClimbIsOne ==
  ASSUME NEW x, NEW proof, NEW y, Climbs(x, proof, y), Len(proof) \in Nat, NEW c,
         CurrentTo(Len(proof), c, x, proof)
  PROVE  c[Len(proof)] = y
<1>1. PICK d : CurrentTo(Len(proof), d, x, proof) /\ d[Len(proof)] = y
  BY DEF Climbs
<1> DEFINE S == {k \in Nat : k <= Len(proof) => c[k] = d[k]}
<1>2. \A k \in 0 .. Len(proof) :
        /\ c[k] = IF k = 0 THEN toLowerCase(x) ELSE Combined(proof[k], c[k - 1])
        /\ d[k] = IF k = 0 THEN toLowerCase(x) ELSE Combined(proof[k], d[k - 1])
  BY <1>1 DEF CurrentTo
<1>3. 0 \in S
  BY <1>2
<1>4. ASSUME NEW k \in Nat, k \in S
      PROVE  k + 1 \in S
  <2> SUFFICES ASSUME k + 1 <= Len(proof)
               PROVE  c[k + 1] = d[k + 1]
    OBVIOUS
  <2>1. c[k] = d[k] /\ k + 1 \in 0 .. Len(proof) /\ (k + 1) - 1 = k /\ k + 1 # 0
    BY <1>4
  <2> QED
    BY <1>2, <2>1
<1> HIDE DEF S
<1>5. Nat \subseteq S
  BY <1>3, <1>4, Inductive
<1> QED
  BY <1>1, <1>5 DEF S

LEMMA VerifiedByClimbing ==
  ASSUME NEW x, NEW proof, NEW root, NEW y, Len(proof) \in Nat, Climbs(x, proof, y)
  PROVE  verifyProof(x, proof, root) <=>
           /\ \A k \in DOMAIN proof : proof[k].position \in {"left", "right"}
           /\ y = toLowerCase(root)
<1> DEFINE current == CHOOSE c : CurrentTo(Len(proof), c, x, proof)
<1>1. CurrentTo(Len(proof), current, x, proof)
  BY DEF Climbs
<1>2. current[Len(proof)] = y
  BY <1>1, ClimbIsOne
<1>3. verifyProof(x, proof, root) <=>
        /\ \A k \in DOMAIN proof : proof[k].position \in {"left", "right"}
        /\ current[Len(proof)] = toLowerCase(root)
  BY DEF verifyProof, CurrentTo, Combined
<1> HIDE DEF current
<1> QED
  BY <1>2, <1>3
-----------------------------------------------------------------------------
(***************************************************************************)
(* Inclusion proofs.                                                       *)
(***************************************************************************)
\* The recursion of getProof(), up to layer n.
PathTo(n, f, layer, profile, index) ==
  f = [k \in 0 .. n |->
         IF k = 0 THEN [at |-> index, steps |-> <<>>]
         ELSE [at |-> f[k - 1].at \div 2,
               steps |-> f[k - 1].steps \o ProofStep(layer[k - 1], f[k - 1].at, profile)]]

LEMMA PathsExist ==
  ASSUME NEW layer, NEW profile, NEW index, NEW count \in Nat
  PROVE  \E f : PathTo(count, f, layer, profile, index)
<1> DEFINE start == [at |-> index, steps |-> <<>>]
           After(before, k) == [at |-> before.at \div 2,
                                steps |-> before.steps \o ProofStep(layer[k - 1], before.at, profile)]
           S == {n \in Nat : \E f : PathTo(n, f, layer, profile, index)}
<1>1. \A n, f : PathTo(n, f, layer, profile, index) <=>
                  f = [k \in 0 .. n |-> IF k = 0 THEN start ELSE After(f[k - 1], k)]
  BY DEF PathTo
<1> HIDE DEF start, After
<1>2. 0 \in S
  <2> DEFINE f == [k \in 0 .. 0 |-> start]
  <2>1. f = [k \in 0 .. 0 |-> IF k = 0 THEN start ELSE After(f[k - 1], k)]
    OBVIOUS
  <2> HIDE DEF f
  <2> QED
    BY <1>1, <2>1
<1>3. ASSUME NEW n \in Nat, n \in S
      PROVE  n + 1 \in S
  <2>1. PICK f : PathTo(n, f, layer, profile, index)
    BY <1>3
  <2> DEFINE g == [k \in 0 .. n + 1 |-> IF k = n + 1 THEN After(f[n], n + 1) ELSE f[k]]
  <2>2. \A k \in 0 .. n : f[k] = IF k = 0 THEN start ELSE After(f[k - 1], k)
    BY <1>1, <2>1
  <2>3. \A k \in 0 .. n + 1 : g[k] = IF k = 0 THEN start ELSE After(g[k - 1], k)
    <3>1. ASSUME NEW k \in 0 .. n
          PROVE  g[k] = IF k = 0 THEN start ELSE After(g[k - 1], k)
      <4>1. g[k] = f[k] /\ (k # 0 => g[k - 1] = f[k - 1])
        OBVIOUS
      <4> HIDE DEF g
      <4> QED
        BY <2>2, <4>1
    <3>2. g[n + 1] = After(g[n], n + 1)
      OBVIOUS
    <3> HIDE DEF g
    <3> QED
      BY <3>1, <3>2
  <2>4. g = [k \in 0 .. n + 1 |-> g[k]]
    OBVIOUS
  <2> HIDE DEF g
  <2>5. g = [k \in 0 .. n + 1 |-> IF k = 0 THEN start ELSE After(g[k - 1], k)]
    BY <2>3, <2>4
  <2>6. PathTo(n + 1, g, layer, profile, index)
    BY <1>1, <2>5
  <2> QED
    BY <2>6
<1> HIDE DEF S
<1>4. Nat \subseteq S
  BY <1>2, <1>3, Inductive
<1> QED
  BY <1>4 DEF S

\* One layer of a path: a digest that is at its place in the layer, and no other, is led to
\* its place in the next.
LedUp(layer, next, steps, at, y) ==
  /\ at \div 2 \in 0 .. Len(next) - 1
  /\ \/ steps = <<>> /\ (y = layer[at + 1] <=> y = next[at \div 2 + 1])
     \/ \E step \in [position : {"left", "right"}, hash : {layer[m] : m \in 1 .. Len(layer)}] :
          /\ steps = <<step>>
          /\ y = layer[at + 1] <=> Combined(step, y) = next[at \div 2 + 1]
          /\ Lower(Combined(step, y))

LEMMA OneStepUp ==
  ASSUME NEW layer, NEW profile, AreDigests(layer), Len(layer) > 1,
         NEW at \in 0 .. Len(layer) - 1, NEW y, Lower(y)
  PROVE  LedUp(layer, NextLayer(layer, profile), ProofStep(layer, at, profile), at, y)
<1> DEFINE next == NextLayer(layer, profile)
           steps == ProofStep(layer, at, profile)
           Steps == [position : {"left", "right"}, hash : {layer[m] : m \in 1 .. Len(layer)}]
           n == at \div 2 + 1
<1>1. Len(layer) \in Nat /\ at \in Nat /\ n \in Nat
  BY DEF AreDigests, IsList
<1>2. Len(next) = (Len(layer) + 1) \div 2 /\ \A m \in 1 .. Len(next) : next[m] = Above(layer, profile, m)
  BY NextLayerFacts
<1>3. n \in 1 .. Len(next)
  <2> HIDE DEF next
  <2> QED
    BY <1>1, <1>2
<1>4. next[n] = Above(layer, profile, n)
  BY <1>2, <1>3
<1>5. \A m \in 1 .. Len(layer) : Lower(layer[m])
  BY DEF AreDigests
<1>6. \A a, b : Lower(a) /\ Lower(b) => hashNodes(a, b) = <<"node", a, b>>
  BY DEF hashNodes, Lower
<1>7. \A step \in Steps : Lower(Combined(step, y))
  BY NodesAreLower DEF Combined
<1> HIDE DEF next
<1>8. CASE at % 2 = 1
  <2> DEFINE step == [position |-> "left", hash |-> layer[at]]
  <2>1. at = 2 * n - 1 /\ at \in 1 .. Len(layer) /\ at + 1 \in 1 .. Len(layer) /\ at + 1 = 2 * n
    BY <1>1, <1>8
  <2>2. steps = <<step>>
    <3>1. (at - 1) + 1 = at /\ at - 1 < Len(layer)
      BY <1>1, <1>8
    <3> QED
      BY <1>8, <3>1 DEF ProofStep
  <2>3. step \in Steps
    BY <2>1
  <2>4. Combined(step, y) = <<"node", layer[at], y>>
    BY <1>5, <1>6, <2>1 DEF Combined
  <2>5. next[n] = <<"node", layer[at], layer[at + 1]>>
    <3>1. 2 * n - 1 = at /\ 2 * n = at + 1 /\ 2 * n <= Len(layer)
      BY <1>1, <1>8, <2>1
    <3>2. next[n] = hashNodes(layer[at], layer[at + 1])
      <4> HIDE DEF n
      <4> QED
        BY <1>4, <3>1 DEF Above
    <3> QED
      BY <1>5, <1>6, <2>1, <3>2
  <2> HIDE DEF step, steps, n
  <2>6. y = layer[at + 1] <=> Combined(step, y) = next[n]
    BY <2>4, <2>5
  <2> QED
    BY <1>3, <1>7, <2>2, <2>3, <2>6, <1>1 DEF next, n, steps, LedUp
<1>9. CASE at % 2 = 0 /\ at + 1 < Len(layer)
  <2> DEFINE step == [position |-> "right", hash |-> layer[at + 2]]
  <2>1. at + 1 = 2 * n - 1 /\ at + 1 \in 1 .. Len(layer) /\ at + 2 \in 1 .. Len(layer) /\ at + 2 = 2 * n
    BY <1>1, <1>9
  <2>2. steps = <<step>>
    <3>1. (at + 1) + 1 = at + 2 /\ at % 2 # 1
      BY <1>1, <1>9
    <3> QED
      BY <1>9, <3>1 DEF ProofStep
  <2>3. step \in Steps
    BY <2>1
  <2>4. Combined(step, y) = <<"node", y, layer[at + 2]>>
    BY <1>5, <1>6, <2>1 DEF Combined
  <2>5. next[n] = <<"node", layer[at + 1], layer[at + 2]>>
    BY <1>4, <1>5, <1>6, <2>1 DEF Above
  <2> HIDE DEF step, steps, n
  <2>6. y = layer[at + 1] <=> Combined(step, y) = next[n]
    BY <2>4, <2>5
  <2> QED
    BY <1>3, <1>7, <2>2, <2>3, <2>6, <1>1 DEF next, n, steps, LedUp
<1>10. CASE at % 2 = 0 /\ at + 1 >= Len(layer)
  <2>1. at + 1 = 2 * n - 1 /\ at + 1 \in 1 .. Len(layer) /\ 2 * n > Len(layer)
    BY <1>1, <1>10
  <2>2. next[n] = Unpaired(layer[at + 1], profile)
    <3>1. ~(2 * n <= Len(layer))
      BY <1>1, <2>1
    <3> QED
      BY <1>4, <2>1, <3>1 DEF Above
  <2>3. ~(at + 1 < Len(layer)) /\ at % 2 # 1
    BY <1>1, <1>10
  <2>4. CASE profile = "legacy-duplicated"
    <3> DEFINE step == [position |-> "right", hash |-> layer[at + 1]]
    <3>1. steps = <<step>>
      BY <1>10, <2>3, <2>4 DEF ProofStep
    <3>2. step \in Steps
      BY <2>1
    <3>3. Combined(step, y) = <<"node", y, layer[at + 1]>>
      BY <1>5, <1>6, <2>1 DEF Combined
    <3>4. next[n] = <<"node", layer[at + 1], layer[at + 1]>>
      BY <1>5, <1>6, <2>1, <2>2, <2>4 DEF Unpaired
    <3> HIDE DEF step, steps, n
    <3>5. y = layer[at + 1] <=> Combined(step, y) = next[n]
      BY <3>3, <3>4
    <3> QED
      BY <1>3, <1>7, <3>1, <3>2, <3>5, <1>1 DEF next, n, steps, LedUp
  <2>5. CASE profile # "legacy-duplicated"
    <3>1. steps = <<>> /\ next[n] = layer[at + 1]
      BY <1>10, <2>2, <2>3, <2>5 DEF ProofStep, Unpaired
    <3> HIDE DEF steps, n
    <3> QED
      BY <1>1, <1>3, <3>1 DEF next, n, steps, LedUp
  <2> QED
    BY <2>4, <2>5
<1> QED
  BY <1>1, <1>8, <1>9, <1>10

\* The path that getProof() gives for a leaf leads that leaf, and no other digest, to the
\* root, in trees of any size and in both profiles (merkle.ts 100-142).
THEOREM ProofsAreExact ==
  ASSUME NEW leaves, NEW profile, AreDigests(leaves), NEW i \in 1 .. Len(leaves),
         NEW x, Lower(toLowerCase(x))
  PROVE  verifyProof(x, getProof(leaves, profile, i - 1), getRoot(leaves, profile))
           <=> toLowerCase(x) = leaves[i]
<1> DEFINE n == Len(leaves)
           layer == buildLayers(leaves, profile)
           path == CHOOSE f : PathTo(n, f, layer, profile, i - 1)
           Steps == [position : {"left", "right"},
                     hash : UNION {{layer[k][m] : m \in 1 .. Len(layer[k])} : k \in 0 .. n}]
           Leads(k) == /\ path[k].at \in 0 .. Len(layer[k]) - 1
                       /\ path[k].steps \in Seq(Steps)
                       /\ \E y : /\ Climbs(x, path[k].steps, y) /\ Lower(y)
                                 /\ y = layer[k][path[k].at + 1] <=> toLowerCase(x) = leaves[i]
           S == {k \in Nat : k <= n => Leads(k)}
<1>1. n \in Nat /\ n > 0 /\ i - 1 \in 0 .. n - 1
  BY DEF AreDigests, IsList
<1>2. layer[0] = leaves /\ \A k \in 1 .. n : layer[k] = NextLayer(layer[k - 1], profile)
  BY <1>1, LayersFacts
<1>3. \A k \in 0 .. n : /\ AreDigests(layer[k]) /\ Len(layer[k]) > 0
                        /\ Len(layer[k]) = 1 \/ Len(layer[k]) <= n - k
  BY <1>1, LayerShapes
<1>4. PathTo(n, path, layer, profile, i - 1)
  BY <1>1, PathsExist
<1>5. getProof(leaves, profile, i - 1) = path[n].steps
  BY DEF getProof, PathTo
<1>6. leaves # <<>>
  BY <1>1
<1>7. getRoot(leaves, profile) = layer[n][1]
  BY <1>6 DEF getRoot
<1> HIDE DEF layer, path, n
<1> DEFINE start == [at |-> i - 1, steps |-> <<>>]
           After(before, k) == [at |-> before.at \div 2,
                                steps |-> before.steps \o ProofStep(layer[k], before.at, profile)]
<1>8. path[0] = start /\ \A k \in Nat : k + 1 <= n => path[k + 1] = After(path[k], k)
  <2>1. path = [k \in 0 .. n |-> IF k = 0 THEN start ELSE After(path[k - 1], k - 1)]
    BY <1>4 DEF PathTo
  <2> HIDE DEF start, After
  <2>2. \A k \in 0 .. n : path[k] = IF k = 0 THEN start ELSE After(path[k - 1], k - 1)
    BY <2>1
  <2>3. ASSUME NEW k \in Nat, k + 1 <= n
        PROVE  path[k + 1] = After(path[k], k)
    <3>1. k + 1 \in 0 .. n /\ k + 1 # 0 /\ (k + 1) - 1 = k
      BY <1>1, <2>3
    <3> QED
      BY <2>2, <3>1
  <2> QED
    BY <1>1, <2>2, <2>3
<1>9. 0 \in S
  <2>1. path[0].at = i - 1 /\ path[0].steps = <<>> /\ path[0].at + 1 = i
    BY <1>1, <1>8
  <2>2. Climbs(x, path[0].steps, toLowerCase(x)) /\ Lower(toLowerCase(x))
    BY <2>1, ClimbNothing
  <2>3. toLowerCase(x) = layer[0][path[0].at + 1] <=> toLowerCase(x) = leaves[i]
    BY <1>2, <2>1
  <2>4. path[0].at \in 0 .. Len(layer[0]) - 1
    BY <1>1, <1>2, <2>1 DEF n
  <2>5. path[0].steps \in Seq(Steps)
    BY <2>1
  <2> QED
    BY <2>2, <2>3, <2>4, <2>5
<1>10. ASSUME NEW k \in Nat, k \in S
       PROVE  k + 1 \in S
  <2> SUFFICES ASSUME k + 1 <= n
               PROVE  Leads(k + 1)
    OBVIOUS
  <2> DEFINE at == path[k].at
             steps == path[k].steps
             added == ProofStep(layer[k], at, profile)
  <2>1. k \in 0 .. n /\ k + 1 \in 1 .. n /\ (k + 1) - 1 = k
    BY <1>1
  <2>2. layer[k + 1] = NextLayer(layer[k], profile)
    BY <1>2, <2>1
  <2>3. path[k + 1].at = at \div 2 /\ path[k + 1].steps = steps \o added
    <3>1. path[k + 1] = After(path[k], k)
      <4> HIDE DEF After
      <4> QED
        BY <1>8
    <3> DEFINE half == at \div 2
               more == steps \o added
    <3>2. path[k + 1] = [at |-> half, steps |-> more]
      BY <3>1, Zenon
    <3> HIDE DEF half, more
    <3>3. path[k + 1].at = half /\ path[k + 1].steps = more
      BY <3>2
    <3> QED
      BY <3>3 DEF half, more
  <2>4. Leads(k)
    BY <1>10, <2>1
  <2>5. PICK y : /\ Climbs(x, steps, y) /\ Lower(y)
                 /\ y = layer[k][at + 1] <=> toLowerCase(x) = leaves[i]
    BY <2>4
  <2>6. at \in 0 .. Len(layer[k]) - 1 /\ steps \in Seq(Steps) /\ AreDigests(layer[k]) /\ Len(layer[k]) > 0
    BY <1>3, <2>1, <2>4
  <2>7. Len(layer[k]) \in Nat
    BY <2>6 DEF AreDigests, IsList
  <2>8. CASE Len(layer[k]) <= 1
    <3>1. layer[k + 1] = layer[k] /\ added = <<>> /\ at = 0 /\ at \div 2 = 0
      BY <2>2, <2>6, <2>7, <2>8 DEF NextLayer, ProofStep
    <3>2. steps \o added = steps
      BY <2>6, <3>1
    <3> QED
      BY <2>3, <2>5, <2>6, <3>1, <3>2
  <2>9. CASE Len(layer[k]) > 1
    <3>1. LedUp(layer[k], layer[k + 1], added, at, y)
      <4> HIDE DEF at
      <4> QED
        BY <2>2, <2>5, <2>6, <2>9, OneStepUp
    <3> HIDE DEF at, steps, added
    <3>2. CASE added = <<>> /\ (y = layer[k][at + 1] <=> y = layer[k + 1][at \div 2 + 1])
      <4>1. steps \o added = steps
        BY <2>6, <3>2
      <4> QED
        BY <2>3, <2>5, <2>6, <3>1, <3>2, <4>1 DEF LedUp
    <3>3. ASSUME NEW step \in [position : {"left", "right"}, hash : {layer[k][m] : m \in 1 .. Len(layer[k])}],
                 added = <<step>>,
                 y = layer[k][at + 1] <=> Combined(step, y) = layer[k + 1][at \div 2 + 1],
                 Lower(Combined(step, y))
          PROVE  Leads(k + 1)
      <4>1. step \in Steps
        BY <2>1
      <4> HIDE DEF Steps
      <4>2. Climbs(x, steps \o added, Combined(step, y))
        BY <2>5, <2>6, <3>3, <4>1, ClimbOneMore
      <4>3. steps \o added \in Seq(Steps)
        BY <2>6, <3>3, <4>1
      <4> QED
        BY <2>3, <2>5, <3>1, <3>3, <4>2, <4>3 DEF LedUp
    <3> QED
      BY <3>1, <3>2, <3>3 DEF LedUp
  <2> QED
    BY <2>7, <2>8, <2>9
<1> HIDE DEF S
<1>11. Nat \subseteq S
  BY <1>9, <1>10, Inductive
<1>12. Leads(n)
  <2> HIDE DEF Leads
  <2> QED
    BY <1>1, <1>11 DEF S
<1>13. Len(layer[n]) = 1 /\ AreDigests(layer[n]) /\ path[n].at = 0
  <2>1. AreDigests(layer[n]) /\ (Len(layer[n]) = 1 \/ Len(layer[n]) <= n - n) /\ Len(layer[n]) > 0
    BY <1>1, <1>3
  <2>2. Len(layer[n]) \in Nat
    BY <2>1 DEF AreDigests, IsList
  <2> DEFINE q == Len(layer[n])
  <2>3. q = 1
    <3> HIDE DEF q
    <3>1. q \in Nat /\ (q = 1 \/ q <= n - n) /\ q > 0
      BY <2>1, <2>2 DEF q
    <3> QED
      BY <1>1, <3>1
  <2> QED
    BY <1>12, <2>1, <2>3
<1>14. PICK y : /\ Climbs(x, path[n].steps, y) /\ Lower(y)
                /\ y = layer[n][1] <=> toLowerCase(x) = leaves[i]
  BY <1>12, <1>13
<1>15. Lower(layer[n][1])
  BY <1>13 DEF AreDigests
<1>16. Len(path[n].steps) \in Nat /\ \A m \in DOMAIN path[n].steps : path[n].steps[m].position \in {"left", "right"}
  <2>1. path[n].steps \in Seq(Steps)
    BY <1>12
  <2>2. \A step \in Steps : step.position \in {"left", "right"}
    OBVIOUS
  <2> HIDE DEF Steps
  <2> QED
    BY <2>1, <2>2
<1> QED
  BY <1>5, <1>7, <1>14, <1>15, <1>16, VerifiedByClimbing DEF Lower
-----------------------------------------------------------------------------
(***************************************************************************)
(* What a root says about the leaves.                                      *)
(***************************************************************************)
IsNode(x) == \E a, b : Lower(a) /\ Lower(b) /\ x = hashNodes(a, b)

AreLeaves(leaves) ==
  AreDigests(leaves) /\ Len(leaves) > 0 /\ \A m \in 1 .. Len(leaves) : ~IsNode(leaves[m])

LEMMA NodesAreTheirChildren ==
  ASSUME NEW a, NEW b, NEW c, NEW d, Lower(a), Lower(b), Lower(c), Lower(d),
         hashNodes(a, b) = hashNodes(c, d)
  PROVE  a = c /\ b = d
BY DEF hashNodes, Lower

InTree(x, leaves, profile) ==
  \E k \in 0 .. Len(leaves) : \E m \in 1 .. Len(buildLayers(leaves, profile)[k]) :
    buildLayers(leaves, profile)[k][m] = x

IsLeaf(x, leaves) == \E m \in 1 .. Len(leaves) : leaves[m] = x

Parent(x, a, b) == Lower(a) /\ Lower(b) /\ x = hashNodes(a, b)

\* A node of a tree is a leaf, or its children are nodes of the tree.
Rooted(x, leaves, profile) ==
  \/ IsLeaf(x, leaves)
  \/ \E a, b : Parent(x, a, b) /\ InTree(a, leaves, profile) /\ InTree(b, leaves, profile)

LEMMA NodesOfTrees ==
  ASSUME NEW leaves, NEW profile, AreLeaves(leaves)
  PROVE  \A x : InTree(x, leaves, profile) => Rooted(x, leaves, profile)
<1> DEFINE n == Len(leaves)
           layer == buildLayers(leaves, profile)
           Known(x) == InTree(x, leaves, profile) /\ Rooted(x, leaves, profile)
           S == {k \in Nat : k <= n => \A m \in 1 .. Len(layer[k]) : Known(layer[k][m])}
<1>1. n \in Nat /\ n > 0
  BY DEF AreLeaves, AreDigests, IsList
<1>2. layer[0] = leaves /\ \A k \in 1 .. n : layer[k] = NextLayer(layer[k - 1], profile)
  BY <1>1, LayersFacts
<1>3. \A k \in 0 .. n : AreDigests(layer[k]) /\ Len(layer[k]) > 0
  BY LayerShapes DEF AreLeaves
<1>4. \A k \in 0 .. n : \A m \in 1 .. Len(layer[k]) : InTree(layer[k][m], leaves, profile)
  BY DEF InTree
<1> HIDE DEF layer
<1>5. 0 \in S
  <2>1. 0 \in 0 .. n
    BY <1>1
  <2>2. \A m \in 1 .. Len(leaves) : Known(leaves[m])
    BY <1>2, <1>4, <2>1 DEF Rooted, IsLeaf
  <2> HIDE DEF Known
  <2> QED
    BY <1>2, <2>2
<1>6. ASSUME NEW k \in Nat, k \in S
      PROVE  k + 1 \in S
  <2> SUFFICES ASSUME k + 1 <= n, NEW m \in 1 .. Len(layer[k + 1])
               PROVE  Known(layer[k + 1][m])
    OBVIOUS
  <2> DEFINE l == layer[k]
  <2>1. k \in 0 .. n /\ k + 1 \in 1 .. n /\ k + 1 \in 0 .. n /\ (k + 1) - 1 = k /\ k <= n
    BY <1>1
  <2>2. layer[k + 1] = NextLayer(l, profile)
    BY <1>2, <2>1
  <2>3. AreDigests(l) /\ Len(l) > 0
    BY <1>3, <2>1
  <2>4. \A p \in 1 .. Len(l) : Known(l[p])
    <3> HIDE DEF Known
    <3> QED
      BY <1>6, <2>1
  <2>5. Len(l) \in Nat /\ \A p \in 1 .. Len(l) : Lower(l[p])
    BY <2>3 DEF AreDigests, IsList
  <2>6. InTree(layer[k + 1][m], leaves, profile)
    BY <1>4, <2>1
  <2> HIDE DEF l
  <2>7. CASE Len(l) <= 1
    <3>1. layer[k + 1] = l
      BY <2>2, <2>7 DEF NextLayer
    <3> HIDE DEF Known
    <3> QED
      BY <2>4, <3>1
  <2>8. CASE Len(l) > 1
    <3>1. /\ Len(layer[k + 1]) = (Len(l) + 1) \div 2
          /\ layer[k + 1][m] = Above(l, profile, m)
      BY <2>2, <2>3, <2>8, NextLayerFacts
    <3>2. 2 * m - 1 \in 1 .. Len(l) /\ (2 * m <= Len(l) => 2 * m \in 1 .. Len(l))
      BY <2>5, <3>1
    <3>3. CASE 2 * m <= Len(l)
      <4> DEFINE a == l[2 * m - 1]
                 b == l[2 * m]
      <4>1. layer[k + 1][m] = hashNodes(a, b)
        BY <3>1, <3>3 DEF Above
      <4>2. Lower(a) /\ Lower(b) /\ InTree(a, leaves, profile) /\ InTree(b, leaves, profile)
        BY <2>4, <2>5, <3>2, <3>3
      <4> HIDE DEF a, b
      <4> QED
        BY <2>6, <4>1, <4>2 DEF Rooted, Parent
    <3>4. CASE ~(2 * m <= Len(l))
      <4> DEFINE a == l[2 * m - 1]
      <4>1. layer[k + 1][m] = Unpaired(a, profile)
        BY <3>1, <3>4 DEF Above
      <4>2. Lower(a) /\ Known(a)
        BY <2>4, <2>5, <3>2
      <4> HIDE DEF a
      <4>3. CASE profile = "legacy-duplicated"
        BY <2>6, <4>1, <4>2, <4>3 DEF Unpaired, Rooted, Parent
      <4>4. CASE profile # "legacy-duplicated"
        BY <4>1, <4>2, <4>4 DEF Unpaired
      <4> QED
        BY <4>3, <4>4
    <3> QED
      BY <3>3, <3>4
  <2> QED
    BY <2>5, <2>7, <2>8
<1> HIDE DEF S
<1>7. Nat \subseteq S
  BY <1>5, <1>6, Inductive
<1>8. \A k \in 0 .. n : \A m \in 1 .. Len(layer[k]) : Rooted(layer[k][m], leaves, profile)
  <2> SUFFICES ASSUME NEW k \in 0 .. n
               PROVE  \A m \in 1 .. Len(layer[k]) : Rooted(layer[k][m], leaves, profile)
    OBVIOUS
  <2>1. k \in S /\ k <= n
    BY <1>1, <1>7
  <2> QED
    BY <2>1 DEF S
<1> QED
  BY <1>8 DEF InTree, layer

\* Two trees with the same root have the same leaves, up to their order and number, in
\* either profile.
THEOREM RootsAreOfTheirLeaves ==
  ASSUME NEW leaves, NEW others, NEW profile, NEW otherProfile, AreLeaves(leaves), AreLeaves(others),
         getRoot(leaves, profile) = getRoot(others, otherProfile)
  PROVE  \A m \in 1 .. Len(leaves) : \E k \in 1 .. Len(others) : leaves[m] = others[k]
<1> DEFINE n == Len(leaves)
           q == Len(others)
           layer == buildLayers(leaves, profile)
           other == buildLayers(others, otherProfile)
           Occurs(x) == InTree(x, others, otherProfile)
           Listed(y) == IsLeaf(y, others)
           Leads(x, y) == Occurs(x) => Listed(y)
           S(i) == {k \in Nat : k <= n => \E m \in 1 .. Len(layer[k]) : Leads(layer[k][m], leaves[i])}
<1>1. n \in Nat /\ n > 0 /\ q \in Nat /\ q > 0
  BY DEF AreLeaves, AreDigests, IsList
<1>2. layer[0] = leaves /\ \A k \in 1 .. n : layer[k] = NextLayer(layer[k - 1], profile)
  BY <1>1, LayersFacts
<1>3. \A k \in 0 .. n : /\ AreDigests(layer[k]) /\ Len(layer[k]) > 0
                        /\ Len(layer[k]) = 1 \/ Len(layer[k]) <= n - k
  BY LayerShapes DEF AreLeaves
<1>4. \A k \in 0 .. q : /\ AreDigests(other[k]) /\ Len(other[k]) > 0
                        /\ Len(other[k]) = 1 \/ Len(other[k]) <= q - k
  BY LayerShapes DEF AreLeaves
<1>5. \A x : Occurs(x) => Listed(x) \/ \E a, b : Parent(x, a, b) /\ Occurs(a) /\ Occurs(b)
  BY NodesOfTrees DEF Rooted
<1>6. layer[n][1] = other[q][1]
  <2>1. leaves # <<>> /\ others # <<>>
    BY <1>1
  <2> QED
    BY <2>1 DEF getRoot
<1>7. ASSUME NEW i \in 1 .. n
      PROVE  n \in S(i)
  <2>1. 0 \in S(i)
    <3>1. Leads(leaves[i], leaves[i])
      <4>1. ~IsNode(leaves[i])
        BY DEF AreLeaves
      <4> HIDE DEF Occurs, Listed
      <4> QED
        BY <1>5, <4>1 DEF IsNode, Parent
    <3> HIDE DEF Leads, layer
    <3> QED
      BY <1>2, <3>1
  <2>2. ASSUME NEW k \in Nat, k \in S(i)
        PROVE  k + 1 \in S(i)
    <3> SUFFICES ASSUME k + 1 <= n
                 PROVE  \E m \in 1 .. Len(layer[k + 1]) : Leads(layer[k + 1][m], leaves[i])
      OBVIOUS
    <3> DEFINE l == layer[k]
               next == layer[k + 1]
    <3>1. PICK m \in 1 .. Len(l) : Leads(l[m], leaves[i])
      <4> HIDE DEF Leads, layer
      <4> QED
        BY <1>1, <2>2
    <3>2. next = NextLayer(l, profile) /\ AreDigests(l)
      <4>1. k + 1 \in 1 .. n /\ (k + 1) - 1 = k /\ k \in 0 .. n
        BY <1>1
      <4> QED
        BY <1>2, <1>3, <4>1
    <3>3. Len(l) \in Nat /\ \A p \in 1 .. Len(l) : Lower(l[p])
      BY <3>2 DEF AreDigests, IsList
    <3> HIDE DEF l, next, Leads
    <3>4. CASE Len(l) <= 1
      <4>1. next = l
        BY <3>2, <3>4 DEF NextLayer
      <4> QED
        BY <3>1, <4>1 DEF next
    <3>5. CASE Len(l) > 1
      <4> DEFINE p == (m + 1) \div 2
      <4>1. Len(next) = (Len(l) + 1) \div 2 /\ \A r \in 1 .. Len(next) : next[r] = Above(l, profile, r)
        BY <3>2, <3>5, NextLayerFacts
      <4>2. /\ p \in 1 .. Len(next) /\ 2 * p - 1 \in 1 .. Len(l) /\ (2 * p <= Len(l) => 2 * p \in 1 .. Len(l))
            /\ m = 2 * p - 1 \/ (m = 2 * p /\ 2 * p <= Len(l))
        BY <3>3, <4>1
      <4> HIDE DEF p
      <4>3. next[p] = Above(l, profile, p)
        BY <4>1, <4>2
      <4>4. \/ next[p] = l[m]
            \/ \E a, b : Lower(a) /\ Lower(b) /\ next[p] = hashNodes(a, b) /\ l[m] \in {a, b}
        <5>1. CASE 2 * p <= Len(l)
          BY <3>3, <4>2, <4>3, <5>1 DEF Above
        <5>2. CASE ~(2 * p <= Len(l))
          BY <3>3, <4>2, <4>3, <5>2 DEF Above, Unpaired
        <5> QED
          BY <5>1, <5>2
      <4>5. Leads(next[p], leaves[i])
        <5>1. SUFFICES ASSUME Occurs(next[p]), next[p] # l[m]
                       PROVE  Listed(leaves[i])
          BY <3>1 DEF Leads
        <5>2. PICK a, b : Lower(a) /\ Lower(b) /\ next[p] = hashNodes(a, b) /\ l[m] \in {a, b}
          BY <4>4, <5>1
        <5>3. ~Listed(next[p])
          BY <5>2 DEF AreLeaves, IsNode, IsLeaf
        <5> HIDE DEF Occurs, Listed
        <5>4. PICK c, d : Lower(c) /\ Lower(d) /\ next[p] = hashNodes(c, d) /\ Occurs(c) /\ Occurs(d)
          BY <1>5, <5>1, <5>3 DEF Parent
        <5>5. a = c /\ b = d
          BY <5>2, <5>4, NodesAreTheirChildren
        <5> QED
          BY <3>1, <5>2, <5>4, <5>5 DEF Leads
      <4> QED
        BY <4>2, <4>5 DEF next
    <3> QED
      BY <3>3, <3>4, <3>5
  <2> HIDE DEF S
  <2>3. Nat \subseteq S(i)
    BY <2>1, <2>2, Inductive
  <2> QED
    BY <1>1, <2>3
<1>8. ASSUME NEW i \in 1 .. n
      PROVE  Listed(leaves[i])
  <2>1. PICK m \in 1 .. Len(layer[n]) : Leads(layer[n][m], leaves[i])
    <3> HIDE DEF Leads, layer
    <3> QED
      BY <1>1, <1>7
  <2>2. m = 1
    <3>1. AreDigests(layer[n]) /\ (Len(layer[n]) = 1 \/ Len(layer[n]) <= n - n) /\ Len(layer[n]) > 0
      BY <1>1, <1>3
    <3> DEFINE size == Len(layer[n])
    <3>2. size \in Nat /\ size > 0 /\ (size = 1 \/ size <= n - n) /\ m \in 1 .. size
      BY <3>1 DEF AreDigests, IsList
    <3> HIDE DEF size, n
    <3> QED
      BY <1>1, <3>2
  <2>3. Occurs(other[q][1])
    <3>1. AreDigests(other[q]) /\ Len(other[q]) > 0
      BY <1>1, <1>4
    <3>2. 1 \in 1 .. Len(other[q]) /\ q \in 0 .. q
      BY <1>1, <3>1 DEF AreDigests, IsList
    <3> QED
      BY <3>2 DEF InTree
  <2> HIDE DEF Occurs, Listed, layer, other
  <2> QED
    BY <1>6, <2>1, <2>2, <2>3
<1> QED
  BY <1>8 DEF IsLeaf
-----------------------------------------------------------------------------
(***************************************************************************)
(* The tree head of RFC 6962.                                              *)
(***************************************************************************)
PowersTo(n, f) == f = [d \in 0 .. n |-> IF d = 0 THEN 1 ELSE 2 * f[d - 1]]

LEMMA PowersExist ==
  ASSUME NEW count \in Nat
  PROVE  \E f : PowersTo(count, f)
<1> DEFINE S == {n \in Nat : \E f : PowersTo(n, f)}
<1>1. 0 \in S
  <2> DEFINE f == [d \in 0 .. 0 |-> 1]
  <2>1. PowersTo(0, f)
    BY DEF PowersTo
  <2> QED
    BY <2>1
<1>2. ASSUME NEW n \in Nat, n \in S
      PROVE  n + 1 \in S
  <2>1. PICK f : PowersTo(n, f)
    BY <1>2
  <2> DEFINE g == [d \in 0 .. n + 1 |-> IF d = n + 1 THEN 2 * f[n] ELSE f[d]]
  <2>2. \A d \in 0 .. n : f[d] = IF d = 0 THEN 1 ELSE 2 * f[d - 1]
    BY <2>1 DEF PowersTo
  <2>3. \A d \in 0 .. n + 1 : g[d] = IF d = 0 THEN 1 ELSE 2 * g[d - 1]
    <3>1. ASSUME NEW d \in 0 .. n
          PROVE  g[d] = IF d = 0 THEN 1 ELSE 2 * g[d - 1]
      <4>1. g[d] = f[d] /\ (d # 0 => g[d - 1] = f[d - 1])
        OBVIOUS
      <4> HIDE DEF g
      <4> QED
        BY <2>2, <4>1
    <3>2. g[n + 1] = 2 * g[n]
      OBVIOUS
    <3> HIDE DEF g
    <3> QED
      BY <3>1, <3>2
  <2>4. g = [d \in 0 .. n + 1 |-> g[d]]
    OBVIOUS
  <2> HIDE DEF g
  <2>5. PowersTo(n + 1, g)
    BY <2>3, <2>4 DEF PowersTo
  <2> QED
    BY <2>5
<1> HIDE DEF S
<1>3. Nat \subseteq S
  BY <1>1, <1>2, Inductive
<1> QED
  BY <1>3 DEF S

\* Powers of two grow, and faster than their exponents.
LEMMA PowersFacts ==
  ASSUME NEW n \in Nat, NEW f, PowersTo(n, f)
  PROVE  /\ f[0] = 1
         /\ \A d \in 0 .. n : f[d] \in Nat /\ f[d] > d
         /\ \A d \in 0 .. n, e \in 0 .. n : d < e => 2 * f[d] <= f[e]
<1>1. f[0] = 1 /\ \A d \in 1 .. n : f[d] = 2 * f[d - 1]
  <2>1. \A d \in 0 .. n : f[d] = IF d = 0 THEN 1 ELSE 2 * f[d - 1]
    BY DEF PowersTo
  <2> QED
    BY <2>1
<1>2. \A d \in 0 .. n : f[d] \in Nat /\ f[d] > d
  <2> DEFINE S == {d \in Nat : d <= n => f[d] \in Nat /\ f[d] > d}
  <2>1. 0 \in S
    BY <1>1
  <2>2. ASSUME NEW d \in Nat, d \in S
        PROVE  d + 1 \in S
    <3> SUFFICES ASSUME d + 1 <= n
                 PROVE  f[d + 1] \in Nat /\ f[d + 1] > d + 1
      OBVIOUS
    <3>1. f[d] \in Nat /\ f[d] > d /\ f[d + 1] = 2 * f[d]
      BY <1>1, <2>2
    <3> QED
      BY <3>1
  <2> HIDE DEF S
  <2>3. Nat \subseteq S
    BY <2>1, <2>2, Inductive
  <2> QED
    BY <2>3 DEF S
<1>3. \A d \in 0 .. n, e \in 0 .. n : d < e => 2 * f[d] <= f[e]
  <2> SUFFICES ASSUME NEW d \in 0 .. n
               PROVE  \A e \in 0 .. n : d < e => 2 * f[d] <= f[e]
    OBVIOUS
  <2> DEFINE S == {e \in Nat : e <= n /\ d < e => 2 * f[d] <= f[e]}
  <2>1. 0 \in S
    OBVIOUS
  <2>2. ASSUME NEW e \in Nat, e \in S
        PROVE  e + 1 \in S
    <3> SUFFICES ASSUME e + 1 <= n, d < e + 1
                 PROVE  2 * f[d] <= f[e + 1]
      OBVIOUS
    <3>1. f[e] \in Nat /\ f[d] \in Nat /\ f[e + 1] = 2 * f[e]
      BY <1>1, <1>2
    <3>2. CASE d = e
      BY <3>1, <3>2
    <3>3. CASE d < e
      <4>1. 2 * f[d] <= f[e]
        BY <2>2, <3>3
      <4> QED
        BY <3>1, <4>1
    <3> QED
      BY <3>2, <3>3
  <2> HIDE DEF S
  <2>3. Nat \subseteq S
    BY <2>1, <2>2, Inductive
  <2> QED
    BY <2>3 DEF S
<1> QED
  BY <1>1, <1>2, <1>3

LEMMA PowersAgree ==
  ASSUME NEW n \in Nat, NEW m \in 0 .. n, NEW f, NEW g, PowersTo(n, f), PowersTo(m, g)
  PROVE  \A d \in 0 .. m : f[d] = g[d]
<1> DEFINE S == {d \in Nat : d <= m => f[d] = g[d]}
<1>1. \A d \in 0 .. n : f[d] = IF d = 0 THEN 1 ELSE 2 * f[d - 1]
  BY DEF PowersTo
<1>2. \A d \in 0 .. m : g[d] = IF d = 0 THEN 1 ELSE 2 * g[d - 1]
  BY DEF PowersTo
<1>3. 0 \in S
  BY <1>1, <1>2
<1>4. ASSUME NEW d \in Nat, d \in S
      PROVE  d + 1 \in S
  <2> SUFFICES ASSUME d + 1 <= m
               PROVE  f[d + 1] = g[d + 1]
    OBVIOUS
  <2>1. f[d] = g[d] /\ d + 1 \in 0 .. n /\ d + 1 \in 0 .. m /\ (d + 1) - 1 = d /\ d + 1 # 0
    BY <1>4
  <2>2. f[d + 1] = 2 * f[d] /\ g[d + 1] = 2 * g[d]
    BY <1>1, <1>2, <2>1
  <2> QED
    BY <2>1, <2>2
<1> HIDE DEF S
<1>5. Nat \subseteq S
  BY <1>3, <1>4, Inductive
<1> QED
  BY <1>5 DEF S

LEMMA PowersOfTwoAre ==
  ASSUME NEW n \in Nat, NEW m \in 0 .. n, NEW f, PowersTo(n, f)
  PROVE  PowersOfTwo(m) = {f[d] : d \in 0 .. m}
<1> DEFINE g == CHOOSE g : PowersTo(m, g)
<1>1. PowersTo(m, g)
  <2>1. m \in Nat
    OBVIOUS
  <2> QED
    BY <2>1, PowersExist
<1>2. PowersOfTwo(m) = {g[d] : d \in 0 .. m}
  BY DEF PowersOfTwo, PowersTo
<1> HIDE DEF g
<1>3. \A d \in 0 .. m : f[d] = g[d]
  BY <1>1, PowersAgree
<1> QED
  BY <1>2, <1>3

LEMMA SplitIs ==
  ASSUME NEW n \in Nat, NEW f, PowersTo(n, f), NEW m \in 0 .. n, NEW d \in 0 .. n,
         f[d] < m, m <= 2 * f[d]
  PROVE  Split(m) = f[d]
<1>1. /\ \A e \in 0 .. n : f[e] \in Nat /\ f[e] > e
      /\ \A c \in 0 .. n, e \in 0 .. n : c < e => 2 * f[c] <= f[e]
  BY PowersFacts
<1>2. PowersOfTwo(m) = {f[e] : e \in 0 .. m}
  BY PowersOfTwoAre
<1>3. d \in 0 .. m /\ f[d] \in 1 .. m - 1
  BY <1>1
<1>4. ASSUME NEW s \in 1 .. m - 1, m <= 2 * s, s \in PowersOfTwo(m)
      PROVE  s = f[d]
  <2>1. PICK e \in 0 .. m : s = f[e]
    BY <1>2, <1>4
  <2>2. e \in 0 .. n
    OBVIOUS
  <2>3. d < e => 2 * f[d] <= f[e]
    BY <1>1, <2>2
  <2>4. e < d => 2 * f[e] <= f[d]
    BY <1>1, <2>2
  <2>5. f[d] \in Nat /\ f[e] \in Nat
    BY <1>1, <2>2
  <2>6. e = d
    BY <1>4, <2>1, <2>2, <2>3, <2>4, <2>5
  <2> QED
    BY <2>1, <2>6
<1>5. m <= 2 * f[d] /\ f[d] \in PowersOfTwo(m)
  BY <1>2, <1>3
<1> QED
  BY <1>3, <1>4, <1>5 DEF Split

LEMMA SplitFacts ==
  ASSUME NEW m \in Nat, m > 1
  PROVE  Split(m) \in 1 .. m - 1
<1>1. PICK f : PowersTo(m, f)
  BY PowersExist
<1>2. /\ f[0] = 1 /\ \A e \in 0 .. m : f[e] \in Nat /\ f[e] > e
      /\ \A c \in 0 .. m, e \in 0 .. m : c < e => 2 * f[c] <= f[e]
  BY <1>1, PowersFacts
<1>3. \E d \in 0 .. m : f[d] < m /\ m <= 2 * f[d]
  <2> SUFFICES ASSUME \A d \in 0 .. m : f[d] < m => 2 * f[d] < m
               PROVE  FALSE
    BY <1>2
  <2> DEFINE S == {d \in Nat : d <= m => f[d] < m}
  <2>1. 0 \in S
    BY <1>2
  <2>2. ASSUME NEW d \in Nat, d \in S
        PROVE  d + 1 \in S
    <3> SUFFICES ASSUME d + 1 <= m
                 PROVE  f[d + 1] < m
      OBVIOUS
    <3>1. f[d] < m /\ d \in 0 .. m /\ d + 1 \in 0 .. m /\ (d + 1) - 1 = d /\ d + 1 # 0
      BY <2>2
    <3>2. 2 * f[d] < m
      BY <3>1
    <3>3. f[d + 1] = 2 * f[d]
      BY <1>1, <3>1 DEF PowersTo
    <3> QED
      BY <3>2, <3>3
  <2> HIDE DEF S
  <2>3. Nat \subseteq S
    BY <2>1, <2>2, Inductive
  <2>4. f[m] < m
    BY <2>3 DEF S
  <2>5. f[m] \in Nat /\ f[m] > m
    BY <1>2
  <2> QED
    BY <2>4, <2>5
<1>4. PICK d \in 0 .. m : f[d] < m /\ m <= 2 * f[d]
  BY <1>3
<1>5. Split(m) = f[d]
  BY <1>1, <1>4, SplitIs
<1> QED
  BY <1>2, <1>4, <1>5

\* Where the leaves of a part of a tree begin (from 0), and how many they are.
Segments(n) == {r \in (0 .. n) \X (1 .. n) : r[1] + r[2] <= n}

HeadOf(f, r, leaves) ==
  IF r[2] = 1 THEN leaves[r[1] + 1]
  ELSE hashNodes(f[<<r[1], Split(r[2])>>], f[<<r[1] + Split(r[2]), r[2] - Split(r[2])>>])

HeadsTo(k, f, leaves) == f = [r \in {r \in Segments(Len(leaves)) : r[2] <= k} |-> HeadOf(f, r, leaves)]

\* A part with more than one leaf is split into two smaller ones.
LEMMA SegmentsOfSegments ==
  ASSUME NEW n \in Nat, NEW r \in Segments(n), r[2] # 1
  PROVE  LET left == <<r[1], Split(r[2])>>
             right == <<r[1] + Split(r[2]), r[2] - Split(r[2])>>
         IN  /\ left \in Segments(n) /\ left[2] < r[2]
             /\ right \in Segments(n) /\ right[2] < r[2]
             /\ left[2] + right[2] = r[2] /\ left[1] + left[2] = right[1]
<1>1. r[1] \in 0 .. n /\ r[2] \in 1 .. n /\ r[1] + r[2] <= n
  BY DEF Segments
<1>2. r[2] \in Nat /\ r[2] > 1
  BY <1>1
<1>3. Split(r[2]) \in 1 .. r[2] - 1
  BY <1>2, SplitFacts
<1> DEFINE s == Split(r[2])
           a == r[1]
           b == r[2]
<1> HIDE DEF s, a, b
<1>4. /\ s \in 1 .. b - 1 /\ a \in 0 .. n /\ b \in 1 .. n /\ a + b <= n
  BY <1>1, <1>3 DEF s, a, b
<1>5. /\ <<a, s>> \in Segments(n) /\ s < b
      /\ <<a + s, b - s>> \in Segments(n) /\ b - s < b
      /\ s + (b - s) = b
  BY <1>4 DEF Segments
<1> QED
  BY <1>5 DEF s, a, b

LEMMA HeadsExist ==
  ASSUME NEW leaves, Len(leaves) \in Nat, NEW count \in Nat
  PROVE  \E f : HeadsTo(count, f, leaves)
<1> DEFINE n == Len(leaves)
           Up(k) == {r \in Segments(n) : r[2] <= k}
           S == {k \in Nat : \E f : HeadsTo(k, f, leaves)}
<1>1. 0 \in S
  <2> DEFINE f == [r \in {} |-> leaves]
  <2>1. Up(0) = {}
    BY DEF Segments
  <2>2. HeadsTo(0, f, leaves)
    BY <2>1 DEF HeadsTo
  <2> QED
    BY <2>2
<1>2. ASSUME NEW k \in Nat, k \in S
      PROVE  k + 1 \in S
  <2>1. PICK f : HeadsTo(k, f, leaves)
    BY <1>2
  <2> DEFINE g == [r \in Up(k + 1) |-> HeadOf(f, r, leaves)]
  <2>2. \A r \in Up(k) : f[r] = HeadOf(f, r, leaves)
    BY <2>1 DEF HeadsTo
  <2>3. \A r \in Up(k) : r \in Up(k + 1) /\ g[r] = f[r]
    <3> SUFFICES ASSUME NEW r \in Up(k)
                 PROVE  r \in Up(k + 1) /\ g[r] = f[r]
      OBVIOUS
    <3>1. r \in Up(k + 1)
      BY DEF Segments
    <3> QED
      BY <2>2, <3>1
  <2>4. \A r \in Up(k + 1) : g[r] = HeadOf(g, r, leaves)
    <3> SUFFICES ASSUME NEW r \in Up(k + 1)
                 PROVE  HeadOf(f, r, leaves) = HeadOf(g, r, leaves)
      OBVIOUS
    <3>1. CASE r[2] = 1
      BY <3>1 DEF HeadOf
    <3>2. CASE r[2] # 1
      <4> DEFINE left == <<r[1], Split(r[2])>>
                 right == <<r[1] + Split(r[2]), r[2] - Split(r[2])>>
      <4>1. /\ left \in Segments(n) /\ left[2] < r[2] /\ right \in Segments(n) /\ right[2] < r[2]
        BY <3>2, SegmentsOfSegments
      <4>2. \A p \in Segments(n) : p[2] < r[2] => p \in Up(k)
        BY DEF Segments
      <4> HIDE DEF Up, g
      <4>3. g[left] = f[left] /\ g[right] = f[right]
        BY <2>3, <4>1, <4>2
      <4> QED
        BY <3>2, <4>3 DEF HeadOf
    <3> QED
      BY <3>1, <3>2
  <2>5. g = [r \in Up(k + 1) |-> g[r]]
    OBVIOUS
  <2> HIDE DEF g
  <2>6. HeadsTo(k + 1, g, leaves)
    BY <2>4, <2>5 DEF HeadsTo
  <2> QED
    BY <2>6
<1> HIDE DEF S
<1>3. Nat \subseteq S
  BY <1>1, <1>2, Inductive
<1> QED
  BY <1>3 DEF S

\* TreeHead() is the value for all leaves of a function on the parts of the tree.
LEMMA HeadsFacts ==
  ASSUME NEW leaves, Len(leaves) \in Nat
  PROVE  \E f : /\ \A r \in Segments(Len(leaves)) : f[r] = HeadOf(f, r, leaves)
                /\ leaves # <<>> => TreeHead(leaves) = f[<<0, Len(leaves)>>]
<1> DEFINE n == Len(leaves)
           Heads(f) == f = [r \in Segments(n) |-> HeadOf(f, r, leaves)]
           g == CHOOSE f : Heads(f)
<1>1. \E f : Heads(f)
  <2>1. PICK f : HeadsTo(n, f, leaves)
    BY HeadsExist
  <2>2. Segments(n) = {r \in Segments(n) : r[2] <= n}
    BY DEF Segments
  <2> QED
    BY <2>1, <2>2 DEF HeadsTo
<1>2. Heads(g)
  BY <1>1
<1>3. leaves # <<>> => TreeHead(leaves) = g[<<0, n>>]
  BY DEF TreeHead, Segments, HeadOf
<1>4. \A r \in Segments(n) : g[r] = HeadOf(g, r, leaves)
  <2> HIDE DEF g
  <2> QED
    BY <1>2
<1> QED
  BY <1>3, <1>4

\* Every node of a layer is the head of `width' leaves, the last one of those that are left.
Aligned(layer, width, n, f) ==
  /\ (Len(layer) - 1) * width < n /\ n <= Len(layer) * width
  /\ \A m \in 1 .. Len(layer) :
       layer[m] = f[<<(m - 1) * width, IF m = Len(layer) THEN n - (m - 1) * width ELSE width>>]

LEMMA NextIsAligned ==
  ASSUME NEW leaves, NEW f, \A r \in Segments(Len(leaves)) : f[r] = HeadOf(f, r, leaves),
         Len(leaves) \in Nat, Len(leaves) > 0,
         NEW layer, AreDigests(layer), Len(layer) > 1,
         NEW width \in Nat, width > 0, Aligned(layer, width, Len(leaves), f),
         \A m \in 0 .. Len(leaves) : width < m /\ m <= 2 * width => Split(m) = width
  PROVE  Aligned(NextLayer(layer, "rfc6962"), 2 * width, Len(leaves), f)
<1> DEFINE n == Len(leaves)
           q == Len(layer)
           next == NextLayer(layer, "rfc6962")
           t == (q + 1) \div 2
<1>1. n \in Nat /\ n > 0 /\ q \in Nat /\ q > 1
  BY DEF AreDigests, IsList
<1>2. Len(next) = t /\ \A m \in 1 .. t : next[m] = Above(layer, "rfc6962", m)
  BY NextLayerFacts
<1>3. /\ (q - 1) * width < n /\ n <= q * width
      /\ \A m \in 1 .. q :
           layer[m] = f[<<(m - 1) * width, IF m = q THEN n - (m - 1) * width ELSE width>>]
  BY DEF Aligned
<1> HIDE DEF n, q, next
<1>4. t \in Nat /\ (q = 2 * t \/ q = 2 * t - 1) /\ t > 0
  BY <1>1
<1> HIDE DEF t
<1>5. (t - 1) * (2 * width) < n /\ n <= t * (2 * width)
  <2>1. CASE q = 2 * t
    <3>1. (2 * t - 1) * width < n /\ n <= (2 * t) * width
      BY <1>3, <2>1
    <3>2. (2 * t - 1) * width = (t - 1) * (2 * width) + width /\ (2 * t) * width = t * (2 * width)
      BY <1>4
    <3>3. (t - 1) * (2 * width) \in Int /\ t * (2 * width) \in Int
      BY <1>4
    <3> QED
      BY <1>1, <3>1, <3>2, <3>3
  <2>2. CASE q = 2 * t - 1
    <3>1. ((2 * t - 1) - 1) * width < n /\ n <= (2 * t - 1) * width
      BY <1>3, <2>2
    <3>2. /\ ((2 * t - 1) - 1) * width = (t - 1) * (2 * width)
          /\ (2 * t - 1) * width = t * (2 * width) - width
      BY <1>4
    <3>3. (t - 1) * (2 * width) \in Int /\ t * (2 * width) \in Int
      BY <1>4
    <3> QED
      BY <1>1, <3>1, <3>2, <3>3
  <2> QED
    BY <1>4, <2>1, <2>2
<1>6. ASSUME NEW m \in 1 .. t
      PROVE  next[m] = f[<<(m - 1) * (2 * width),
                           IF m = t THEN n - (m - 1) * (2 * width) ELSE 2 * width>>]
  <2> DEFINE start == (m - 1) * (2 * width)
             size == IF m = t THEN n - start ELSE 2 * width
  <2>1. start \in Nat /\ m \in Nat
    BY <1>4
  <2>2. (2 * m - 1 - 1) * width = start /\ (2 * m - 1) * width = start + width
    BY <2>1
  <2>3. m < t => start + 2 * width < n
    <3> SUFFICES ASSUME m < t PROVE start + 2 * width < n
      OBVIOUS
    <3>1. start + 2 * width = m * (2 * width) /\ m * (2 * width) \in Int
      BY <2>1
    <3>2. m * (2 * width) <= (t - 1) * (2 * width)
      <4>1. PICK k \in Nat : t - 1 = m + k
        <5>1. (t - 1) - m \in Nat /\ t - 1 = m + ((t - 1) - m)
          BY <1>4
        <5> QED
          BY <5>1
      <4>2. (m + k) * (2 * width) = m * (2 * width) + k * (2 * width) /\ k * (2 * width) \in Nat
        BY <2>1
      <4> QED
        BY <3>1, <4>1, <4>2
    <3> QED
      BY <1>1, <1>4, <1>5, <3>1, <3>2
  <2>4. m = t => start < n /\ n <= start + 2 * width
    <3> SUFFICES ASSUME m = t PROVE start < n /\ n <= start + 2 * width
      OBVIOUS
    <3>1. t * (2 * width) = start + 2 * width
      BY <2>1
    <3> QED
      BY <1>5, <3>1
  <2>5. next[m] = Above(layer, "rfc6962", m)
    BY <1>2
  <2>6. 2 * m - 1 \in 1 .. q /\ (2 * m <= q => 2 * m \in 1 .. q)
    BY <1>1, <1>4
  <2>7. CASE 2 * m <= q
    <3> DEFINE rest == IF 2 * m = q THEN n - (start + width) ELSE width
    <3>1. layer[2 * m - 1] = f[<<start, width>>]
      <4>1. layer[2 * m - 1] = f[<<(2 * m - 1 - 1) * width,
                                   IF 2 * m - 1 = q THEN n - (2 * m - 1 - 1) * width ELSE width>>]
        BY <1>3, <2>6
      <4>2. 2 * m - 1 # q
        BY <1>1, <2>1, <2>7
      <4> QED
        BY <2>2, <4>1, <4>2
    <3>2. layer[2 * m] = f[<<start + width, rest>>]
      <4>1. layer[2 * m] = f[<<(2 * m - 1) * width,
                               IF 2 * m = q THEN n - (2 * m - 1) * width ELSE width>>]
        BY <1>3, <2>6, <2>7
      <4> QED
        BY <2>2, <4>1
    <3>3. next[m] = hashNodes(layer[2 * m - 1], layer[2 * m])
      BY <1>1, <2>5, <2>7 DEF Above, q
    <3>4. size = width + rest /\ start + size <= n /\ width < size /\ size <= 2 * width
      <4>1. CASE 2 * m = q
        <5>1. m = t
          BY <1>4, <2>1, <4>1
        <5>2. start + width < n
          <6>1. (q - 1) * width = (2 * m - 1) * width
            BY <4>1
          <6> QED
            BY <1>3, <2>2, <6>1
        <5> HIDE DEF start
        <5> QED
          BY <1>1, <2>1, <2>4, <4>1, <5>1, <5>2
      <4>2. CASE 2 * m # q
        <5>1. m < t
          BY <1>1, <1>4, <2>1, <2>7, <4>2
        <5> HIDE DEF start
        <5> QED
          BY <1>1, <2>1, <2>3, <4>2, <5>1
      <4> QED
        BY <4>1, <4>2
    <3>5. rest \in Int /\ size \in Int
      <4> HIDE DEF start
      <4> QED
        BY <1>1, <2>1
    <3> HIDE DEF start, size, rest
    <3>6. size \in 1 .. n /\ <<start, size>> \in Segments(n) /\ size # 1
      BY <1>1, <2>1, <3>4, <3>5 DEF Segments
    <3>7. Split(size) = width
      BY <3>4, <3>6 DEF n
    <3>8. f[<<start, size>>] = HeadOf(f, <<start, size>>, leaves)
      BY <3>6 DEF n
    <3>9. size - width = rest
      BY <3>4, <3>5
    <3>10. f[<<start, size>>] = hashNodes(f[<<start, width>>], f[<<start + width, rest>>])
      BY <3>6, <3>7, <3>8, <3>9 DEF HeadOf
    <3> QED
      BY <3>1, <3>2, <3>3, <3>10 DEF start, size
  <2>8. CASE ~(2 * m <= q)
    <3>1. m = t /\ 2 * m - 1 = q
      BY <1>1, <1>4, <2>1, <2>8
    <3>2. next[m] = layer[2 * m - 1]
      BY <2>5, <2>8 DEF Above, Unpaired, q
    <3>3. layer[2 * m - 1] = f[<<(2 * m - 1 - 1) * width, n - (2 * m - 1 - 1) * width>>]
      BY <1>3, <2>6, <3>1
    <3> HIDE DEF start
    <3>4. layer[2 * m - 1] = f[<<start, n - start>>]
      BY <2>2, <3>3
    <3> QED
      BY <3>1, <3>2, <3>4 DEF start
  <2> QED
    BY <2>7, <2>8
<1> QED
  BY <1>2, <1>5, <1>6 DEF Aligned, n, next

LEMMA OnlyTheEmptyListIsEmpty ==
  ASSUME NEW f, IsList(f), Len(f) = 0
  PROVE  f = <<>>
<1>1. f = [m \in 1 .. 0 |-> f[m]]
  BY DEF IsList
<1>2. f \in [1 .. 0 -> {}]
  BY <1>1
<1>3. f \in Seq({})
  BY <1>2
<1> QED
  BY <1>3

\* The root of the current profile is the tree head of RFC 6962: pairing neighbours layer by
\* layer and promoting a last node without one (merkle.ts 66-86) computes what splitting the
\* leaves after the largest power of two does.
THEOREM RootsAreTreeHeads ==
  ASSUME NEW leaves, AreDigests(leaves)
  PROVE  getRoot(leaves, "rfc6962") = TreeHead(leaves)
<1> DEFINE n == Len(leaves)
           layer == buildLayers(leaves, "rfc6962")
<1>1. n \in Nat
  BY DEF AreDigests, IsList
<1>2. CASE n = 0
  <2>1. leaves = <<>>
    BY <1>2, OnlyTheEmptyListIsEmpty DEF AreDigests
  <2> QED
    BY <2>1 DEF getRoot, EmptyRoot, TreeHead
<1>3. CASE n # 0
  <2>1. leaves # <<>> /\ n > 0
    BY <1>1, <1>3
  <2>2. PICK f : /\ \A r \in Segments(n) : f[r] = HeadOf(f, r, leaves)
                 /\ TreeHead(leaves) = f[<<0, n>>]
    BY <1>1, <2>1, HeadsFacts
  <2>3. PICK power : PowersTo(n, power)
    BY <1>1, PowersExist
  <2>4. power[0] = 1 /\ \A d \in 0 .. n : power[d] \in Nat /\ power[d] > d
    BY <1>1, <2>3, PowersFacts
  <2>5. layer[0] = leaves /\ \A k \in 1 .. n : layer[k] = NextLayer(layer[k - 1], "rfc6962")
    BY <1>1, LayersFacts
  <2>6. \A k \in 0 .. n : /\ AreDigests(layer[k]) /\ Len(layer[k]) > 0
                          /\ Len(layer[k]) = 1 \/ Len(layer[k]) <= n - k
    BY <2>1, LayerShapes
  <2> HIDE DEF layer
  <2> DEFINE Fits(k) == \E d \in 0 .. n : Aligned(layer[k], power[d], n, f)
             S == {k \in Nat : k <= n => Fits(k)}
  <2>7. 0 \in S
    <3>1. \A m \in 1 .. n : leaves[m] = f[<<m - 1, 1>>]
      <4> SUFFICES ASSUME NEW m \in 1 .. n
                   PROVE  leaves[m] = f[<<m - 1, 1>>]
        OBVIOUS
      <4>1. <<m - 1, 1>> \in Segments(n)
        BY <1>1, <2>1 DEF Segments
      <4>2. f[<<m - 1, 1>>] = leaves[m - 1 + 1]
        BY <2>2, <4>1 DEF HeadOf
      <4> QED
        BY <4>2
    <3>2. Aligned(leaves, 1, n, f)
      <4>1. (n - 1) * 1 < n /\ n <= n * 1
        BY <1>1
      <4>2. ASSUME NEW m \in 1 .. n
            PROVE  leaves[m] = f[<<(m - 1) * 1, IF m = n THEN n - (m - 1) * 1 ELSE 1>>]
        <5>1. (m - 1) * 1 = m - 1 /\ (IF m = n THEN n - (m - 1) * 1 ELSE 1) = 1
          BY <1>1
        <5> QED
          BY <3>1, <5>1
      <4> QED
        BY <4>1, <4>2 DEF Aligned
    <3>3. 0 \in 0 .. n /\ Aligned(layer[0], power[0], n, f)
      BY <1>1, <2>4, <2>5, <3>2
    <3> HIDE DEF n
    <3> QED
      BY <3>3
  <2>8. ASSUME NEW k \in Nat, k \in S
        PROVE  k + 1 \in S
    <3> SUFFICES ASSUME k + 1 <= n
                 PROVE  Fits(k + 1)
      OBVIOUS
    <3> DEFINE l == layer[k]
    <3>1. PICK d \in 0 .. n : Aligned(l, power[d], n, f)
      BY <1>1, <2>8
    <3>2. k \in 0 .. n /\ k + 1 \in 1 .. n /\ (k + 1) - 1 = k
      BY <1>1
    <3>3. layer[k + 1] = NextLayer(l, "rfc6962") /\ AreDigests(l) /\ Len(l) > 0
      BY <2>5, <2>6, <3>2
    <3>4. Len(l) \in Nat
      BY <3>3 DEF AreDigests, IsList
    <3> HIDE DEF l
    <3>5. CASE Len(l) <= 1
      <4>1. layer[k + 1] = l
        BY <3>3, <3>5 DEF NextLayer
      <4> QED
        BY <3>1, <4>1
    <3>6. CASE Len(l) > 1
      <4>1. power[d] \in Nat /\ power[d] > d
        BY <2>4
      <4>2. power[d] < n
        <5>1. (Len(l) - 1) * power[d] < n
          BY <3>1 DEF Aligned
        <5>2. PICK j \in Nat : Len(l) - 1 = j + 1
          <6>1. Len(l) - 2 \in Nat /\ Len(l) - 1 = (Len(l) - 2) + 1
            BY <3>4, <3>6
          <6> QED
            BY <6>1
        <5>3. (j + 1) * power[d] = j * power[d] + power[d] /\ j * power[d] \in Nat
          BY <4>1
        <5> QED
          BY <1>1, <4>1, <5>1, <5>2, <5>3
      <4>3. d + 1 \in 0 .. n /\ power[d + 1] = 2 * power[d]
        <5>1. d + 1 \in 0 .. n /\ (d + 1) - 1 = d /\ d + 1 # 0
          BY <1>1, <4>1, <4>2
        <5> QED
          BY <2>3, <5>1 DEF PowersTo
      <4>4. \A m \in 0 .. n : power[d] < m /\ m <= 2 * power[d] => Split(m) = power[d]
        BY <1>1, <2>3, SplitIs
      <4>5. Aligned(layer[k + 1], 2 * power[d], n, f)
        <5> DEFINE width == power[d]
        <5>1. /\ width \in Nat /\ width > 0 /\ Aligned(l, width, n, f)
              /\ \A m \in 0 .. n : width < m /\ m <= 2 * width => Split(m) = width
          BY <3>1, <4>1, <4>4
        <5> HIDE DEF width
        <5>2. Aligned(NextLayer(l, "rfc6962"), 2 * width, n, f)
          BY <1>1, <2>1, <2>2, <3>3, <3>6, <5>1, NextIsAligned
        <5> QED
          BY <3>3, <5>2 DEF width
      <4> QED
        BY <4>3, <4>5
    <3> QED
      BY <3>4, <3>5, <3>6
  <2> HIDE DEF S
  <2>9. Nat \subseteq S
    BY <2>7, <2>8, Inductive
  <2>10. Fits(n)
    BY <1>1, <2>9 DEF S
  <2>11. PICK d \in 0 .. n : Aligned(layer[n], power[d], n, f)
    BY <2>10
  <2>12. Len(layer[n]) = 1
    <3>1. AreDigests(layer[n]) /\ (Len(layer[n]) = 1 \/ Len(layer[n]) <= n - n) /\ Len(layer[n]) > 0
      BY <1>1, <2>6
    <3> DEFINE size == Len(layer[n])
    <3>2. size \in Nat /\ size > 0 /\ (size = 1 \/ size <= n - n)
      BY <3>1 DEF AreDigests, IsList
    <3> HIDE DEF size, n
    <3>3. size = 1
      BY <1>1, <3>2
    <3> QED
      BY <3>3 DEF size, n
  <2>13. layer[n][1] = f[<<0, n>>]
    <3>1. layer[n][1] = f[<<(1 - 1) * power[d], n - (1 - 1) * power[d]>>]
      BY <2>11, <2>12 DEF Aligned
    <3>2. power[d] \in Nat
      BY <2>4
    <3>3. (1 - 1) * power[d] = 0 /\ n - 0 = n
      BY <1>1, <3>2
    <3> QED
      BY <3>1, <3>3
  <2>14. getRoot(leaves, "rfc6962") = layer[n][1]
    BY <2>1 DEF getRoot, layer
  <2> QED
    BY <2>2, <2>13, <2>14
<1> QED
  BY <1>2, <1>3

LEMMA HeadsAreLower ==
  ASSUME NEW leaves, AreDigests(leaves), NEW f,
         NEW r \in Segments(Len(leaves)), f[r] = HeadOf(f, r, leaves)
  PROVE  Lower(f[r])
<1>1. r[1] + 1 \in 1 .. Len(leaves)
  <2> DEFINE n == Len(leaves)
  <2>1. n \in Nat /\ r \in Segments(n)
    BY DEF AreDigests, IsList
  <2> HIDE DEF n
  <2>2. r[1] + 1 \in 1 .. n
    BY <2>1 DEF Segments
  <2> QED
    BY <2>2 DEF n
<1>2. CASE r[2] = 1
  BY <1>1, <1>2 DEF HeadOf, AreDigests
<1>3. CASE r[2] # 1
  BY <1>3, NodesAreLower DEF HeadOf
<1> QED
  BY <1>2, <1>3

\* Equal heads have equally many leaves below them, and the same ones in the same order.
LEMMA EqualHeads ==
  ASSUME NEW leaves, NEW others, AreLeaves(leaves), AreLeaves(others),
         NEW f, \A r \in Segments(Len(leaves)) : f[r] = HeadOf(f, r, leaves),
         NEW g, \A r \in Segments(Len(others)) : g[r] = HeadOf(g, r, others)
  PROVE  \A r \in Segments(Len(leaves)), s \in Segments(Len(others)) :
           f[r] = g[s] => /\ r[2] = s[2]
                          /\ \A i \in 1 .. r[2] : leaves[r[1] + i] = others[s[1] + i]
<1> DEFINE n == Len(leaves)
           q == Len(others)
           Same(r, s) == /\ r[2] = s[2]
                         /\ \A i \in 1 .. r[2] : leaves[r[1] + i] = others[s[1] + i]
           S == {k \in Nat : \A r \in Segments(n), s \in Segments(q) : r[2] = k /\ f[r] = g[s] => Same(r, s)}
<1>1. n \in Nat /\ q \in Nat
  BY DEF AreLeaves, AreDigests, IsList
<1>2. \A r \in Segments(n) : f[r] = HeadOf(f, r, leaves)
  OBVIOUS
<1>3. \A s \in Segments(q) : g[s] = HeadOf(g, s, others)
  OBVIOUS
<1>4. \A m \in 1 .. n : ~IsNode(leaves[m]) /\ Lower(leaves[m])
  BY DEF AreLeaves, AreDigests
<1>5. \A m \in 1 .. q : ~IsNode(others[m]) /\ Lower(others[m])
  BY DEF AreLeaves, AreDigests
<1>6. \A r \in Segments(n) : Lower(f[r])
  BY HeadsAreLower DEF AreLeaves
<1>7. \A s \in Segments(q) : Lower(g[s])
  BY HeadsAreLower DEF AreLeaves
<1> HIDE DEF n, q
<1>8. \A r \in Segments(n) : r[1] \in Nat /\ r[2] \in Nat /\ r[1] + 1 \in 1 .. n
  BY <1>1 DEF Segments
<1>9. \A s \in Segments(q) : s[1] \in Nat /\ s[2] \in Nat /\ s[1] + 1 \in 1 .. q
  BY <1>1 DEF Segments
<1>10. ASSUME NEW k \in Nat, \A m \in Nat : m < k => m \in S
       PROVE  k \in S
  <2> SUFFICES ASSUME NEW r \in Segments(n), NEW s \in Segments(q), r[2] = k, f[r] = g[s]
               PROVE  Same(r, s)
    OBVIOUS
  <2>1. CASE r[2] = 1 /\ s[2] = 1
    <3>1. leaves[r[1] + 1] = others[s[1] + 1]
      BY <1>2, <1>3, <2>1 DEF HeadOf
    <3>2. \A i \in 1 .. r[2] : i = 1
      BY <2>1
    <3> QED
      BY <2>1, <3>1, <3>2
  <2> DEFINE left == <<r[1], Split(r[2])>>
             right == <<r[1] + Split(r[2]), r[2] - Split(r[2])>>
             leftOf == <<s[1], Split(s[2])>>
             rightOf == <<s[1] + Split(s[2]), s[2] - Split(s[2])>>
  <2>2. r[2] # 1 => /\ left \in Segments(n) /\ left[2] < r[2] /\ right \in Segments(n) /\ right[2] < r[2]
                    /\ left[2] + right[2] = r[2] /\ left[1] + left[2] = right[1]
                    /\ f[r] = hashNodes(f[left], f[right])
    <3> SUFFICES ASSUME r[2] # 1
                 PROVE  /\ left \in Segments(n) /\ left[2] < r[2] /\ right \in Segments(n) /\ right[2] < r[2]
                        /\ left[2] + right[2] = r[2] /\ left[1] + left[2] = right[1]
                        /\ f[r] = hashNodes(f[left], f[right])
      OBVIOUS
    <3>1. f[r] = hashNodes(f[left], f[right])
      BY <1>2 DEF HeadOf
    <3> QED
      BY <1>1, <3>1, SegmentsOfSegments
  <2>3. s[2] # 1 => /\ leftOf \in Segments(q) /\ rightOf \in Segments(q)
                    /\ leftOf[2] + rightOf[2] = s[2] /\ leftOf[1] + leftOf[2] = rightOf[1]
                    /\ g[s] = hashNodes(g[leftOf], g[rightOf])
    <3> SUFFICES ASSUME s[2] # 1
                 PROVE  /\ leftOf \in Segments(q) /\ rightOf \in Segments(q)
                        /\ leftOf[2] + rightOf[2] = s[2] /\ leftOf[1] + leftOf[2] = rightOf[1]
                        /\ g[s] = hashNodes(g[leftOf], g[rightOf])
      OBVIOUS
    <3>1. g[s] = hashNodes(g[leftOf], g[rightOf])
      BY <1>3 DEF HeadOf
    <3> QED
      BY <1>1, <3>1, SegmentsOfSegments
  <2> DEFINE ll == left
             lr == right
             ml == leftOf
             mr == rightOf
  <2>4. r[2] = 1 <=> s[2] = 1
    <3>1. r[2] = 1 => ~IsNode(f[r])
      BY <1>2, <1>4, <1>8 DEF HeadOf
    <3>2. s[2] = 1 => ~IsNode(g[s])
      BY <1>3, <1>5, <1>9 DEF HeadOf
    <3> HIDE DEF left, right, leftOf, rightOf
    <3>3. r[2] # 1 => IsNode(f[r])
      BY <1>6, <2>2 DEF IsNode
    <3>4. s[2] # 1 => IsNode(g[s])
      BY <1>7, <2>3 DEF IsNode
    <3> QED
      BY <3>1, <3>2, <3>3, <3>4
  <2>5. CASE r[2] # 1 /\ s[2] # 1
    <3> HIDE DEF left, right, leftOf, rightOf
    <3>1. f[left] = g[leftOf] /\ f[right] = g[rightOf]
      BY <1>6, <1>7, <2>2, <2>3, <2>5, NodesAreTheirChildren
    <3>2. left[2] \in S /\ right[2] \in S
      BY <1>8, <1>10, <2>2, <2>5
    <3>3. Same(left, leftOf)
      BY <2>2, <2>3, <2>5, <3>1, <3>2
    <3>4. Same(right, rightOf)
      BY <2>2, <2>3, <2>5, <3>1, <3>2
    <3>5. left[1] = r[1] /\ leftOf[1] = s[1]
      BY DEF left, leftOf
    <3>6. /\ left[1] \in Nat /\ left[2] \in Nat /\ right[1] \in Nat /\ right[2] \in Nat
          /\ leftOf[1] \in Nat /\ leftOf[2] \in Nat /\ rightOf[1] \in Nat /\ rightOf[2] \in Nat
      BY <1>8, <1>9, <2>2, <2>3, <2>5
    <3>7. r[2] = s[2]
      BY <2>2, <2>3, <2>5, <3>3, <3>4
    <3>8. ASSUME NEW i \in 1 .. r[2]
          PROVE  leaves[r[1] + i] = others[s[1] + i]
      <4>1. CASE i <= left[2]
        <5>1. i \in 1 .. left[2]
          BY <3>6, <4>1
        <5> QED
          BY <3>3, <3>5, <5>1
      <4>2. CASE i > left[2]
        <5>1. i - left[2] \in 1 .. right[2]
          BY <2>2, <2>5, <3>6, <4>2
        <5>2. leaves[right[1] + (i - left[2])] = others[rightOf[1] + (i - left[2])]
          BY <3>4, <5>1
        <5>3. right[1] + (i - left[2]) = r[1] + i /\ rightOf[1] + (i - left[2]) = s[1] + i
          BY <2>2, <2>3, <2>5, <3>3, <3>5, <3>6
        <5> QED
          BY <5>2, <5>3
      <4> QED
        BY <3>6, <4>1, <4>2
    <3> QED
      BY <3>7, <3>8
  <2> QED
    BY <2>1, <2>4, <2>5
<1> HIDE DEF S
<1>11. Nat \subseteq S
  BY <1>10, Complete
<1> QED
  BY <1>8, <1>11 DEF S, n, q

\* Two trees of the current profile with the same root have the same leaves in the same
\* order, and equally many.
THEOREM RootsDetermineLeaves ==
  ASSUME NEW leaves, NEW others, AreLeaves(leaves), AreLeaves(others),
         getRoot(leaves, "rfc6962") = getRoot(others, "rfc6962")
  PROVE  leaves = others
<1> DEFINE n == Len(leaves)
           q == Len(others)
<1>1. n \in Nat /\ n > 0 /\ q \in Nat /\ q > 0 /\ leaves # <<>> /\ others # <<>>
  BY DEF AreLeaves, AreDigests, IsList
<1>2. TreeHead(leaves) = TreeHead(others)
  BY RootsAreTreeHeads DEF AreLeaves
<1>3. PICK f : /\ \A r \in Segments(n) : f[r] = HeadOf(f, r, leaves)
               /\ TreeHead(leaves) = f[<<0, n>>]
  BY <1>1, HeadsFacts
<1>4. PICK g : /\ \A r \in Segments(q) : g[r] = HeadOf(g, r, others)
               /\ TreeHead(others) = g[<<0, q>>]
  BY <1>1, HeadsFacts
<1>5. <<0, n>> \in Segments(n) /\ <<0, q>> \in Segments(q)
  BY <1>1 DEF Segments
<1>6. n = q /\ \A i \in 1 .. n : leaves[0 + i] = others[0 + i]
  <2>1. f[<<0, n>>] = g[<<0, q>>]
    BY <1>2, <1>3, <1>4
  <2> QED
    BY <1>3, <1>4, <1>5, <2>1, EqualHeads
<1>7. leaves = [m \in 1 .. n |-> leaves[m]] /\ others = [m \in 1 .. q |-> others[m]]
  BY DEF AreLeaves, AreDigests, IsList
<1> HIDE DEF n, q
<1>8. \A i \in 1 .. n : leaves[i] = others[i]
  BY <1>6
<1> QED
  BY <1>6, <1>7, <1>8
-----------------------------------------------------------------------------
(***************************************************************************)
(* Canonical forms. A recursion over values has a solution, and what JSON  *)
(* makes of a value that has a form in the current profile is the value.   *)
(***************************************************************************)
FormOf(f, v) ==
  LET forms == [m \in DOMAIN v.members |-> f[v.members[m]]]
  IN  CASE v.type \in {"null", "boolean"} -> <<v.type, v.value>>
        [] v.type \in {"number", "string"} ->
             IF Unwritable(v) THEN Throws ELSE <<v.type, v.value>>
        [] v.type \in {"array", "object"} ->
             IF v.own # {} \/ AnyThrows(forms) THEN Throws ELSE <<v.type, forms>>
        [] OTHER -> Throws

ParseOf(f, v) ==
  LET kept == {m \in DOMAIN v.members : v.type = "array" \/ ~Unserialisable(v.members[m])}
  IN  CASE Unserialisable(v) \/ (v.type = "number" /\ v.value = "non-finite") ->
             Scalar("null", "null")
        [] v.type = "date" -> Scalar("string", v.value)
        [] v.type \in {"array", "object"} ->
             [type |-> v.type, value |-> v.value,
              members |-> [m \in kept |-> f[v.members[m]]], own |-> {}]
        [] OTHER -> v

\* A step of either recursion.
StepOf(f, v, parses) == IF parses THEN ParseOf(f, v) ELSE FormOf(f, v)

LEMMA StepsAreLocal ==
  ASSUME NEW f, NEW g, NEW v, NEW parses,
         \A m \in DOMAIN v.members : f[v.members[m]] = g[v.members[m]]
  PROVE  StepOf(f, v, parses) = StepOf(g, v, parses)
<1>1. [m \in DOMAIN v.members |-> f[v.members[m]]] = [m \in DOMAIN v.members |-> g[v.members[m]]]
  OBVIOUS
<1>2. FormOf(f, v) = FormOf(g, v)
  BY <1>1 DEF FormOf
<1> DEFINE kept == {m \in DOMAIN v.members : v.type = "array" \/ ~Unserialisable(v.members[m])}
<1>3. [m \in kept |-> f[v.members[m]]] = [m \in kept |-> g[v.members[m]]]
  OBVIOUS
<1>4. ParseOf(f, v) = ParseOf(g, v)
  BY <1>3 DEF ParseOf
<1> QED
  BY <1>2, <1>4 DEF StepOf

\* A solution on some values and all that they contain.
Solves(f, part, parses) ==
  /\ part \subseteq Values
  /\ \A v \in part : /\ \A m \in DOMAIN v.members : v.members[m] \in part
                     /\ f[v] = StepOf(f, v, parses)

LEMMA SolutionsAgree ==
  ASSUME NEW f, NEW g, NEW part, NEW other, NEW parses,
         Solves(f, part, parses), Solves(g, other, parses)
  PROVE  \A v \in part \cap other : f[v] = g[v]
<1> DEFINE T == {v \in part \cap other : f[v] # g[v]}
<1> SUFFICES ASSUME T # {} PROVE FALSE
  OBVIOUS
<1>1. T \in SUBSET Values
  BY DEF Solves
<1>2. PICK v \in T : \A m \in DOMAIN v.members : v.members[m] \notin T
  <2> HIDE DEF T
  <2> QED
    BY <1>1, ValuesAssumption
<1>3. \A m \in DOMAIN v.members : f[v.members[m]] = g[v.members[m]]
  BY <1>2 DEF Solves
<1>4. StepOf(f, v, parses) = StepOf(g, v, parses)
  BY <1>3, StepsAreLocal
<1> QED
  BY <1>4 DEF Solves

LEMMA SolutionsExist ==
  ASSUME NEW parses
  PROVE  \E f : f = [v \in Values |-> StepOf(f, v, parses)]
<1> DEFINE Good == {v \in Values : \E p : v \in p[1] /\ Solves(p[2], p[1], parses)}
           Chosen(v) == CHOOSE p : v \in p[1] /\ Solves(p[2], p[1], parses)
           F == [v \in Good |-> Chosen(v)[2][v]]
<1>1. ASSUME NEW v \in Good
      PROVE  v \in Chosen(v)[1] /\ Solves(Chosen(v)[2], Chosen(v)[1], parses)
  OBVIOUS
<1> HIDE DEF Chosen
<1>2. ASSUME NEW f, NEW part, Solves(f, part, parses)
      PROVE  \A v \in part : v \in Good /\ F[v] = f[v]
  <2> SUFFICES ASSUME NEW v \in part PROVE v \in Good /\ F[v] = f[v]
    OBVIOUS
  <2>1. v \in Good
    <3> DEFINE p == <<part, f>>
    <3>1. v \in p[1] /\ Solves(p[2], p[1], parses) /\ v \in Values
      BY <1>2 DEF Solves
    <3> HIDE DEF p
    <3> QED
      BY <3>1
  <2>2. F[v] = Chosen(v)[2][v]
    BY <2>1
  <2>3. v \in Chosen(v)[1] /\ Solves(Chosen(v)[2], Chosen(v)[1], parses)
    BY <1>1, <2>1
  <2> HIDE DEF F, Good
  <2>4. Chosen(v)[2][v] = f[v]
    BY <1>2, <2>3, SolutionsAgree
  <2> QED
    BY <2>1, <2>2, <2>4
<1>3. F = [v \in Good |-> F[v]]
  OBVIOUS
<1>4. Good \subseteq Values
  OBVIOUS
<1> HIDE DEF F, Good
<1>5. Solves(F, Good, parses)
  <2> SUFFICES ASSUME NEW v \in Good
               PROVE  /\ \A m \in DOMAIN v.members : v.members[m] \in Good
                      /\ F[v] = StepOf(F, v, parses)
    BY <1>4 DEF Solves
  <2> DEFINE part == Chosen(v)[1]
             f == Chosen(v)[2]
  <2>1. v \in part /\ Solves(f, part, parses)
    BY <1>1
  <2> HIDE DEF part, f
  <2>2. \A w \in part : w \in Good /\ F[w] = f[w]
    BY <1>2, <2>1
  <2>3. \A m \in DOMAIN v.members : v.members[m] \in part
    BY <2>1 DEF Solves
  <2>4. StepOf(F, v, parses) = StepOf(f, v, parses)
    BY <2>2, <2>3, StepsAreLocal
  <2>5. f[v] = StepOf(f, v, parses)
    BY <2>1 DEF Solves
  <2> QED
    BY <2>1, <2>2, <2>3, <2>4, <2>5
<1>6. Good = Values
  <2> DEFINE T == Values \ Good
  <2> SUFFICES ASSUME T # {} PROVE FALSE
    BY <1>4
  <2>1. T \in SUBSET Values
    OBVIOUS
  <2>2. PICK v \in T : \A m \in DOMAIN v.members : v.members[m] \notin T
    <3> HIDE DEF T
    <3> QED
      BY <2>1, ValuesAssumption
  <2>3. v \in Values /\ v \notin Good /\ \A m \in DOMAIN v.members : v.members[m] \in Good
    BY <2>2, ValuesAssumption
  <2> DEFINE part == Good \cup {v}
             g == [w \in part |-> IF w = v THEN StepOf(F, v, parses) ELSE F[w]]
  <2>4. \A w \in Good : g[w] = F[w]
    BY <2>3
  <2>5. g[v] = StepOf(F, v, parses)
    OBVIOUS
  <2> HIDE DEF g
  <2>6. \A w \in part : \A m \in DOMAIN w.members : w.members[m] \in Good
    BY <1>5, <2>3 DEF Solves
  <2>7. \A w \in part : StepOf(g, w, parses) = StepOf(F, w, parses)
    BY <2>4, <2>6, StepsAreLocal
  <2>8. \A w \in part : g[w] = StepOf(g, w, parses)
    BY <1>5, <2>4, <2>5, <2>7 DEF Solves
  <2>9. Solves(g, part, parses)
    BY <1>4, <2>3, <2>6, <2>8 DEF Solves
  <2> QED
    BY <1>2, <2>3, <2>9
<1>7. F = [v \in Values |-> StepOf(F, v, parses)]
  BY <1>3, <1>5, <1>6 DEF Solves
<1> QED
  BY <1>7

LEMMA CanonicalForms ==
  \A v \in Values : canonicalizeRfc8785[v] = FormOf(canonicalizeRfc8785, v)
<1>1. PICK f : f = [v \in Values |-> StepOf(f, v, FALSE)]
  BY SolutionsExist
<1>2. f = [v \in Values |-> FormOf(f, v)]
  BY <1>1 DEF StepOf
<1>3. \E g : g = [v \in Values |-> FormOf(g, v)]
  BY <1>2
<1>4. canonicalizeRfc8785 = [v \in Values |-> FormOf(canonicalizeRfc8785, v)]
  BY <1>3 DEF canonicalizeRfc8785, FormOf
<1> HIDE DEF canonicalizeRfc8785
<1> QED
  BY <1>4

LEMMA ParsedValues ==
  \A v \in Values : Parsed[v] = ParseOf(Parsed, v)
<1>1. PICK f : f = [v \in Values |-> StepOf(f, v, TRUE)]
  BY SolutionsExist
<1>2. f = [v \in Values |-> ParseOf(f, v)]
  BY <1>1 DEF StepOf
<1>3. \E g : g = [v \in Values |-> ParseOf(g, v)]
  BY <1>2
<1>4. Parsed = [v \in Values |-> ParseOf(Parsed, v)]
  BY <1>3 DEF Parsed, ParseOf
<1> QED
  BY <1>4

\* A value with a canonical form has no flaws, and the form tells its type and what it holds.
LEMMA FormsTell ==
  ASSUME NEW v \in Values, canonicalizeRfc8785[v] # Throws
  PROVE  /\ v.own = {} /\ v.type \in {"null", "boolean", "number", "string", "array", "object"}
         /\ v.type \in {"number", "string"} => ~Unwritable(v)
         /\ IF v.type \in {"array", "object"}
            THEN LET forms == [m \in DOMAIN v.members |-> canonicalizeRfc8785[v.members[m]]]
                 IN  canonicalizeRfc8785[v] = <<v.type, forms>> /\ \A m \in DOMAIN forms : forms[m] # Throws
            ELSE canonicalizeRfc8785[v] = <<v.type, v.value>> /\ DOMAIN v.members = {}
<1>1. canonicalizeRfc8785[v] = FormOf(canonicalizeRfc8785, v)
  BY CanonicalForms
<1>2. IF v.type \in {"array", "object"} THEN v.value = "" ELSE DOMAIN v.members = {} /\ v.own = {}
  BY ValuesAssumption
<1> DEFINE g == canonicalizeRfc8785
<1> HIDE DEF g
<1>3. g[v] = FormOf(g, v) /\ g[v] # Throws
  BY <1>1 DEF g
<1>4. CASE v.type \in {"array", "object"}
  BY <1>3, <1>4 DEF FormOf, AnyThrows, g
<1>5. CASE v.type \notin {"array", "object"}
  BY <1>2, <1>3, <1>5 DEF FormOf, g
<1> QED
  BY <1>4, <1>5

\* JSON changes nothing of what has a form in the current profile.
LEMMA WritableValuesStay ==
  ASSUME NEW v \in Values, canonicalizeRfc8785[v] # Throws
  PROVE  Parsed[v] = v
<1> DEFINE T == {w \in Values : canonicalizeRfc8785[w] # Throws /\ Parsed[w] # w}
<1> SUFFICES ASSUME T # {} PROVE FALSE
  OBVIOUS
<1>1. T \in SUBSET Values
  OBVIOUS
<1>2. PICK w \in T : \A m \in DOMAIN w.members : w.members[m] \notin T
  <2> HIDE DEF T
  <2> QED
    BY <1>1, ValuesAssumption
<1>3. w \in Values /\ canonicalizeRfc8785[w] # Throws /\ Parsed[w] # w
  BY <1>2
<1>4. /\ w = [type |-> w.type, value |-> w.value,
              members |-> [m \in DOMAIN w.members |-> w.members[m]], own |-> w.own]
      /\ \A m \in DOMAIN w.members : w.members[m] \in Values
  BY <1>3, ValuesAssumption
<1>5. Parsed[w] = ParseOf(Parsed, w)
  BY <1>3, ParsedValues
<1>6. CASE w.type \in {"array", "object"}
  <2>1. \A m \in DOMAIN w.members : canonicalizeRfc8785[w.members[m]] # Throws
    BY <1>3, <1>6, FormsTell
  <2>2. \A m \in DOMAIN w.members : Parsed[w.members[m]] = w.members[m] /\ ~Unserialisable(w.members[m])
    <3> SUFFICES ASSUME NEW m \in DOMAIN w.members
                 PROVE  Parsed[w.members[m]] = w.members[m] /\ ~Unserialisable(w.members[m])
      OBVIOUS
    <3>1. w.members[m] \in Values /\ canonicalizeRfc8785[w.members[m]] # Throws
      BY <1>4, <2>1
    <3>2. Parsed[w.members[m]] = w.members[m]
      BY <1>2, <3>1
    <3>3. ~Unserialisable(w.members[m])
      BY <3>1, FormsTell DEF Unserialisable
    <3> QED
      BY <3>2, <3>3
  <2> DEFINE kept == {m \in DOMAIN w.members : w.type = "array" \/ ~Unserialisable(w.members[m])}
  <2>3. kept = DOMAIN w.members
    BY <2>2
  <2> HIDE DEF kept
  <2>4. [m \in kept |-> Parsed[w.members[m]]] = [m \in DOMAIN w.members |-> w.members[m]]
    BY <2>2, <2>3
  <2>5. w.own = {}
    BY <1>3, FormsTell
  <2>6. ParseOf(Parsed, w) = [type |-> w.type, value |-> w.value,
                              members |-> [m \in kept |-> Parsed[w.members[m]]], own |-> {}]
    BY <1>6 DEF ParseOf, Unserialisable, kept
  <2> QED
    BY <1>3, <1>4, <1>5, <2>4, <2>5, <2>6
<1>7. CASE w.type \notin {"array", "object"}
  <2>1. w.type \in {"null", "boolean", "number", "string"} /\ (w.type = "number" => ~Unwritable(w))
    BY <1>3, <1>7, FormsTell
  <2> QED
    BY <1>3, <1>5, <2>1 DEF ParseOf, Unserialisable, Unwritable
<1> QED
  BY <1>6, <1>7

\* No two values have the same form.
LEMMA FormsAreOfOneValue ==
  ASSUME NEW v \in Values, NEW w \in Values, canonicalizeRfc8785[v] # Throws,
         canonicalizeRfc8785[v] = canonicalizeRfc8785[w]
  PROVE  v = w
<1> DEFINE Twin(x, y) == /\ canonicalizeRfc8785[x] # Throws
                         /\ canonicalizeRfc8785[x] = canonicalizeRfc8785[y] /\ x # y
           T == {x \in Values : \E y \in Values : Twin(x, y)}
<1> SUFFICES ASSUME T # {} PROVE FALSE
  OBVIOUS
<1>1. T \in SUBSET Values
  OBVIOUS
<1>2. PICK x \in T : \A m \in DOMAIN x.members : x.members[m] \notin T
  <2> HIDE DEF T
  <2> QED
    BY <1>1, ValuesAssumption
<1>3. PICK y \in Values : Twin(x, y)
  BY <1>2
<1>4. x \in Values /\ x # y
  BY <1>2, <1>3
<1>5. /\ x = [type |-> x.type, value |-> x.value,
              members |-> [m \in DOMAIN x.members |-> x.members[m]], own |-> x.own]
      /\ y = [type |-> y.type, value |-> y.value,
              members |-> [m \in DOMAIN y.members |-> y.members[m]], own |-> y.own]
      /\ \A m \in DOMAIN x.members : x.members[m] \in Values
      /\ \A m \in DOMAIN y.members : y.members[m] \in Values
      /\ x.type \in {"array", "object"} => x.value = ""
      /\ y.type \in {"array", "object"} => y.value = ""
  BY <1>4, ValuesAssumption
<1> DEFINE forms(z) == [m \in DOMAIN z.members |-> canonicalizeRfc8785[z.members[m]]]
           Composite(z) == z.type \in {"array", "object"}
<1>6. /\ x.own = {}
      /\ IF Composite(x) THEN /\ canonicalizeRfc8785[x] = <<x.type, forms(x)>>
                              /\ \A m \in DOMAIN x.members : canonicalizeRfc8785[x.members[m]] # Throws
         ELSE canonicalizeRfc8785[x] = <<x.type, x.value>> /\ DOMAIN x.members = {}
  BY <1>3, <1>4, FormsTell
<1>7. /\ y.own = {}
      /\ IF Composite(y) THEN canonicalizeRfc8785[y] = <<y.type, forms(y)>>
         ELSE canonicalizeRfc8785[y] = <<y.type, y.value>> /\ DOMAIN y.members = {}
  BY <1>3, FormsTell
<1>8. x.type = y.type
  BY <1>3, <1>6, <1>7
<1>9. CASE Composite(x)
  <2>1. forms(x) = forms(y)
    BY <1>3, <1>6, <1>7, <1>8, <1>9
  <2>2. DOMAIN x.members = DOMAIN y.members
    <3>1. DOMAIN forms(x) = DOMAIN x.members /\ DOMAIN forms(y) = DOMAIN y.members
      OBVIOUS
    <3> HIDE DEF forms
    <3> QED
      BY <2>1, <3>1
  <2>3. \A m \in DOMAIN x.members : x.members[m] = y.members[m]
    <3> SUFFICES ASSUME NEW m \in DOMAIN x.members
                 PROVE  x.members[m] = y.members[m]
      OBVIOUS
    <3>1. forms(x)[m] = canonicalizeRfc8785[x.members[m]] /\ forms(y)[m] = canonicalizeRfc8785[y.members[m]]
      BY <2>2
    <3> HIDE DEF forms
    <3>2. canonicalizeRfc8785[x.members[m]] = canonicalizeRfc8785[y.members[m]]
      BY <2>1, <3>1
    <3>3. x.members[m] \in Values /\ y.members[m] \in Values /\ canonicalizeRfc8785[x.members[m]] # Throws
      BY <1>5, <1>6, <1>9, <2>2
    <3> QED
      BY <1>2, <3>2, <3>3
  <2>4. [m \in DOMAIN x.members |-> x.members[m]] = [m \in DOMAIN y.members |-> y.members[m]]
    BY <2>2, <2>3
  <2> QED
    BY <1>4, <1>5, <1>6, <1>7, <1>8, <1>9, <2>4
<1>10. CASE ~Composite(x)
  <2>1. x.value = y.value /\ DOMAIN x.members = {} /\ DOMAIN y.members = {}
    BY <1>3, <1>6, <1>7, <1>8, <1>10
  <2>2. [m \in DOMAIN x.members |-> x.members[m]] = [m \in DOMAIN y.members |-> y.members[m]]
    BY <2>1
  <2> QED
    BY <1>4, <1>5, <1>6, <1>7, <1>8, <2>1, <2>2
<1> QED
  BY <1>9, <1>10
-----------------------------------------------------------------------------
(***************************************************************************)
(* Receipts.                                                               *)
(***************************************************************************)
\* The verdict of verifyReceipt(), as one condition.
Accepted(r, options) ==
  /\ ContextValid(options) /\ hasKey(options)
  /\ validateReceiptEnvelope(r) = {}
  /\ options.expectedAlgorithm = r["signature.algorithm"]
  /\ metadataHash(r) # Throws /\ ~AnyThrows(receiptLeaves(r))
  /\ LeavesValid(r, Tree(r)) /\ RootValid(r, Tree(r))
  /\ SignatureValid(r, options)

LEMMA TrustedMeansAccepted ==
  ASSUME NEW r, NEW options, NEW disk
  PROVE  verifyReceipt(r, options, disk).trusted <=>
           /\ Accepted(r, options)
           /\ options.checkFilesOnDisk => DiskErrors(r, disk) = {}
<1>1. \A errors : ~invalidContext(errors).trusted
  BY DEF invalidContext
<1>2. \A opened, errors : Report(r, options, opened, errors).trusted <=> errors = {} /\ hasKey(options)
  BY DEF Report
<1>3. CoreErrors(r, options, Tree(r)) = {} <=>
        /\ LeavesValid(r, Tree(r)) /\ RootValid(r, Tree(r))
        /\ hasKey(options) => SignatureValid(r, options)
  BY DEF CoreErrors
<1> DEFINE core == CoreErrors(r, options, Tree(r))
<1>4. DiskVerdict(r, options, disk, core).trusted <=>
        core = {} /\ hasKey(options) /\ (options.checkFilesOnDisk => DiskErrors(r, disk) = {})
  <2> HIDE DEF core
  <2> QED
    BY <1>2 DEF DiskVerdict
<1> HIDE DEF core
<1>5. Verdict(r, options, disk, validateReceiptEnvelope(r)).trusted <=>
        /\ validateReceiptEnvelope(r) = {}
        /\ ~(hasKey(options) /\ options.expectedAlgorithm # r["signature.algorithm"])
        /\ ~(metadataHash(r) = Throws \/ AnyThrows(receiptLeaves(r)))
        /\ core = {} /\ hasKey(options) /\ (options.checkFilesOnDisk => DiskErrors(r, disk) = {})
  BY <1>1, <1>4 DEF Verdict, core
<1> QED
  BY <1>1, <1>3, <1>5 DEF verifyReceipt, Accepted, core

\* The fields that are computed from the others when a receipt is signed.
Computed == {"merkle.leaves", "merkle.root", "signature.value"}

IsReceipt(r) == r = [path \in ReceiptFields |-> r[path]]

LEMMA FieldsOfReceipts ==
  /\ Computed \subseteq ReceiptFields
  /\ {"task", "task.name", "task.status", "environment", "environment.platform", "environment.arch",
      "environment.runtime", "merkle", "merkle.algorithm", "signature", "signature.algorithm",
      "signature.keyId", "signature.signerIdentity", "signature.timestamp", "protocol", "version",
      "proofId", "timestamp", "parentOrganization", "artifacts", "metadata",
      "metadata.signalProfile"} = ReceiptFields \ Computed
BY DEF Computed, ReceiptFields, Scalars, TaskFields, EnvironmentFields, MerkleFields, SignatureFields

\* What is signed and what is hashed depends on these fields alone.
LEMMA SameFieldsSameLeaves ==
  ASSUME NEW r, NEW s, \A path \in ReceiptFields \ Computed : r[path] = s[path]
  PROVE  /\ receiptLeaves(r) = receiptLeaves(s) /\ Tree(r) = Tree(s)
         /\ metadataHash(r) = metadataHash(s)
<1>1. /\ r["task.name"] = s["task.name"] /\ r["task.status"] = s["task.status"]
      /\ r["environment.platform"] = s["environment.platform"]
      /\ r["environment.arch"] = s["environment.arch"]
      /\ r["environment.runtime"] = s["environment.runtime"]
      /\ r["version"] = s["version"] /\ r["artifacts"] = s["artifacts"]
      /\ r["metadata"] = s["metadata"] /\ r["metadata.signalProfile"] = s["metadata.signalProfile"]
  BY FieldsOfReceipts
<1>2. receiptLeaves(r) = receiptLeaves(s)
  BY <1>1 DEF receiptLeaves
<1>3. metadataHash(r) = metadataHash(s)
  BY <1>1 DEF metadataHash
<1> QED
  BY <1>1, <1>2, <1>3 DEF Tree

LEMMA SameFieldsSamePayload ==
  ASSUME NEW r, NEW s, \A path \in ReceiptFields \ Computed : r[path] = s[path],
         r["merkle.root"] = s["merkle.root"]
  PROVE  signingPayload(r) = signingPayload(s)
<1>1. /\ r["task.name"] = s["task.name"] /\ r["proofId"] = s["proofId"]
      /\ r["timestamp"] = s["timestamp"] /\ r["parentOrganization"] = s["parentOrganization"]
      /\ r["protocol"] = s["protocol"] /\ r["version"] = s["version"]
      /\ r["merkle.algorithm"] = s["merkle.algorithm"]
      /\ r["signature.algorithm"] = s["signature.algorithm"]
      /\ r["signature.keyId"] = s["signature.keyId"]
      /\ r["signature.signerIdentity"] = s["signature.signerIdentity"]
      /\ r["signature.timestamp"] = s["signature.timestamp"]
  BY FieldsOfReceipts
<1> QED
  BY <1>1, SameFieldsSameLeaves DEF signingPayload

\* What SignedReceipt() makes of the fields that it is given.
LEMMA SignedReceipts ==
  ASSUME NEW unsigned, NEW key, IsReceipt(unsigned), SignedReceipt(unsigned, key) # Throws
  PROVE  LET s == SignedReceipt(unsigned, key)
         IN  /\ IsReceipt(s) /\ ~AnyThrows(receiptLeaves(s))
             /\ \A path \in ReceiptFields \ Computed : s[path] = unsigned[path]
             /\ s["merkle.leaves"] = Tree(s).leaves /\ s["merkle.root"] = Tree(s).root
             /\ s["signature.value"] = signPayload(signingPayload(s), key, s["signature.algorithm"])
             /\ s["signature.value"] # Throws
<1> DEFINE header == WithTree(unsigned, Tree(unsigned))
           value == signPayload(signingPayload(header), key, header["signature.algorithm"])
           s == [header EXCEPT !["signature.value"] = value]
<1>1. ~AnyThrows(receiptLeaves(unsigned)) /\ value # Throws /\ SignedReceipt(unsigned, key) = s
  BY DEF SignedReceipt, Signed, WithValue
<1>2. /\ IsReceipt(header)
      /\ \A path \in ReceiptFields \ Computed : header[path] = unsigned[path]
      /\ header["merkle.leaves"] = Tree(unsigned).leaves /\ header["merkle.root"] = Tree(unsigned).root
  <2>1. \A path : unsigned[path] = unsigned[path]
    OBVIOUS
  <2> HIDE DEF header
  <2>2. header = [path \in ReceiptFields |->
                    IF path = "merkle.root" THEN Tree(unsigned).root
                    ELSE IF path = "merkle.leaves" THEN Tree(unsigned).leaves ELSE unsigned[path]]
    BY DEF header, WithTree, IsReceipt
  <2> QED
    BY <2>2, FieldsOfReceipts DEF IsReceipt, Computed
<1> HIDE DEF header, value
<1>3. s = [path \in ReceiptFields |-> IF path = "signature.value" THEN value ELSE header[path]]
  BY <1>2 DEF IsReceipt
<1>4. /\ IsReceipt(s) /\ s["signature.value"] = value
      /\ \A path \in ReceiptFields \ {"signature.value"} : s[path] = header[path]
  BY <1>3, FieldsOfReceipts DEF IsReceipt, Computed
<1> HIDE DEF s
<1>5. /\ \A path \in ReceiptFields \ Computed : s[path] = header[path] /\ s[path] = unsigned[path]
      /\ s["merkle.leaves"] = header["merkle.leaves"] /\ s["merkle.root"] = header["merkle.root"]
      /\ s["signature.algorithm"] = header["signature.algorithm"]
  BY <1>2, <1>4, FieldsOfReceipts DEF Computed
<1>6. receiptLeaves(s) = receiptLeaves(unsigned) /\ Tree(s) = Tree(unsigned)
  BY <1>5, SameFieldsSameLeaves
<1>7. signingPayload(s) = signingPayload(header)
  BY <1>5, SameFieldsSamePayload
<1> QED
  BY <1>1, <1>2, <1>4, <1>5, <1>6, <1>7 DEF value

\* The leaves of the tree of a receipt are digests in lower case, two more than artifacts.
LEMMA LeavesOfReceipts ==
  ASSUME NEW r, IsList(r["artifacts"])
  PROVE  LET leaves == receiptLeaves(r)
         IN  /\ IsList(leaves) /\ Len(leaves) = Len(r["artifacts"]) + 2
             /\ \A at \in 1 .. Len(r["artifacts"]) :
                  leaves[at + 2] = ArtifactLeaf(r["artifacts"][at], r["version"])
             /\ leaves[1] = ObjectHash("task", <<r["task.name"], r["task.status"]>>, << >>,
                                       profilesFor(r["version"]).canonical)
             /\ leaves[2] = ObjectHash("environment", <<r["environment.platform"], r["environment.arch"],
                                                        r["environment.runtime"]>>, << >>,
                                       profilesFor(r["version"]).canonical)
             /\ Tree(r).leaves = [m \in 1 .. Len(leaves) |-> hashLeaf(leaves[m])]
             /\ IsList(Tree(r).leaves) /\ Len(Tree(r).leaves) = Len(leaves)
<1> DEFINE n == Len(r["artifacts"])
           canonical == profilesFor(r["version"]).canonical
           task == ObjectHash("task", <<r["task.name"], r["task.status"]>>, << >>, canonical)
           environment == ObjectHash("environment",
                            <<r["environment.platform"], r["environment.arch"],
                              r["environment.runtime"]>>, << >>, canonical)
           rest == [at \in DOMAIN r["artifacts"] |-> ArtifactLeaf(r["artifacts"][at], r["version"])]
           leaves == receiptLeaves(r)
           T == {task, environment} \union {rest[m] : m \in 1 .. n}
<1>1. n \in Nat /\ DOMAIN r["artifacts"] = 1 .. n
  BY DEF IsList
<1>2. rest = [m \in 1 .. n |-> rest[m]]
  BY <1>1
<1>3. leaves = <<task, environment>> \o rest
  BY DEF receiptLeaves
<1>4. \A at \in 1 .. n : rest[at] = ArtifactLeaf(r["artifacts"][at], r["version"])
  BY <1>1
<1> HIDE DEF rest, task, environment, leaves
<1>5. Len(rest) = n /\ rest \in Seq(T)
  <2>1. Len(rest) = n /\ rest \in Seq({rest[m] : m \in 1 .. n})
    BY <1>1, <1>2, Lists
  <2> QED
    BY <2>1
<1>6. <<task, environment>> \in Seq(T) /\ Len(<<task, environment>>) = 2
  OBVIOUS
<1>7. /\ leaves \in Seq(T) /\ Len(leaves) = n + 2
      /\ leaves[1] = task /\ leaves[2] = environment
      /\ \A at \in 1 .. n : leaves[at + 2] = rest[at]
  BY <1>1, <1>3, <1>5, <1>6
<1>8. IsList(leaves)
  BY <1>1, <1>7 DEF IsList
<1>9. Tree(r).leaves = [m \in 1 .. Len(leaves) |-> hashLeaf(leaves[m])]
  BY <1>8 DEF Tree, TreeOver, HashedLeaves, leaves, IsList
<1>10. IsList(Tree(r).leaves) /\ Len(Tree(r).leaves) = Len(leaves)
  <2> DEFINE hashed == [m \in 1 .. Len(leaves) |-> hashLeaf(leaves[m])]
  <2>1. hashed = [m \in 1 .. Len(leaves) |-> hashed[m]]
    OBVIOUS
  <2> HIDE DEF hashed
  <2>2. Len(hashed) = Len(leaves)
    BY <1>8, <2>1, Lists DEF IsList
  <2> QED
    BY <1>8, <1>9, <2>1, <2>2 DEF IsList, hashed
<1> QED
  BY <1>4, <1>7, <1>8, <1>9, <1>10 DEF leaves, task, environment

LEMMA HashedLeavesAreLeaves ==
  ASSUME NEW x
  PROVE  Lower(hashLeaf(x)) /\ ~IsNode(hashLeaf(x))
<1>1. hashLeaf(x)[1] = "leaf"
  BY DEF hashLeaf
<1>2. \A a, b : hashNodes(a, b)[1] = "node"
  BY DEF hashNodes
<1> QED
  BY <1>1, <1>2 DEF Lower, toLowerCase, IsNode

LEMMA TreesHaveLeaves ==
  ASSUME NEW r, IsList(r["artifacts"])
  PROVE  AreLeaves(Tree(r).leaves)
<1> DEFINE leaves == receiptLeaves(r)
           hashed == Tree(r).leaves
<1>1. /\ IsList(leaves) /\ Len(leaves) = Len(r["artifacts"]) + 2
      /\ hashed = [m \in 1 .. Len(leaves) |-> hashLeaf(leaves[m])]
      /\ IsList(hashed) /\ Len(hashed) = Len(leaves)
  BY LeavesOfReceipts
<1> HIDE DEF leaves, hashed
<1>2. \A m \in 1 .. Len(hashed) : hashed[m] = hashLeaf(leaves[m])
  BY <1>1
<1> QED
  BY <1>1, <1>2, HashedLeavesAreLeaves DEF AreLeaves, AreDigests, IsList, hashed

-----------------------------------------------------------------------------
(***************************************************************************)
(* What createReceipt() signs.                                             *)
(***************************************************************************)
\* An artifact that was hashed: no two contents share a digest.
IsHashed(artifact) ==
  \E path, content, mimeType :
    artifact = [path |-> path, sha256 |-> <<"sha256", content>>, sizeBytes |-> <<"bytes", content>>,
                mimeType |-> mimeType]

IsSigned(s) ==
  /\ IsReceipt(s) /\ s["protocol"] = "nymrel-proof-ledger" /\ s["version"] \in Supported
  /\ \A path \in {"task", "environment", "merkle", "signature"} : s[path] = "object"
  /\ s["metadata"] \in Values
  /\ IsList(s["artifacts"]) /\ \A at \in 1 .. Len(s["artifacts"]) : IsHashed(s["artifacts"][at])
  /\ ~AnyThrows(receiptLeaves(s))
  /\ s["merkle.leaves"] = Tree(s).leaves /\ s["merkle.root"] = Tree(s).root
  /\ \E key : s["signature.value"] = signPayload(signingPayload(s), key, s["signature.algorithm"])
  /\ s["signature.value"] # Throws

\* createReceipt() and its predecessor sign what they are asked for.
LEMMA OrdersAreSigned ==
  ASSUME NEW options, NEW proofId, NEW disk, NEW version \in Supported,
         IsList(options.artifacts), options.metadata \in Values,
         ~AnyThrows(HashedArtifacts(options, disk)),
         NEW s, s = SignedReceipt(Header(options, HashedArtifacts(options, disk), version, proofId),
                                  options.signingKey),
         s # Throws
  PROVE  IsSigned(s) /\ s["artifacts"] = HashedArtifacts(options, disk) /\ s["version"] = version
         /\ s["metadata"] = options.metadata /\ s["metadata.signalProfile"] = options.mirror
<1> DEFINE artifacts == HashedArtifacts(options, disk)
           header == Header(options, artifacts, version, proofId)
<1>1. IsReceipt(header)
  BY ZenonT(60) DEF IsReceipt, Header
<1>2. /\ header["artifacts"] = artifacts /\ header["version"] = version
      /\ header["protocol"] = "nymrel-proof-ledger"
      /\ header["metadata"] = options.metadata /\ header["metadata.signalProfile"] = options.mirror
      /\ \A path \in {"task", "environment", "merkle", "signature"} : header[path] = "object"
  BY FieldsOfReceipts DEF Header
<1> HIDE DEF header
<1>3. /\ IsReceipt(s) /\ ~AnyThrows(receiptLeaves(s))
      /\ \A path \in ReceiptFields \ Computed : s[path] = header[path]
      /\ s["merkle.leaves"] = Tree(s).leaves /\ s["merkle.root"] = Tree(s).root
      /\ s["signature.value"] = signPayload(signingPayload(s), options.signingKey, s["signature.algorithm"])
      /\ s["signature.value"] # Throws
  BY <1>1, SignedReceipts DEF header
<1>4. /\ s["artifacts"] = artifacts /\ s["version"] = version /\ s["metadata"] = options.metadata
      /\ s["protocol"] = "nymrel-proof-ledger"
      /\ s["metadata.signalProfile"] = options.mirror
      /\ \A path \in {"task", "environment", "merkle", "signature"} : s[path] = "object"
  BY <1>2, <1>3, FieldsOfReceipts
<1>5. IsList(artifacts) /\ \A at \in 1 .. Len(artifacts) : IsHashed(artifacts[at])
  <2> DEFINE n == Len(options.artifacts)
  <2>1. n \in Nat /\ DOMAIN options.artifacts = 1 .. n
    BY DEF IsList
  <2>2. artifacts = [at \in 1 .. n |-> hashArtifact(options.artifacts[at], disk)]
    BY <2>1 DEF HashedArtifacts
  <2>3. ASSUME NEW at \in 1 .. n
        PROVE  IsHashed(artifacts[at])
    <3>1. artifacts[at] = hashArtifact(options.artifacts[at], disk) /\ artifacts[at] # Throws
      BY <2>2 DEF AnyThrows
    <3> QED
      BY <3>1 DEF hashArtifact, IsHashed
  <2> HIDE DEF artifacts
  <2>4. artifacts = [at \in 1 .. n |-> artifacts[at]]
    BY <2>2
  <2>5. Len(artifacts) = n
    BY <2>1, <2>4, Lists
  <2> QED
    BY <2>1, <2>3, <2>4, <2>5 DEF IsList
<1> QED
  BY <1>3, <1>4, <1>5 DEF IsSigned

\* JSON leaves what was signed as it is, apart from the metadata of version 1.0.0, which is
\* not signed.
LEMMA SerialisedIsSigned ==
  ASSUME NEW s, IsSigned(s), NEW t, t = [s EXCEPT !["metadata"] = Parsed[@]]
  PROVE  IsSigned(t) /\ (s["version"] = "2.0.0" => t = s)
         /\ \A path \in ReceiptFields \ {"metadata"} : t[path] = s[path]
<1>1. t = [path \in ReceiptFields |-> IF path = "metadata" THEN Parsed[s["metadata"]] ELSE s[path]]
  BY DEF IsSigned, IsReceipt
<1>2. IsReceipt(t) /\ \A path \in ReceiptFields \ {"metadata"} : t[path] = s[path]
  BY <1>1 DEF IsReceipt
<1>3. t["metadata"] = Parsed[s["metadata"]] /\ Parsed[s["metadata"]] \in Values
  BY <1>1, ValuesAssumption, FieldsOfReceipts DEF IsSigned
<1>4. CASE s["version"] = "2.0.0"
  <2>1. signingPayload(s) # Throws
    BY DEF IsSigned, signPayload
  <2>2. metadataHash(s) # Throws
    BY <1>4, <2>1 DEF signingPayload, CanonicalPayload
  <2>3. canonicalizeRfc8785[s["metadata"]] # Throws
    BY <1>4, <2>2 DEF metadataHash, profilesFor, canonicalize
  <2>4. Parsed[s["metadata"]] = s["metadata"]
    BY <2>3, WritableValuesStay DEF IsSigned
  <2>5. s = [path \in ReceiptFields |-> s[path]]
    BY DEF IsSigned, IsReceipt
  <2>6. t = s
    BY <1>1, <2>4, <2>5
  <2> QED
    BY <2>6
<1>5. CASE s["version"] # "2.0.0"
  <2>1. s["version"] = "1.0.0"
    BY <1>5 DEF IsSigned, Supported
  <2>2. /\ t["version"] = "1.0.0" /\ t["artifacts"] = s["artifacts"]
        /\ t["protocol"] = s["protocol"]
        /\ t["merkle.root"] = s["merkle.root"] /\ t["merkle.leaves"] = s["merkle.leaves"]
        /\ t["signature.value"] = s["signature.value"]
        /\ t["signature.algorithm"] = s["signature.algorithm"]
        /\ t["proofId"] = s["proofId"] /\ t["timestamp"] = s["timestamp"]
        /\ t["parentOrganization"] = s["parentOrganization"] /\ t["task.name"] = s["task.name"]
        /\ t["task.status"] = s["task.status"]
        /\ t["environment.platform"] = s["environment.platform"]
        /\ t["environment.arch"] = s["environment.arch"]
        /\ t["environment.runtime"] = s["environment.runtime"]
        /\ \A path \in {"task", "environment", "merkle", "signature"} : t[path] = s[path]
    BY <1>2, <2>1, FieldsOfReceipts DEF Computed
  <2>3. receiptLeaves(t) = receiptLeaves(s)
    BY <2>1, <2>2 DEF receiptLeaves
  <2>4. Tree(t) = Tree(s)
    BY <2>1, <2>2, <2>3 DEF Tree
  <2>5. signingPayload(t) = signingPayload(s)
    BY <2>1, <2>2 DEF signingPayload
  <2> QED
    BY <1>2, <1>3, <1>5, <2>1, <2>2, <2>3, <2>4, <2>5 DEF IsSigned
<1> QED
  BY <1>2, <1>4, <1>5
-----------------------------------------------------------------------------
(***************************************************************************)
(* What is true of every receipt that validateReceiptEnvelope() accepts.   *)
(***************************************************************************)
Marks == {Missing, Garbage, Blank}

ValidArtifact(item) ==
  item # Garbage /\ item.path \notin Marks /\ item.sha256 \notin Marks
    /\ item.sizeBytes \notin {Missing, Garbage}

ValidHeader(r) ==
  /\ r["protocol"] # Missing /\ r["protocol"] = "nymrel-proof-ledger"
  /\ r["version"] # Missing /\ r["version"] \in Supported
  /\ \A path \in {"proofId", "parentOrganization", "task.name", "environment.platform",
                  "environment.arch", "environment.runtime", "signature.keyId",
                  "signature.signerIdentity"} : r[path] \notin Marks
  /\ r["timestamp"] \notin Marks /\ isTimestamp(r["timestamp"])
  /\ r["signature.timestamp"] \notin Marks /\ isTimestamp(r["signature.timestamp"])
  /\ \A path \in {"task", "environment", "merkle", "signature", "artifacts", "merkle.leaves",
                  "metadata"} : r[path] \notin {Missing, Garbage}
  /\ r["merkle.algorithm"] # Missing
  /\ r["merkle.algorithm"] = IF r["version"] = "2.0.0" THEN "RFC6962-SHA256" ELSE "SHA-256"
  /\ r["merkle.root"] \notin Marks
  /\ r["signature.algorithm"] # Missing /\ r["signature.algorithm"] \in SignatureAlgorithms

ValidReceipt(r) ==
  /\ r \notin {Missing, Garbage} /\ ValidHeader(r)
  /\ \A at \in DOMAIN r["artifacts"] : ValidArtifact(r["artifacts"][at])
  /\ \A at \in DOMAIN r["merkle.leaves"] : r["merkle.leaves"][at] \notin Marks
  /\ r["signature.value"] \notin Marks /\ Encoding(r["signature.value"]) = r["signature.algorithm"]

LEMMA RequiredIsEmpty ==
  ASSUME NEW value, NEW accepted \in BOOLEAN, NEW code, NEW path, NEW at
  PROVE  Required(value, accepted, code, path, at) = {} <=> value # Missing /\ accepted
BY DEF Required

LEMMA NamesAreNoMarks ==
  ASSUME NEW value, NEW path, NEW at
  PROVE  requireNonEmptyString(value, path, at) = {} <=> value \notin Marks
BY RequiredIsEmpty DEF requireNonEmptyString, Marks

LEMMA WithinIsEmpty ==
  ASSUME NEW value, NEW path, NEW contents
  PROVE  Within(value, path, contents) = {} <=> value \notin {Missing, Garbage} /\ contents = {}
<1>1. \A code : Required(value, FALSE, code, path, 0) # {}
  BY RequiredIsEmpty
<1> QED
  BY <1>1 DEF Within

LEMMA ArtifactErrorsAreEmpty ==
  ASSUME NEW item, NEW at
  PROVE  ArtifactErrors(item, at) = {} <=> ValidArtifact(item)
<1>1. CASE item = Garbage
  BY <1>1 DEF ArtifactErrors, ValidArtifact
<1>2. CASE item # Garbage
  <2> DEFINE path == requireNonEmptyString(item.path, "artifacts.path", at)
             digest == Required(item.sha256, isDigest(item.sha256), "HASH_MALFORMED",
                                "artifacts.sha256", at)
             size == Required(item.sizeBytes, item.sizeBytes # Garbage, "FIELD_TYPE_INVALID",
                              "artifacts.sizeBytes", at)
  <2>1. ArtifactErrors(item, at) = path \union digest \union size
    BY <1>2 DEF ArtifactErrors
  <2>2. isDigest(item.sha256) \in BOOLEAN /\ (item.sizeBytes # Garbage) \in BOOLEAN
    BY DEF isDigest
  <2>3. /\ path = {} <=> item.path \notin Marks
        /\ digest = {} <=> item.sha256 # Missing /\ isDigest(item.sha256)
        /\ size = {} <=> item.sizeBytes # Missing /\ item.sizeBytes # Garbage
    BY <2>2, NamesAreNoMarks, RequiredIsEmpty
  <2> HIDE DEF path, digest, size
  <2> QED
    BY <1>2, <2>1, <2>3 DEF ValidArtifact, isDigest, Marks
<1> QED
  BY <1>1, <1>2

LEMMA ArtifactListIsValid ==
  ASSUME NEW r
  PROVE  ArtifactListErrors(r) = {} <=>
           /\ r["artifacts"] \notin {Missing, Garbage}
           /\ \A at \in DOMAIN r["artifacts"] : ValidArtifact(r["artifacts"][at])
<1>1. UNION {ArtifactErrors(r["artifacts"][at], at) : at \in DOMAIN r["artifacts"]} = {} <=>
        \A at \in DOMAIN r["artifacts"] : ArtifactErrors(r["artifacts"][at], at) = {}
  OBVIOUS
<1> QED
  BY <1>1, WithinIsEmpty, ArtifactErrorsAreEmpty DEF ArtifactListErrors

LEMMA TaskIsValid ==
  ASSUME NEW r
  PROVE  /\ TaskErrors(r) = {} <=> r["task"] \notin {Missing, Garbage} /\ r["task.name"] \notin Marks
         /\ EnvironmentErrors(r) = {} <=>
              /\ r["environment"] \notin {Missing, Garbage}
              /\ \A path \in {"environment.platform", "environment.arch", "environment.runtime"} :
                   r[path] \notin Marks
<1>1. EnvironmentFields \ {"environment"} =
        {"environment.platform", "environment.arch", "environment.runtime"}
  BY DEF EnvironmentFields
<1>2. TaskErrors(r) = {} <=> r["task"] \notin {Missing, Garbage} /\ r["task.name"] \notin Marks
  BY WithinIsEmpty, NamesAreNoMarks DEF TaskErrors
<1> DEFINE Errors(path) == requireNonEmptyString(r[path], path, 0)
           contents == UNION {Errors(path) : path \in EnvironmentFields \ {"environment"}}
<1>3. EnvironmentErrors(r) = Within(r["environment"], "environment", contents)
  BY DEF EnvironmentErrors
<1>4. \A path : Errors(path) = {} <=> r[path] \notin Marks
  BY NamesAreNoMarks
<1> HIDE DEF Errors
<1>5. contents = {} <=> \A path \in EnvironmentFields \ {"environment"} : Errors(path) = {}
  OBVIOUS
<1> HIDE DEF contents
<1>6. EnvironmentErrors(r) = {} <=> r["environment"] \notin {Missing, Garbage} /\ contents = {}
  BY <1>3, WithinIsEmpty
<1> QED
  BY <1>1, <1>2, <1>4, <1>5, <1>6

LEMMA ScalarsAreValid ==
  ASSUME NEW r
  PROVE  /\ ProtocolErrors(r) = {} <=> r["protocol"] # Missing /\ r["protocol"] = "nymrel-proof-ledger"
         /\ VersionErrors(r) = {} <=> r["version"] # Missing /\ r["version"] \in Supported
         /\ ScalarErrors(r) = {} <=>
              /\ r["proofId"] \notin Marks /\ r["parentOrganization"] \notin Marks
              /\ r["timestamp"] \notin Marks /\ isTimestamp(r["timestamp"])
<1>1. ProtocolErrors(r) = {} <=> r["protocol"] # Missing /\ r["protocol"] = "nymrel-proof-ledger"
  BY DEF ProtocolErrors
<1>2. VersionErrors(r) = {} <=> r["version"] # Missing /\ r["version"] \in Supported
  BY DEF VersionErrors
<1>3. isTimestamp(r["timestamp"]) \in BOOLEAN
  BY DEF isTimestamp, isDigest
<1>4. isTimestamp(r["timestamp"]) => r["timestamp"] \notin Marks
  BY DEF isTimestamp, isDigest, Marks
<1> DEFINE Errors(path) == requireNonEmptyString(r[path], path, 0)
           names == UNION {Errors(path) : path \in {"proofId", "parentOrganization"}}
           code == IF r["timestamp"] = Garbage THEN "FIELD_TYPE_INVALID" ELSE "TIMESTAMP_MALFORMED"
           time == Required(r["timestamp"], isTimestamp(r["timestamp"]), code, "timestamp", 0)
<1>5. ScalarErrors(r) = names \union time
  BY DEF ScalarErrors
<1>6. time = {} <=> r["timestamp"] # Missing /\ isTimestamp(r["timestamp"])
  BY <1>3, RequiredIsEmpty
<1>7. \A path : Errors(path) = {} <=> r[path] \notin Marks
  BY NamesAreNoMarks
<1> HIDE DEF Errors, time
<1>8. names = {} <=> Errors("proofId") = {} /\ Errors("parentOrganization") = {}
  OBVIOUS
<1> HIDE DEF names
<1>9. ScalarErrors(r) = {} <=> names = {} /\ time = {}
  BY <1>5
<1>10. Missing \in Marks
  BY DEF Marks
<1> QED
  BY <1>1, <1>2, <1>4, <1>6, <1>7, <1>8, <1>9, <1>10

LEMMA MerkleIsValid ==
  ASSUME NEW r, r["version"] \in Supported
  PROVE  MerkleErrors(r) = {} <=>
           /\ r["merkle"] \notin {Missing, Garbage} /\ r["merkle.algorithm"] # Missing
           /\ r["merkle.algorithm"] = IF r["version"] = "2.0.0" THEN "RFC6962-SHA256" ELSE "SHA-256"
           /\ r["merkle.leaves"] \notin {Missing, Garbage}
           /\ \A at \in DOMAIN r["merkle.leaves"] : r["merkle.leaves"][at] \notin Marks
           /\ r["merkle.root"] \notin Marks
<1> DEFINE right == r["merkle.algorithm"] = IF r["version"] = "2.0.0" THEN "RFC6962-SHA256" ELSE "SHA-256"
           algorithm == Required(r["merkle.algorithm"], r["version"] \in Supported => right,
                                 "FIELD_TYPE_INVALID", "merkle.algorithm", 0)
           LeafErrors(at) == IF isDigest(r["merkle.leaves"][at]) THEN {}
                             ELSE {<<"HASH_MALFORMED", "merkle.leaves", at>>}
           leaves == UNION {LeafErrors(at) : at \in DOMAIN r["merkle.leaves"]}
           list == Within(r["merkle.leaves"], "merkle.leaves", leaves)
           root == Required(r["merkle.root"], isDigest(r["merkle.root"]), "HASH_MALFORMED", "merkle.root", 0)
<1>1. algorithm = {} <=> r["merkle.algorithm"] # Missing /\ right
  <2> HIDE DEF right
  <2>1. (r["version"] \in Supported => right) \in BOOLEAN
    OBVIOUS
  <2> QED
    BY <2>1, RequiredIsEmpty
<1>2. leaves = {} <=> \A at \in DOMAIN r["merkle.leaves"] : r["merkle.leaves"][at] \notin Marks
  <2>1. \A at : LeafErrors(at) = {} <=> r["merkle.leaves"][at] \notin Marks
    BY DEF isDigest, Marks
  <2> HIDE DEF LeafErrors
  <2>2. leaves = {} <=> \A at \in DOMAIN r["merkle.leaves"] : LeafErrors(at) = {}
    OBVIOUS
  <2> QED
    BY <2>1, <2>2
<1>3. list = {} <=> r["merkle.leaves"] \notin {Missing, Garbage} /\ leaves = {}
  BY WithinIsEmpty
<1>4. root = {} <=> r["merkle.root"] \notin Marks
  BY RequiredIsEmpty DEF isDigest, Marks
<1>5. MerkleErrors(r) = Within(r["merkle"], "merkle", algorithm \union list \union root)
  BY DEF MerkleErrors
<1> HIDE DEF algorithm, list, leaves, root
<1>6. MerkleErrors(r) = {} <=> r["merkle"] \notin {Missing, Garbage} /\ algorithm = {} /\ list = {} /\ root = {}
  BY <1>5, WithinIsEmpty
<1> QED
  BY <1>1, <1>2, <1>3, <1>4, <1>6

LEMMA SignatureIsValid ==
  ASSUME NEW r
  PROVE  SignatureErrors(r) = {} <=>
           /\ r["signature"] \notin {Missing, Garbage}
           /\ r["signature.algorithm"] # Missing /\ r["signature.algorithm"] \in SignatureAlgorithms
           /\ r["signature.keyId"] \notin Marks /\ r["signature.signerIdentity"] \notin Marks
           /\ r["signature.value"] \notin Marks /\ Encoding(r["signature.value"]) = r["signature.algorithm"]
           /\ r["signature.timestamp"] \notin Marks /\ isTimestamp(r["signature.timestamp"])
<1> DEFINE known == r["signature.algorithm"] \in SignatureAlgorithms
           fits == r["signature.value"] \notin {Garbage, Blank} /\
                     (known => Encoding(r["signature.value"]) = r["signature.algorithm"])
           algorithm == Required(r["signature.algorithm"], known, "FIELD_TYPE_INVALID",
                                 "signature.algorithm", 0)
           keyId == requireNonEmptyString(r["signature.keyId"], "signature.keyId", 0)
           signer == requireNonEmptyString(r["signature.signerIdentity"], "signature.signerIdentity", 0)
           value == Required(r["signature.value"], fits, "FIELD_TYPE_INVALID", "signature.value", 0)
           time == Required(r["signature.timestamp"], isTimestamp(r["signature.timestamp"]),
                            "TIMESTAMP_MALFORMED", "signature.timestamp", 0)
<1>1. algorithm = {} <=> r["signature.algorithm"] # Missing /\ known
  <2>1. known \in BOOLEAN
    OBVIOUS
  <2> HIDE DEF known
  <2> QED
    BY <2>1, RequiredIsEmpty
<1>2. /\ keyId = {} <=> r["signature.keyId"] \notin Marks
      /\ signer = {} <=> r["signature.signerIdentity"] \notin Marks
  BY NamesAreNoMarks
<1>3. value = {} <=> r["signature.value"] # Missing /\ fits
  <2>1. fits \in BOOLEAN
    OBVIOUS
  <2> HIDE DEF fits
  <2> QED
    BY <2>1, RequiredIsEmpty
<1>4. time = {} <=> r["signature.timestamp"] # Missing /\ isTimestamp(r["signature.timestamp"])
  <2>1. isTimestamp(r["signature.timestamp"]) \in BOOLEAN
    BY DEF isTimestamp, isDigest
  <2> QED
    BY <2>1, RequiredIsEmpty
<1>5. isTimestamp(r["signature.timestamp"]) => r["signature.timestamp"] \notin Marks
  BY DEF isTimestamp, isDigest, Marks
<1>6. SignatureErrors(r) = Within(r["signature"], "signature",
                                  algorithm \union keyId \union signer \union value \union time)
  BY DEF SignatureErrors
<1> HIDE DEF algorithm, keyId, signer, value, time
<1>7. SignatureErrors(r) = {} <=> /\ r["signature"] \notin {Missing, Garbage}
                                  /\ algorithm = {} /\ keyId = {} /\ signer = {} /\ value = {} /\ time = {}
  BY <1>6, WithinIsEmpty
<1> QED
  BY <1>1, <1>2, <1>3, <1>4, <1>5, <1>7 DEF Marks

\* A receipt without errors is one whose fields are as they should be.
LEMMA ValidReceipts ==
  ASSUME NEW r
  PROVE  validateReceiptEnvelope(r) = {} <=> ValidReceipt(r)
<1>1. CASE r \in {Missing, Garbage}
  BY <1>1 DEF validateReceiptEnvelope, ValidReceipt
<1>2. CASE r \notin {Missing, Garbage}
  <2>1. validateReceiptEnvelope(r) = {} <=>
          /\ ProtocolErrors(r) = {} /\ VersionErrors(r) = {} /\ ScalarErrors(r) = {}
          /\ TaskErrors(r) = {} /\ EnvironmentErrors(r) = {} /\ ArtifactListErrors(r) = {}
          /\ MerkleErrors(r) = {} /\ SignatureErrors(r) = {} /\ MetadataErrors(r) = {}
    BY <1>2 DEF validateReceiptEnvelope
  <2>2. MetadataErrors(r) = {} <=> r["metadata"] \notin {Missing, Garbage}
    BY WithinIsEmpty DEF MetadataErrors
  <2>3. CASE r["version"] \in Supported
    BY <1>2, <2>1, <2>2, <2>3, ScalarsAreValid, TaskIsValid, ArtifactListIsValid, MerkleIsValid,
       SignatureIsValid DEF ValidReceipt, ValidHeader
  <2>4. CASE r["version"] \notin Supported
    BY <2>1, <2>4, ScalarsAreValid DEF ValidReceipt, ValidHeader
  <2> QED
    BY <2>3, <2>4
<1> QED
  BY <1>1, <1>2
-----------------------------------------------------------------------------
(***************************************************************************)
(* An accepted receipt whose signature was made for another one says what  *)
(* that one says.                                                          *)
(***************************************************************************)
\* An artifact as JSON can hold it, with the digest of some content.
IsArtifact(item) ==
  /\ item = [path |-> item.path, sha256 |-> item.sha256, sizeBytes |-> item.sizeBytes,
             mimeType |-> item.mimeType]
  /\ \E content : toLowerCase(item.sha256) = <<"sha256", content>>

Objects == {"task", "environment", "merkle", "signature"}

IsFormed(r) ==
  /\ IsReceipt(r) /\ \A path \in Objects : r[path] = "object"
  /\ r["metadata"] \in Values /\ IsList(r["merkle.leaves"])
  /\ IsList(r["artifacts"]) /\ \A at \in 1 .. Len(r["artifacts"]) : IsArtifact(r["artifacts"][at])

LoweredLeaves(leaves) == [at \in DOMAIN leaves |-> toLowerCase(leaves[at])]

\* The fields whose digests may be in capitals.
InEitherCase == {"merkle.leaves", "signature.value"}

LEMMA HashedArtifactsAreArtifacts ==
  ASSUME NEW item, IsHashed(item)
  PROVE  IsArtifact(item)
<1>1. PICK path, content, mimeType :
        item = [path |-> path, sha256 |-> <<"sha256", content>>, sizeBytes |-> <<"bytes", content>>,
                mimeType |-> mimeType]
  BY DEF IsHashed
<1>2. toLowerCase(<<"sha256", content>>) = <<"sha256", content>>
  BY DEF toLowerCase
<1> QED
  BY <1>1, <1>2 DEF IsArtifact

\* What each field of a receipt has to be for the receipt to be formed.
FieldFits(path, value) ==
  /\ path \in Objects => value = "object"
  /\ path = "metadata" => value \in Values
  /\ path = "merkle.leaves" => IsList(value)
  /\ path = "artifacts" => IsList(value) /\ \A at \in 1 .. Len(value) : IsArtifact(value[at])

LEMMA FormedFieldsFit ==
  ASSUME NEW r
  PROVE  IsFormed(r) <=> IsReceipt(r) /\ \A path \in ReceiptFields : FieldFits(path, r[path])
<1>1. Objects \union {"metadata", "merkle.leaves", "artifacts"} \subseteq ReceiptFields
  BY DEF Objects, ReceiptFields, MerkleFields, SignatureFields, TaskFields, EnvironmentFields
<1>2. ASSUME IsFormed(r)
      PROVE  IsReceipt(r) /\ \A path \in ReceiptFields : FieldFits(path, r[path])
  BY <1>2 DEF IsFormed, FieldFits
<1>3. ASSUME IsReceipt(r), \A path \in ReceiptFields : FieldFits(path, r[path])
      PROVE  IsFormed(r)
  <2>1. \A path \in Objects : r[path] = "object"
    BY <1>1, <1>3 DEF FieldFits
  <2>2. r["metadata"] \in Values
    BY <1>1, <1>3 DEF FieldFits
  <2>3. IsList(r["merkle.leaves"])
    BY <1>1, <1>3 DEF FieldFits
  <2>4. IsList(r["artifacts"]) /\ \A at \in 1 .. Len(r["artifacts"]) : IsArtifact(r["artifacts"][at])
    BY <1>1, <1>3 DEF FieldFits
  <2> QED
    BY <1>3, <2>1, <2>2, <2>3, <2>4 DEF IsFormed
<1> QED
  BY <1>2, <1>3

LEMMA FieldNotValid ==
  ASSUME NEW t, ValidReceipt(t)
  PROVE  /\ \A path \in Objects \union {"artifacts", "merkle.leaves", "metadata"} :
              t[path] \notin {Missing, Garbage}
         /\ t["signature.value"] \notin Marks
         /\ \A at \in DOMAIN t["artifacts"] : t["artifacts"][at].sha256 \notin Marks
<1>1. ValidHeader(t)
  BY DEF ValidReceipt
<1>2. \A path \in Objects \union {"artifacts", "merkle.leaves", "metadata"} : t[path] \notin {Missing, Garbage}
  BY <1>1 DEF ValidHeader, Objects
<1>3. t["signature.value"] \notin Marks
  BY DEF ValidReceipt
<1>4. \A at \in DOMAIN t["artifacts"] : t["artifacts"][at].sha256 \notin Marks
  BY DEF ValidReceipt, ValidArtifact
<1> QED
  BY <1>2, <1>3, <1>4

LEMMA SignedIsFormed ==
  ASSUME NEW s, IsSigned(s)
  PROVE  IsFormed(s) /\ AreLeaves(Tree(s).leaves) /\ LoweredLeaves(s["merkle.leaves"]) = s["merkle.leaves"]
<1>1. IsList(s["artifacts"])
  BY DEF IsSigned
<1>2. AreLeaves(Tree(s).leaves)
  BY <1>1, TreesHaveLeaves
<1>3. s["merkle.leaves"] = Tree(s).leaves
  BY DEF IsSigned
<1>4. IsList(s["merkle.leaves"]) /\ \A at \in 1 .. Len(s["merkle.leaves"]) : Lower(s["merkle.leaves"][at])
  BY <1>2, <1>3 DEF AreLeaves, AreDigests
<1>5. LoweredLeaves(s["merkle.leaves"]) = s["merkle.leaves"]
  BY <1>4 DEF LoweredLeaves, IsList, Lower
<1> QED
  BY <1>2, <1>4, <1>5, HashedArtifactsAreArtifacts DEF IsSigned, IsFormed, Objects

LEMMA RootsAreLower ==
  ASSUME NEW leaves, NEW profile, AreLeaves(leaves)
  PROVE  Lower(getRoot(leaves, profile))
<1> DEFINE layer == buildLayers(leaves, profile)
           n == Len(leaves)
<1>1. AreDigests(leaves) /\ n \in Nat /\ n > 0 /\ leaves # <<>>
  BY DEF AreLeaves, AreDigests, IsList
<1>2. AreDigests(layer[n]) /\ Len(layer[n]) > 0
  BY <1>1, LayerShapes
<1>3. Lower(layer[n][1])
  BY <1>2 DEF AreDigests, IsList
<1> QED
  BY <1>1, <1>3 DEF getRoot

LEMMA AcceptedLeaves ==
  ASSUME NEW r, NEW options, Accepted(r, options), IsFormed(r)
  PROVE  /\ AreLeaves(Tree(r).leaves) /\ LoweredLeaves(r["merkle.leaves"]) = Tree(r).leaves
         /\ Tree(r).root = toLowerCase(r["merkle.root"])
<1>1. AreLeaves(Tree(r).leaves)
  BY TreesHaveLeaves DEF IsFormed
<1>2. IsList(Tree(r).leaves) /\ IsList(r["merkle.leaves"])
  BY <1>1 DEF AreLeaves, AreDigests, IsFormed
<1>3. /\ Len(Tree(r).leaves) = Len(r["merkle.leaves"])
      /\ \A at \in DOMAIN Tree(r).leaves : Tree(r).leaves[at] = toLowerCase(r["merkle.leaves"][at])
      /\ Tree(r).root = toLowerCase(r["merkle.root"])
  BY DEF Accepted, LeavesValid, RootValid
<1>4. DOMAIN Tree(r).leaves = 1 .. Len(Tree(r).leaves) /\ DOMAIN r["merkle.leaves"] = 1 .. Len(r["merkle.leaves"])
  BY <1>2 DEF IsList
<1>5. Tree(r).leaves = [m \in 1 .. Len(Tree(r).leaves) |-> Tree(r).leaves[m]]
  BY <1>2 DEF IsList
<1> DEFINE leaves == Tree(r).leaves
<1> HIDE DEF leaves
<1>6. leaves = [m \in 1 .. Len(leaves) |-> toLowerCase(r["merkle.leaves"][m])]
  BY <1>3, <1>4, <1>5 DEF leaves
<1>7. LoweredLeaves(r["merkle.leaves"]) = leaves
  BY <1>3, <1>4, <1>6 DEF LoweredLeaves, leaves
<1> QED
  BY <1>1, <1>3, <1>7 DEF leaves

\* What a signature says of the receipt that it was made for.
LEMMA SignatureValues ==
  ASSUME NEW s, IsSigned(s)
  PROVE  /\ s["signature.algorithm"] \in SignatureAlgorithms
         /\ signingPayload(s) # Throws
         /\ \E material : s["signature.value"] = <<s["signature.algorithm"], material, signingPayload(s)>>
         /\ Lower(s["signature.value"])
<1>1. PICK key : s["signature.value"] = signPayload(signingPayload(s), key, s["signature.algorithm"])
  BY DEF IsSigned
<1> DEFINE selected == decodeSignatureAlgorithm(s["signature.algorithm"])
           material == IF selected = "Ed25519" THEN PublicKey(key) ELSE key
<1>2. selected # Missing /\ signingPayload(s) # Throws /\ s["signature.value"] = <<selected, material, signingPayload(s)>>
  BY <1>1 DEF IsSigned, signPayload
<1>3. s["signature.algorithm"] \in SignatureAlgorithms /\ selected = s["signature.algorithm"]
  BY <1>2 DEF decodeSignatureAlgorithm
<1>4. s["signature.value"][1] # "UPPER"
  BY <1>2, <1>3 DEF SignatureAlgorithms
<1> QED
  BY <1>2, <1>3, <1>4 DEF Lower, toLowerCase

LEMMA PayloadsAgree ==
  ASSUME NEW r, NEW s, NEW options, Accepted(r, options), IsSigned(s),
         toLowerCase(r["signature.value"]) = s["signature.value"]
  PROVE  /\ signingPayload(r) = signingPayload(s)
         /\ r["signature.algorithm"] = s["signature.algorithm"]
         /\ s["signature.value"] = <<s["signature.algorithm"], verifyingKey(options.publicKeyOrSecret, s["signature.algorithm"]), signingPayload(s)>>
         /\ ~Unusable(options.publicKeyOrSecret)
<1> DEFINE mine == verifyingKey(options.publicKeyOrSecret, r["signature.algorithm"])
<1>1. /\ toLowerCase(r["signature.value"]) =
           <<r["signature.algorithm"], mine, signingPayload(r)>>
      /\ ~Unusable(options.publicKeyOrSecret)
  BY DEF Accepted, SignatureValid, verifySignature
<1> HIDE DEF mine
<1>2. PICK material : s["signature.value"] = <<s["signature.algorithm"], material, signingPayload(s)>>
  BY SignatureValues
<1>3. \A a, b, c, d, e, f : <<a, b, c>> = <<d, e, f>> => a = d /\ b = e /\ c = f
  OBVIOUS
<1>4. <<r["signature.algorithm"], mine, signingPayload(r)>> =
        <<s["signature.algorithm"], material, signingPayload(s)>>
  BY <1>1, <1>2
<1>5. /\ r["signature.algorithm"] = s["signature.algorithm"]
      /\ mine = material /\ signingPayload(r) = signingPayload(s)
  BY <1>3, <1>4
<1> QED
  BY <1>1, <1>2, <1>5 DEF mine

Joins(p, q, whole) ==
  /\ Len(whole) = Len(p) + Len(q)
  /\ \A m \in 1 .. Len(p) : whole[m] = p[m]
  /\ \A m \in 1 .. Len(q) : whole[Len(p) + m] = q[m]

LEMMA JoinedLists ==
  ASSUME NEW T
  PROVE  \A p \in Seq(T), q \in Seq(T) : Joins(p, q, p \o q)
BY DEF Joins

LEMMA EqualLists ==
  ASSUME NEW T, NEW p \in Seq(T), NEW q \in Seq(T), Len(p) = Len(q),
         \A m \in 1 .. Len(p) : p[m] = q[m]
  PROVE  p = q
OBVIOUS

LEMMA TextsAgree ==
  ASSUME NEW T, NEW p \in Seq(T), NEW q \in Seq(T), NEW p2 \in Seq(T), NEW q2 \in Seq(T),
         Len(p) = Len(p2), p \o q = p2 \o q2
  PROVE  p = p2 /\ q = q2
<1> DEFINE joined == p \o q
<1>1. Joins(p, q, joined) /\ Joins(p2, q2, joined)
  BY JoinedLists, Zenon
<1> HIDE DEF joined
<1>2. /\ Len(joined) = Len(p) + Len(q) /\ Len(joined) = Len(p2) + Len(q2)
      /\ \A m \in 1 .. Len(p) : joined[m] = p[m]
      /\ \A m \in 1 .. Len(q) : joined[Len(p) + m] = q[m]
      /\ \A m \in 1 .. Len(p2) : joined[m] = p2[m]
      /\ \A m \in 1 .. Len(q2) : joined[Len(p2) + m] = q2[m]
  BY <1>1 DEF Joins
<1>3. Len(p) \in Nat /\ Len(q) \in Nat /\ Len(q2) \in Nat
  OBVIOUS
<1>4. Len(q) = Len(q2)
  BY <1>2, <1>3
<1>5. \A m \in 1 .. Len(p) : p[m] = p2[m]
  BY <1>2
<1>6. \A m \in 1 .. Len(q) : q[m] = q2[m]
  BY <1>2, <1>4
<1> QED
  BY <1>4, <1>5, <1>6, EqualLists

\* The payloads of the two versions differ, and that of version 2.0.0 has all texts in it.
LEMMA PayloadsTell ==
  ASSUME NEW r, NEW s, r["version"] \in Supported, s["version"] \in Supported,
         signingPayload(r) = signingPayload(s), signingPayload(s) # Throws
  PROVE  /\ r["version"] = s["version"] /\ r["merkle.root"] = s["merkle.root"]
         /\ \A path \in {"proofId", "timestamp", "parentOrganization", "task.name"} : r[path] = s[path]
         /\ r["version"] = "2.0.0" =>
              /\ \A path \in {"protocol", "version", "merkle.algorithm", "signature.algorithm",
                              "signature.keyId", "signature.signerIdentity", "signature.timestamp"} :
                   r[path] = s[path]
              /\ metadataHash(r) = metadataHash(s) /\ metadataHash(s) # Throws
<1> DEFINE legacy(x) == <<x["proofId"], x["timestamp"], x["parentOrganization"], x["task.name"]>>
           header(x) == <<x["protocol"], x["version"], x["merkle.algorithm"], x["signature.algorithm"],
                          x["signature.keyId"], x["signature.signerIdentity"], x["signature.timestamp"]>>
           Old(x) == <<"payload", legacy(x), x["merkle.root"]>>
           New(x) == <<"payload", legacy(x) \o header(x), x["merkle.root"], metadataHash(x)>>
<1>1. ASSUME NEW x, x["version"] \in Supported, signingPayload(x) # Throws
      PROVE  /\ x["version"] = "1.0.0" => signingPayload(x) = Old(x)
             /\ x["version"] = "2.0.0" => signingPayload(x) = New(x) /\ metadataHash(x) # Throws
  <2> DEFINE texts == legacy(x) \o header(x)
  <2>1. x["version"] = "1.0.0" => signingPayload(x) = Old(x)
    BY DEF signingPayload
  <2>2. x["version"] = "2.0.0" => signingPayload(x) = CanonicalPayload(texts, x["merkle.root"], metadataHash(x))
    BY DEF signingPayload
  <2> HIDE DEF texts
  <2>3. x["version"] = "2.0.0" =>
          /\ metadataHash(x) # Throws
          /\ signingPayload(x) = <<"payload", texts, x["merkle.root"], metadataHash(x)>>
    BY <1>1, <2>2 DEF CanonicalPayload
  <2> QED
    BY <2>1, <2>3 DEF texts
<1>2. \A x, y : Old(x) # New(y)
  <2>1. \A a, b, c, d, e, f, g : <<a, b, c>> # <<d, e, f, g>>
    <3>1. \A a, b, c, d, e, f, g : Len(<<a, b, c>>) = 3 /\ Len(<<d, e, f, g>>) = 4
      OBVIOUS
    <3> QED
      BY <3>1
  <2> HIDE DEF legacy, header
  <2> QED
    BY <2>1
<1>3. r["version"] \in {"1.0.0", "2.0.0"} /\ s["version"] \in {"1.0.0", "2.0.0"}
  BY DEF Supported
<1> HIDE DEF Old, New
<1>4. r["version"] = s["version"]
  BY <1>1, <1>2, <1>3
<1>5. CASE r["version"] = "1.0.0"
  <2>1. Old(r) = Old(s)
    BY <1>1, <1>4, <1>5
  <2>2. legacy(r) = legacy(s) /\ r["merkle.root"] = s["merkle.root"]
    <3> HIDE DEF legacy
    <3> QED
      BY <2>1 DEF Old
  <2> QED
    BY <1>4, <1>5, <2>2
<1>6. CASE r["version"] = "2.0.0"
  <2>1. New(r) = New(s) /\ metadataHash(s) # Throws
    BY <1>1, <1>4, <1>6
  <2>2. /\ legacy(r) \o header(r) = legacy(s) \o header(s)
        /\ r["merkle.root"] = s["merkle.root"] /\ metadataHash(r) = metadataHash(s)
    <3> HIDE DEF legacy, header
    <3> QED
      BY <2>1 DEF New
  <2> DEFINE T == {legacy(r)[m] : m \in 1 .. 4} \union {legacy(s)[m] : m \in 1 .. 4}
                    \union {header(r)[m] : m \in 1 .. 7} \union {header(s)[m] : m \in 1 .. 7}
  <2>3. Len(legacy(r)) = 4 /\ Len(legacy(s)) = 4
    OBVIOUS
  <2>4. legacy(r) \in Seq(T) /\ legacy(s) \in Seq(T)
    <3>1. \A m \in 1 .. 4 : legacy(r)[m] \in T /\ legacy(s)[m] \in T
      OBVIOUS
    <3> HIDE DEF T
    <3> QED
      BY <3>1
  <2>5. header(r) \in Seq(T) /\ header(s) \in Seq(T)
    <3>1. \A m \in 1 .. 7 : header(r)[m] \in T /\ header(s)[m] \in T
      OBVIOUS
    <3> HIDE DEF T
    <3> QED
      BY <3>1
  <2>6. legacy(r) = legacy(s) /\ header(r) = header(s)
    <3>1. \A a \in Seq(T), b \in Seq(T), c \in Seq(T), d \in Seq(T) :
            Len(a) = Len(c) /\ a \o b = c \o d => a = c /\ b = d
      BY TextsAgree, Zenon
    <3> HIDE DEF legacy, header, T
    <3> QED
      BY <2>2, <2>3, <2>4, <2>5, <3>1, Zenon
  <2>7. \A path \in {"proofId", "timestamp", "parentOrganization", "task.name"} : r[path] = s[path]
    BY <2>6
  <2>8. \A path \in {"protocol", "version", "merkle.algorithm", "signature.algorithm",
                     "signature.keyId", "signature.signerIdentity", "signature.timestamp"} : r[path] = s[path]
    BY <2>6
  <2> QED
    BY <1>4, <2>1, <2>2, <2>7, <2>8
<1> QED
  BY <1>3, <1>5, <1>6

LEMMA HashesTell ==
  ASSUME NEW kind, NEW texts, NEW data, NEW profile, ObjectHash(kind, texts, data, profile) # Throws
  PROVE  /\ ObjectHash(kind, texts, data, profile) = <<"sha256", kind, texts, data>>
         /\ Lower(ObjectHash(kind, texts, data, profile))
<1>1. ObjectHash(kind, texts, data, profile) = <<"sha256", kind, texts, data>>
  BY DEF ObjectHash
<1>2. Lower(<<"sha256", kind, texts, data>>)
  BY DEF Lower, toLowerCase
<1> QED
  BY <1>1, <1>2

LEMMA EqualObjects ==
  ASSUME NEW kind, NEW texts, NEW data, NEW kind2, NEW texts2, NEW data2, NEW profile, NEW profile2,
         ObjectHash(kind, texts, data, profile) # Throws,
         ObjectHash(kind, texts, data, profile) = ObjectHash(kind2, texts2, data2, profile2)
  PROVE  kind = kind2 /\ texts = texts2 /\ data = data2
<1>1. <<"sha256", kind, texts, data>> = <<"sha256", kind2, texts2, data2>>
  BY HashesTell
<1> QED
  BY <1>1

LEMMA EqualLeaves ==
  ASSUME NEW x, NEW y, hashLeaf(x) = hashLeaf(y)
  PROVE  toLowerCase(x) = toLowerCase(y)
BY DEF hashLeaf

\* The leaves of two trees with the same hashes.
LEMMA ItemsOfTrees ==
  ASSUME NEW r, IsFormed(r), ~AnyThrows(receiptLeaves(r))
  PROVE  LET leaves == receiptLeaves(r)
         IN  \A m \in 1 .. Len(leaves) :
               leaves[m] # Throws /\ m \in 1 .. Len(Tree(r).leaves) /\ Tree(r).leaves[m] = hashLeaf(leaves[m])
<1> DEFINE leaves == receiptLeaves(r)
<1>1. /\ IsList(leaves) /\ Tree(r).leaves = [m \in 1 .. Len(leaves) |-> hashLeaf(leaves[m])]
      /\ Len(Tree(r).leaves) = Len(leaves)
  BY LeavesOfReceipts DEF IsFormed
<1>2. ASSUME NEW m \in 1 .. Len(leaves)
      PROVE  leaves[m] # Throws
  <2>1. DOMAIN leaves = 1 .. Len(leaves)
    BY <1>1 DEF IsList
  <2> QED
    BY <1>2, <2>1 DEF AnyThrows
<1> QED
  BY <1>1, <1>2

\* In version 2.0.0 equal roots mean equal tasks, environments and artifacts.
LEMMA TreesTell ==
  ASSUME NEW r, NEW s, IsFormed(r), IsFormed(s), r["version"] = "2.0.0", s["version"] = "2.0.0",
         ~AnyThrows(receiptLeaves(r)), ~AnyThrows(receiptLeaves(s)),
         Tree(r).root = Tree(s).root
  PROVE  /\ Tree(r).leaves = Tree(s).leaves
         /\ \A path \in {"task.name", "task.status", "environment.platform", "environment.arch",
                         "environment.runtime", "artifacts"} : r[path] = s[path]
<1> DEFINE lr == receiptLeaves(r)
           ls == receiptLeaves(s)
<1>1. Tree(r).leaves = Tree(s).leaves
  <2>1. profilesFor(r["version"]).merkle = "rfc6962" /\ profilesFor(s["version"]).merkle = "rfc6962"
    BY DEF profilesFor
  <2>2. getRoot(Tree(r).leaves, "rfc6962") = getRoot(Tree(s).leaves, "rfc6962")
    BY <2>1 DEF Tree, TreeOver
  <2>3. AreLeaves(Tree(r).leaves) /\ AreLeaves(Tree(s).leaves)
    BY TreesHaveLeaves DEF IsFormed
  <2> QED
    BY <2>2, <2>3, RootsDetermineLeaves
<1>2. /\ IsList(lr) /\ Len(lr) = Len(r["artifacts"]) + 2 /\ Len(Tree(r).leaves) = Len(lr)
      /\ IsList(ls) /\ Len(ls) = Len(s["artifacts"]) + 2 /\ Len(Tree(s).leaves) = Len(ls)
      /\ Len(r["artifacts"]) \in Nat /\ Len(s["artifacts"]) \in Nat
  BY LeavesOfReceipts DEF IsFormed, IsList
<1>3. Len(lr) = Len(ls) /\ Len(r["artifacts"]) = Len(s["artifacts"])
  BY <1>1, <1>2
<1>4. \A m \in 1 .. Len(lr) : toLowerCase(lr[m]) = toLowerCase(ls[m]) /\ lr[m] # Throws /\ ls[m] # Throws
  <2>1. \A m \in 1 .. Len(lr) : lr[m] # Throws /\ Tree(r).leaves[m] = hashLeaf(lr[m])
    BY ItemsOfTrees
  <2>2. \A m \in 1 .. Len(ls) : ls[m] # Throws /\ Tree(s).leaves[m] = hashLeaf(ls[m])
    BY ItemsOfTrees
  <2> HIDE DEF lr, ls
  <2>3. \A m \in 1 .. Len(lr) : hashLeaf(lr[m]) = hashLeaf(ls[m])
    BY <1>1, <1>3, <2>1, <2>2
  <2> QED
    BY <1>3, <2>1, <2>2, <2>3, EqualLeaves
<1> DEFINE canonical == profilesFor("2.0.0").canonical
           Task(x) == ObjectHash("task", <<x["task.name"], x["task.status"]>>, << >>, canonical)
           Environment(x) ==
             ObjectHash("environment", <<x["environment.platform"], x["environment.arch"],
                                         x["environment.runtime"]>>, << >>, canonical)
           Item(artifact) == ObjectHash("artifact", <<artifact.path, artifact.mimeType>>,
                                        <<artifact.sha256, artifact.sizeBytes>>, "rfc8785")
<1>5. /\ lr[1] = Task(r) /\ ls[1] = Task(s) /\ lr[2] = Environment(r) /\ ls[2] = Environment(s)
      /\ \A at \in 1 .. Len(r["artifacts"]) : lr[at + 2] = ArtifactLeaf(r["artifacts"][at], r["version"])
      /\ \A at \in 1 .. Len(s["artifacts"]) : ls[at + 2] = ArtifactLeaf(s["artifacts"][at], s["version"])
  <2>1. ASSUME NEW x, IsFormed(x), x["version"] = "2.0.0", NEW leaves, leaves = receiptLeaves(x)
        PROVE  /\ leaves[1] = Task(x) /\ leaves[2] = Environment(x)
               /\ \A at \in 1 .. Len(x["artifacts"]) :
                    leaves[at + 2] = ArtifactLeaf(x["artifacts"][at], x["version"])
    <3>1. IsList(x["artifacts"])
      BY <2>1 DEF IsFormed
    <3> QED
      BY <2>1, <3>1, LeavesOfReceipts
  <2> QED
    BY <2>1
<1>6. \A artifact : ArtifactLeaf(artifact, "2.0.0") = Item(artifact)
  BY DEF ArtifactLeaf
<1>7. \A at \in 1 .. Len(r["artifacts"]) : lr[at + 2] = Item(r["artifacts"][at]) /\ ls[at + 2] = Item(s["artifacts"][at])
  <2> HIDE DEF lr, ls, Item
  <2> QED
    BY <1>3, <1>5, <1>6
<1>8. 1 \in 1 .. Len(lr) /\ 2 \in 1 .. Len(lr) /\ \A at \in 1 .. Len(r["artifacts"]) : at + 2 \in 1 .. Len(lr)
  BY <1>2
<1> HIDE DEF lr, ls, canonical
<1>9. r["task.name"] = s["task.name"] /\ r["task.status"] = s["task.status"]
  <2>1. Task(r) = Task(s) /\ Task(r) # Throws
    <3>1. Task(r) # Throws /\ Task(s) # Throws /\ toLowerCase(Task(r)) = toLowerCase(Task(s))
      <4> HIDE DEF Task
      <4> QED
        BY <1>4, <1>5, <1>8
    <3>2. Lower(Task(r)) /\ Lower(Task(s))
      BY <3>1, HashesTell
    <3> QED
      BY <3>1, <3>2 DEF Lower
  <2>2. <<r["task.name"], r["task.status"]>> = <<s["task.name"], s["task.status"]>>
    BY <2>1, EqualObjects
  <2> QED
    BY <2>2
<1>10. /\ r["environment.platform"] = s["environment.platform"]
       /\ r["environment.arch"] = s["environment.arch"]
       /\ r["environment.runtime"] = s["environment.runtime"]
  <2>1. Environment(r) = Environment(s) /\ Environment(r) # Throws
    <3>1. /\ Environment(r) # Throws /\ Environment(s) # Throws
          /\ toLowerCase(Environment(r)) = toLowerCase(Environment(s))
      <4> HIDE DEF Environment
      <4> QED
        BY <1>4, <1>5, <1>8
    <3>2. Lower(Environment(r)) /\ Lower(Environment(s))
      BY <3>1, HashesTell
    <3> QED
      BY <3>1, <3>2 DEF Lower
  <2>2. <<r["environment.platform"], r["environment.arch"], r["environment.runtime"]>> =
          <<s["environment.platform"], s["environment.arch"], s["environment.runtime"]>>
    BY <2>1, EqualObjects
  <2> QED
    BY <2>2
<1>11. \A at \in 1 .. Len(r["artifacts"]) : r["artifacts"][at] = s["artifacts"][at]
  <2> SUFFICES ASSUME NEW at \in 1 .. Len(r["artifacts"])
               PROVE  r["artifacts"][at] = s["artifacts"][at]
    OBVIOUS
  <2> DEFINE a == r["artifacts"][at]
             b == s["artifacts"][at]
  <2>1. Item(a) # Throws /\ Item(b) # Throws /\ toLowerCase(Item(a)) = toLowerCase(Item(b))
    <3> HIDE DEF Item
    <3> QED
      BY <1>4, <1>7, <1>8
  <2>2. IsArtifact(a) /\ IsArtifact(b)
    BY <1>3 DEF IsFormed
  <2> HIDE DEF a, b
  <2>3. Lower(Item(a)) /\ Lower(Item(b))
    BY <2>1, HashesTell
  <2>4. Item(a) = Item(b)
    <3> HIDE DEF Item
    <3> QED
      BY <2>1, <2>3 DEF Lower
  <2>5. <<a.path, a.mimeType>> = <<b.path, b.mimeType>> /\ <<a.sha256, a.sizeBytes>> = <<b.sha256, b.sizeBytes>>
    BY <2>1, <2>4, EqualObjects
  <2>6. a.path = b.path /\ a.mimeType = b.mimeType /\ a.sha256 = b.sha256 /\ a.sizeBytes = b.sizeBytes
    BY <2>5
  <2>7. a = b
    BY <2>2, <2>6 DEF IsArtifact
  <2> QED
    BY <2>7 DEF a, b
<1>12. r["artifacts"] = s["artifacts"]
  <2>1. IsList(r["artifacts"]) /\ IsList(s["artifacts"])
    BY DEF IsFormed
  <2> DEFINE f == r["artifacts"]
             g == s["artifacts"]
  <2>2. f = [m \in 1 .. Len(f) |-> f[m]] /\ g = [m \in 1 .. Len(g) |-> g[m]]
    BY <2>1 DEF IsList
  <2>3. Len(f) = Len(g) /\ \A m \in 1 .. Len(f) : f[m] = g[m]
    BY <1>3, <1>11
  <2> HIDE DEF f, g
  <2>4. f = g
    BY <2>2, <2>3
  <2> QED
    BY <2>4 DEF f, g
<1> QED
  BY <1>1, <1>9, <1>10, <1>12

\* All of a receipt of version 2.0.0 is signed.
LEMMA AcceptedIsSigned ==
  ASSUME NEW r, NEW s, NEW options, Accepted(r, options), IsFormed(r), IsSigned(s),
         toLowerCase(r["signature.value"]) = s["signature.value"], s["version"] = "2.0.0"
  PROVE  /\ \A path \in ReceiptFields \ InEitherCase : r[path] = s[path]
         /\ LoweredLeaves(r["merkle.leaves"]) = s["merkle.leaves"]
<1>1. /\ signingPayload(r) = signingPayload(s) /\ signingPayload(s) # Throws
      /\ r["version"] \in Supported /\ s["version"] \in Supported
  <2>1. signingPayload(r) = signingPayload(s)
    BY PayloadsAgree
  <2>2. signingPayload(s) # Throws
    BY SignatureValues
  <2>3. r["version"] \in Supported /\ s["version"] \in Supported
    BY ValidReceipts DEF Accepted, ValidReceipt, ValidHeader, IsSigned
  <2> QED
    BY <2>1, <2>2, <2>3
<1>2. /\ r["version"] = "2.0.0" /\ r["merkle.root"] = s["merkle.root"]
      /\ \A path \in {"proofId", "timestamp", "parentOrganization", "task.name"} : r[path] = s[path]
      /\ \A path \in {"protocol", "version", "merkle.algorithm", "signature.algorithm",
                      "signature.keyId", "signature.signerIdentity", "signature.timestamp"} :
           r[path] = s[path]
      /\ metadataHash(r) = metadataHash(s) /\ metadataHash(s) # Throws
  BY <1>1, PayloadsTell
<1>3. IsFormed(s) /\ LoweredLeaves(s["merkle.leaves"]) = s["merkle.leaves"] /\ AreLeaves(Tree(s).leaves)
  BY SignedIsFormed
<1>4. LoweredLeaves(r["merkle.leaves"]) = Tree(r).leaves /\ Tree(r).root = toLowerCase(r["merkle.root"])
  BY AcceptedLeaves
<1>5. s["merkle.root"] = Tree(s).root /\ s["merkle.leaves"] = Tree(s).leaves /\ ~AnyThrows(receiptLeaves(s))
  BY DEF IsSigned
<1>6. Tree(r).root = Tree(s).root
  <2>1. Lower(Tree(s).root)
    BY <1>3, RootsAreLower DEF Tree, TreeOver
  <2> QED
    BY <1>2, <1>4, <1>5, <2>1 DEF Lower
<1>7. ~AnyThrows(receiptLeaves(r))
  BY DEF Accepted
<1>8. /\ Tree(r).leaves = Tree(s).leaves
      /\ \A path \in {"task.name", "task.status", "environment.platform", "environment.arch",
                      "environment.runtime", "artifacts"} : r[path] = s[path]
  BY <1>2, <1>3, <1>5, <1>6, <1>7, TreesTell
<1>9. r["metadata"] = s["metadata"] /\ r["metadata.signalProfile"] = s["metadata.signalProfile"]
  <2> DEFINE form(x) == canonicalizeRfc8785[x["metadata"]]
  <2>1. ASSUME NEW x, x["version"] = "2.0.0", metadataHash(x) # Throws
        PROVE  /\ form(x) # Throws
               /\ metadataHash(x) = <<"sha256", "metadata", form(x), x["metadata.signalProfile"]>>
    BY <2>1 DEF metadataHash, profilesFor, canonicalize
  <2> HIDE DEF form
  <2>2. form(s) # Throws /\ <<"sha256", "metadata", form(r), r["metadata.signalProfile"]>> =
                              <<"sha256", "metadata", form(s), s["metadata.signalProfile"]>>
    BY <1>2, <2>1
  <2>3. form(r) = form(s) /\ r["metadata.signalProfile"] = s["metadata.signalProfile"]
    BY <2>2
  <2>4. r["metadata"] \in Values /\ s["metadata"] \in Values
    BY <1>3 DEF IsFormed
  <2> QED
    BY <2>2, <2>3, <2>4, FormsAreOfOneValue DEF form
<1>10. \A path \in Objects : r[path] = s[path]
  BY <1>3 DEF IsFormed
<1>11. ReceiptFields \ InEitherCase =
         Objects \union {"merkle.root", "metadata", "metadata.signalProfile"}
           \union {"proofId", "timestamp", "parentOrganization", "task.name"}
           \union {"protocol", "version", "merkle.algorithm", "signature.algorithm",
                   "signature.keyId", "signature.signerIdentity", "signature.timestamp"}
           \union {"task.name", "task.status", "environment.platform", "environment.arch",
                   "environment.runtime", "artifacts"}
  BY DEF InEitherCase, Objects, ReceiptFields, Scalars, TaskFields, EnvironmentFields, MerkleFields,
         SignatureFields
<1>12. \A path \in ReceiptFields \ InEitherCase : r[path] = s[path]
  BY <1>2, <1>8, <1>9, <1>10, <1>11
<1> QED
  BY <1>4, <1>5, <1>8, <1>12

LoweredDigests(r) == {toLowerCase(r["artifacts"][at].sha256) : at \in DOMAIN r["artifacts"]}

\* The leaves of a receipt of version 1.0.0.
LEMMA LegacyLeaves ==
  ASSUME NEW x, IsFormed(x), x["version"] = "1.0.0", ~AnyThrows(receiptLeaves(x)),
         NEW leaves, leaves = receiptLeaves(x)
  PROVE  /\ Len(x["artifacts"]) \in Nat /\ Len(leaves) = Len(x["artifacts"]) + 2
         /\ toLowerCase(leaves[1]) = <<"sha256", "task", <<x["task.name"], x["task.status"]>>, << >>>>
         /\ toLowerCase(leaves[2]) =
              <<"sha256", "environment", <<x["environment.platform"], x["environment.arch"],
                                           x["environment.runtime"]>>, << >>>>
         /\ \A at \in 1 .. Len(x["artifacts"]) :
              /\ leaves[at + 2] = x["artifacts"][at].sha256
              /\ \E content : toLowerCase(leaves[at + 2]) = <<"sha256", content>>
<1> DEFINE canonical == profilesFor(x["version"]).canonical
           task == <<x["task.name"], x["task.status"]>>
           environment == <<x["environment.platform"], x["environment.arch"], x["environment.runtime"]>>
<1>1. IsList(x["artifacts"]) /\ Len(x["artifacts"]) \in Nat
  BY DEF IsFormed, IsList
<1>2. /\ IsList(leaves) /\ Len(leaves) = Len(x["artifacts"]) + 2
      /\ \A at \in 1 .. Len(x["artifacts"]) : leaves[at + 2] = ArtifactLeaf(x["artifacts"][at], x["version"])
      /\ leaves[1] = ObjectHash("task", task, << >>, canonical)
      /\ leaves[2] = ObjectHash("environment", environment, << >>, canonical)
  BY <1>1, LeavesOfReceipts
<1> HIDE DEF task, environment, canonical
<1>3. leaves[1] # Throws /\ leaves[2] # Throws
  <2>1. 1 \in DOMAIN leaves /\ 2 \in DOMAIN leaves
    BY <1>1, <1>2 DEF IsList
  <2> QED
    BY <2>1 DEF AnyThrows
<1>4. /\ toLowerCase(leaves[1]) = <<"sha256", "task", task, << >>>>
      /\ toLowerCase(leaves[2]) = <<"sha256", "environment", environment, << >>>>
  BY <1>2, <1>3, HashesTell DEF Lower
<1>5. \A at \in 1 .. Len(x["artifacts"]) : leaves[at + 2] = x["artifacts"][at].sha256
  BY <1>2 DEF ArtifactLeaf
<1>6. \A at \in 1 .. Len(x["artifacts"]) : \E content : toLowerCase(leaves[at + 2]) = <<"sha256", content>>
  BY <1>5 DEF IsFormed, IsArtifact
<1> QED
  BY <1>1, <1>2, <1>4, <1>5, <1>6 DEF task, environment

IsPair(x) == \E content : x = <<"sha256", content>>

LEMMA ObjectsAreNoPairs ==
  ASSUME NEW a, NEW b, NEW c, NEW d
  PROVE  ~IsPair(<<a, b, c, d>>)
<1> SUFFICES ASSUME NEW content, <<a, b, c, d>> = <<"sha256", content>> PROVE FALSE
  BY DEF IsPair
<1>1. Len(<<a, b, c, d>>) = 4 /\ Len(<<"sha256", content>>) = 2
  OBVIOUS
<1> QED
  BY <1>1

\* With equal roots, what is hashed in one tree is hashed in the other.
LEMMA LegacyTreesTell ==
  ASSUME NEW r, NEW s, IsFormed(r), IsFormed(s), r["version"] = "1.0.0", s["version"] = "1.0.0",
         ~AnyThrows(receiptLeaves(r)), ~AnyThrows(receiptLeaves(s)),
         Tree(r).root = Tree(s).root
  PROVE  /\ \A path \in {"task.name", "task.status", "environment.platform", "environment.arch",
                         "environment.runtime"} : r[path] = s[path]
         /\ LoweredDigests(r) \subseteq LoweredDigests(s)
<1> DEFINE lr == receiptLeaves(r)
           ls == receiptLeaves(s)
           n == Len(r["artifacts"])
           q == Len(s["artifacts"])
<1>1. \A m \in 1 .. Len(lr) : \E k \in 1 .. Len(ls) : toLowerCase(lr[m]) = toLowerCase(ls[k])
  <2>1. profilesFor(r["version"]).merkle = "legacy-duplicated" /\ profilesFor(s["version"]).merkle = "legacy-duplicated"
    BY DEF profilesFor
  <2>2. getRoot(Tree(r).leaves, "legacy-duplicated") = getRoot(Tree(s).leaves, "legacy-duplicated")
    BY <2>1 DEF Tree, TreeOver
  <2>3. AreLeaves(Tree(r).leaves) /\ AreLeaves(Tree(s).leaves)
    BY TreesHaveLeaves DEF IsFormed
  <2>4. \A m \in 1 .. Len(Tree(r).leaves) : \E k \in 1 .. Len(Tree(s).leaves) :
          Tree(r).leaves[m] = Tree(s).leaves[k]
    <3> DEFINE leaves == Tree(r).leaves
               others == Tree(s).leaves
    <3>1. /\ AreLeaves(leaves) /\ AreLeaves(others)
          /\ getRoot(leaves, "legacy-duplicated") = getRoot(others, "legacy-duplicated")
      BY <2>2, <2>3
    <3> HIDE DEF leaves, others
    <3>2. \A m \in 1 .. Len(leaves) : \E k \in 1 .. Len(others) : leaves[m] = others[k]
      BY <3>1, RootsAreOfTheirLeaves
    <3> QED
      BY <3>2 DEF leaves, others
  <2>5. \A m \in 1 .. Len(lr) : m \in 1 .. Len(Tree(r).leaves) /\ Tree(r).leaves[m] = hashLeaf(lr[m])
    BY ItemsOfTrees
  <2>6. \A m \in 1 .. Len(ls) : Tree(s).leaves[m] = hashLeaf(ls[m])
    BY ItemsOfTrees
  <2>7. Len(Tree(s).leaves) = Len(ls)
    BY LeavesOfReceipts DEF IsFormed
  <2> HIDE DEF lr, ls
  <2>8. ASSUME NEW m \in 1 .. Len(lr)
        PROVE  \E k \in 1 .. Len(ls) : hashLeaf(lr[m]) = hashLeaf(ls[k])
    <3>2. PICK k \in 1 .. Len(ls) : Tree(r).leaves[m] = Tree(s).leaves[k]
      BY <2>4, <2>5, <2>7, <2>8
    <3> QED
      BY <2>5, <2>6, <2>8, <3>2
  <2> QED
    BY <2>8, EqualLeaves
<1> DEFINE Task(x) == <<x["task.name"], x["task.status"]>>
           Environment(x) == <<x["environment.platform"], x["environment.arch"], x["environment.runtime"]>>
<1>2. /\ n \in Nat /\ Len(lr) = n + 2
      /\ toLowerCase(lr[1]) = <<"sha256", "task", Task(r), << >>>>
      /\ toLowerCase(lr[2]) = <<"sha256", "environment", Environment(r), << >>>>
      /\ \A at \in 1 .. n : /\ lr[at + 2] = r["artifacts"][at].sha256
                            /\ \E content : toLowerCase(lr[at + 2]) = <<"sha256", content>>
  BY LegacyLeaves
<1>3. /\ q \in Nat /\ Len(ls) = q + 2
      /\ toLowerCase(ls[1]) = <<"sha256", "task", Task(s), << >>>>
      /\ toLowerCase(ls[2]) = <<"sha256", "environment", Environment(s), << >>>>
      /\ \A at \in 1 .. q : /\ ls[at + 2] = s["artifacts"][at].sha256
                            /\ \E content : toLowerCase(ls[at + 2]) = <<"sha256", content>>
  BY LegacyLeaves
<1>4. /\ ~IsPair(toLowerCase(lr[1])) /\ ~IsPair(toLowerCase(lr[2]))
      /\ ~IsPair(toLowerCase(ls[1])) /\ ~IsPair(toLowerCase(ls[2]))
      /\ \A at \in 1 .. n : IsPair(toLowerCase(lr[at + 2]))
      /\ \A at \in 1 .. q : IsPair(toLowerCase(ls[at + 2]))
  <2> HIDE DEF lr, ls, Task, Environment, n, q
  <2>1. /\ ~IsPair(toLowerCase(lr[1])) /\ ~IsPair(toLowerCase(lr[2]))
        /\ ~IsPair(toLowerCase(ls[1])) /\ ~IsPair(toLowerCase(ls[2]))
    BY <1>2, <1>3, ObjectsAreNoPairs
  <2>2. /\ \A at \in 1 .. n : IsPair(toLowerCase(lr[at + 2]))
        /\ \A at \in 1 .. q : IsPair(toLowerCase(ls[at + 2]))
    BY <1>2, <1>3 DEF IsPair
  <2> QED
    BY <2>1, <2>2
<1>5. \A k \in 1 .. Len(ls) : k = 1 \/ k = 2 \/ \E at \in 1 .. q : k = at + 2
  <2> SUFFICES ASSUME NEW k \in 1 .. Len(ls), k # 1, k # 2 PROVE k - 2 \in 1 .. q /\ k = (k - 2) + 2
    OBVIOUS
  <2> QED
    BY <1>3
<1>6. 1 \in 1 .. Len(lr) /\ 2 \in 1 .. Len(lr) /\ \A at \in 1 .. n : at + 2 \in 1 .. Len(lr)
  BY <1>2
<1> HIDE DEF lr, ls, Task, Environment
<1>13. ASSUME NEW k \in 1 .. Len(ls)
       PROVE  (k = 1 \/ k = 2) <=> ~IsPair(toLowerCase(ls[k]))
  <2>1. k = 1 \/ k = 2 => ~IsPair(toLowerCase(ls[k]))
    BY <1>4
  <2>2. ASSUME NEW at \in 1 .. q, k = at + 2
        PROVE  IsPair(toLowerCase(ls[k])) /\ k # 1 /\ k # 2
    BY <1>4, <2>2
  <2> HIDE DEF q
  <2> QED
    BY <1>5, <2>1, <2>2
<1>7. Task(r) = Task(s)
  <2>1. PICK k \in 1 .. Len(ls) : <<"sha256", "task", Task(r), << >>>> = toLowerCase(ls[k])
    BY <1>1, <1>2, <1>6
  <2>2. k = 1
    <3>1. k # 2
      BY <1>3, <2>1
    <3>2. ~IsPair(toLowerCase(ls[k]))
      BY <1>2, <1>4, <2>1
    <3> QED
      BY <1>13, <3>1, <3>2
  <2> QED
    BY <1>3, <2>1, <2>2
<1>8. Environment(r) = Environment(s)
  <2>1. PICK k \in 1 .. Len(ls) : <<"sha256", "environment", Environment(r), << >>>> = toLowerCase(ls[k])
    BY <1>1, <1>2, <1>6
  <2>2. k = 2
    <3>1. k # 1
      BY <1>3, <2>1
    <3>2. ~IsPair(toLowerCase(ls[k]))
      BY <1>2, <1>4, <2>1
    <3> QED
      BY <1>13, <3>1, <3>2
  <2> QED
    BY <1>3, <2>1, <2>2
<1>9. DOMAIN r["artifacts"] = 1 .. n /\ DOMAIN s["artifacts"] = 1 .. q
  BY DEF IsFormed, IsList
<1>10. ASSUME NEW at \in 1 .. n
       PROVE  \E to \in 1 .. q : toLowerCase(r["artifacts"][at].sha256) = toLowerCase(s["artifacts"][to].sha256)
  <2>1. PICK k \in 1 .. Len(ls) : toLowerCase(lr[at + 2]) = toLowerCase(ls[k])
    BY <1>1, <1>6
  <2>2. IsPair(toLowerCase(ls[k]))
    BY <1>4, <2>1
  <2>3. k # 1 /\ k # 2
    BY <1>13, <2>2
  <2>4. PICK to \in 1 .. q : k = to + 2
    BY <1>5, <2>3
  <2> QED
    BY <1>2, <1>3, <2>1, <2>4
<1>11. LoweredDigests(r) \subseteq LoweredDigests(s)
  BY <1>9, <1>10 DEF LoweredDigests
<1>12. /\ r["task.name"] = s["task.name"] /\ r["task.status"] = s["task.status"]
       /\ r["environment.platform"] = s["environment.platform"]
       /\ r["environment.arch"] = s["environment.arch"]
       /\ r["environment.runtime"] = s["environment.runtime"]
  BY <1>7, <1>8 DEF Task, Environment
<1> QED
  BY <1>11, <1>12

\* What is left of a receipt of version 1.0.0.
LEMMA LegacyAcceptedIsSigned ==
  ASSUME NEW r, NEW s, NEW options, Accepted(r, options), IsFormed(r), IsSigned(s),
         toLowerCase(r["signature.value"]) = s["signature.value"], s["version"] = "1.0.0"
  PROVE  /\ \A path \in Scalars \union TaskFields \union EnvironmentFields \union {"merkle.root"} :
              r[path] = s[path]
         /\ LoweredDigests(r) = LoweredDigests(s)
<1>1. /\ signingPayload(r) = signingPayload(s) /\ signingPayload(s) # Throws
      /\ r["version"] \in Supported /\ s["version"] \in Supported
      /\ r["protocol"] = s["protocol"]
  <2>1. signingPayload(r) = signingPayload(s)
    BY PayloadsAgree
  <2>2. signingPayload(s) # Throws
    BY SignatureValues
  <2>3. /\ r["version"] \in Supported /\ s["version"] \in Supported
        /\ r["protocol"] = "nymrel-proof-ledger" /\ s["protocol"] = "nymrel-proof-ledger"
    BY ValidReceipts DEF Accepted, ValidReceipt, ValidHeader, IsSigned
  <2> QED
    BY <2>1, <2>2, <2>3
<1>2. /\ r["version"] = s["version"] /\ r["merkle.root"] = s["merkle.root"]
      /\ \A path \in {"proofId", "timestamp", "parentOrganization", "task.name"} : r[path] = s[path]
  BY <1>1, PayloadsTell
<1>3. IsFormed(s) /\ AreLeaves(Tree(s).leaves)
  BY SignedIsFormed
<1>4. Tree(r).root = toLowerCase(r["merkle.root"])
  BY AcceptedLeaves
<1>5. s["merkle.root"] = Tree(s).root /\ ~AnyThrows(receiptLeaves(s)) /\ ~AnyThrows(receiptLeaves(r))
  BY DEF IsSigned, Accepted
<1>6. Tree(r).root = Tree(s).root
  <2>1. Lower(Tree(s).root)
    BY <1>3, RootsAreLower DEF Tree, TreeOver
  <2> QED
    BY <1>2, <1>4, <1>5, <2>1 DEF Lower
<1>7. /\ \A path \in {"task.name", "task.status", "environment.platform", "environment.arch",
                      "environment.runtime"} : r[path] = s[path]
      /\ LoweredDigests(r) \subseteq LoweredDigests(s)
  BY <1>2, <1>3, <1>5, <1>6, LegacyTreesTell
<1>8. LoweredDigests(s) \subseteq LoweredDigests(r)
  BY <1>2, <1>3, <1>5, <1>6, LegacyTreesTell
<1>9. \A path \in Objects : r[path] = s[path]
  BY <1>3 DEF IsFormed
<1>10. Scalars \union TaskFields \union EnvironmentFields \union {"merkle.root"} \subseteq
         Objects \union {"protocol", "version", "merkle.root"}
           \union {"proofId", "timestamp", "parentOrganization", "task.name"}
           \union {"task.name", "task.status", "environment.platform", "environment.arch",
                   "environment.runtime"}
  BY DEF Objects, Scalars, TaskFields, EnvironmentFields
<1> QED
  BY <1>1, <1>2, <1>7, <1>8, <1>9, <1>10
-----------------------------------------------------------------------------
(***************************************************************************)
(* What was signed is accepted with the key with which a changed copy is.  *)
(***************************************************************************)
\* The texts that the program itself writes into a receipt.
Texts ==
  {"object", "nymrel-proof-ledger", "1.0.0", "2.0.0", "prf_1", "prf_2", "prf_3", "a time", "a later time",
   "Nymrel", "linux", "x64", "node", "SHA-256", "RFC6962-SHA256", "HMAC-SHA256", "Ed25519"}

\* The marks are neither texts that the program writes nor objects or lists, which are functions.
MarksStandApart ==
  \A x : x \in Texts \/ x = [m \in DOMAIN x |-> x[m]] => x \notin Marks /\ x # Throws

LEMMA ValuesStandApart ==
  ASSUME MarksStandApart
  PROVE  \A x : x \in Texts \/ IsList(x) \/ IsReceipt(x) \/ IsHashed(x) \/ x \in Values =>
                 x \notin Marks /\ x # Throws
<1>1. \A x : IsList(x) => x = [m \in DOMAIN x |-> x[m]]
  BY DEF IsList
<1>2. \A x : IsReceipt(x) => x = [m \in DOMAIN x |-> x[m]]
  BY DEF IsReceipt
<1>3. \A x : IsHashed(x) => x = [m \in DOMAIN x |-> x[m]]
  BY DEF IsHashed
<1>4. \A x \in Values : x = [m \in DOMAIN x |-> x[m]]
  <2> SUFFICES ASSUME NEW x \in Values PROVE x = [m \in DOMAIN x |-> x[m]]
    OBVIOUS
  <2>1. \A a, b, c, d : LET r == [type |-> a, value |-> b, members |-> c, own |-> d]
                        IN  r = [m \in DOMAIN r |-> r[m]]
    OBVIOUS
  <2>2. x = [type |-> x.type, value |-> x.value,
             members |-> [m \in DOMAIN x.members |-> x.members[m]], own |-> x.own]
    BY ValuesAssumption
  <2> QED
    BY <2>1, <2>2
<1> QED
  BY <1>1, <1>2, <1>3, <1>4 DEF MarksStandApart

LEMMA TuplesAreLists ==
  ASSUME NEW a, NEW b, NEW c, NEW d
  PROVE  IsList(<<a, b>>) /\ IsList(<<a, b, c>>) /\ IsList(<<a, b, c, d>>)
<1>1. Len(<<a, b>>) = 2 /\ <<a, b>> = [m \in 1 .. 2 |-> <<a, b>>[m]]
  OBVIOUS
<1>2. Len(<<a, b, c>>) = 3 /\ <<a, b, c>> = [m \in 1 .. 3 |-> <<a, b, c>>[m]]
  OBVIOUS
<1>3. Len(<<a, b, c, d>>) = 4 /\ <<a, b, c, d>> = [m \in 1 .. 4 |-> <<a, b, c, d>>[m]]
  OBVIOUS
<1> QED
  BY <1>1, <1>2, <1>3 DEF IsList

LEMMA SignedIsValid ==
  ASSUME MarksStandApart, NEW r, NEW s, NEW options, Accepted(r, options), IsFormed(r), IsSigned(s),
         toLowerCase(r["signature.value"]) = s["signature.value"], s["version"] = "2.0.0"
  PROVE  ValidReceipt(s)
<1>1. ValidReceipt(r)
  BY ValidReceipts DEF Accepted
<1>2. \A path \in ReceiptFields \ InEitherCase : r[path] = s[path]
  BY AcceptedIsSigned
<1>3. /\ r["protocol"] = s["protocol"] /\ r["version"] = s["version"]
      /\ r["timestamp"] = s["timestamp"] /\ r["signature.timestamp"] = s["signature.timestamp"]
      /\ r["merkle.algorithm"] = s["merkle.algorithm"] /\ r["merkle.root"] = s["merkle.root"]
      /\ r["signature.algorithm"] = s["signature.algorithm"] /\ r["artifacts"] = s["artifacts"]
      /\ \A path \in {"proofId", "parentOrganization", "task.name", "environment.platform",
                      "environment.arch", "environment.runtime", "signature.keyId",
                      "signature.signerIdentity"} : r[path] = s[path]
      /\ \A path \in {"task", "environment", "merkle", "signature", "artifacts", "metadata"} : r[path] = s[path]
  <2>1. /\ {"protocol", "version", "timestamp", "signature.timestamp", "merkle.algorithm", "merkle.root",
            "signature.algorithm", "artifacts"} \subseteq ReceiptFields \ InEitherCase
        /\ {"proofId", "parentOrganization", "task.name", "environment.platform",
            "environment.arch", "environment.runtime", "signature.keyId",
            "signature.signerIdentity"} \subseteq ReceiptFields \ InEitherCase
        /\ {"task", "environment", "merkle", "signature", "artifacts", "metadata"}
             \subseteq ReceiptFields \ InEitherCase
    BY DEF InEitherCase, ReceiptFields, Scalars, TaskFields, EnvironmentFields, MerkleFields,
           SignatureFields
  <2> QED
    BY <1>2, <2>1
<1>4. IsFormed(s) /\ AreLeaves(Tree(s).leaves) /\ s["merkle.leaves"] = Tree(s).leaves
  BY SignedIsFormed DEF IsSigned
<1>5. s \notin Marks /\ s["merkle.leaves"] \notin Marks
  BY <1>4, ValuesStandApart DEF IsFormed
<1>6. \A at \in DOMAIN s["merkle.leaves"] : s["merkle.leaves"][at] \notin Marks
  <2> DEFINE leaves == receiptLeaves(s)
  <2>1. s["merkle.leaves"] = [m \in 1 .. Len(leaves) |-> hashLeaf(leaves[m])]
    BY <1>4, LeavesOfReceipts DEF IsFormed
  <2>2. \A x : IsList(hashLeaf(x))
    BY TuplesAreLists DEF hashLeaf
  <2> HIDE DEF leaves
  <2> QED
    BY <2>1, <2>2, ValuesStandApart
<1>7. s["signature.value"] \notin Marks /\ Encoding(s["signature.value"]) = s["signature.algorithm"]
  <2>1. PICK material : s["signature.value"] = <<s["signature.algorithm"], material, signingPayload(s)>>
    BY SignatureValues
  <2>2. s["signature.algorithm"] \in SignatureAlgorithms
    BY SignatureValues
  <2>3. s["signature.value"] \notin Marks
    BY <2>1, TuplesAreLists, ValuesStandApart
  <2> QED
    BY <2>1, <2>2, <2>3 DEF Encoding, SignatureAlgorithms
<1>8. ValidHeader(s)
  <2>1. s["merkle.leaves"] \notin {Missing, Garbage}
    BY <1>5 DEF Marks
  <2>2. ValidHeader(r)
    BY <1>1 DEF ValidReceipt
  <2> QED
    BY <1>3, <2>1, <2>2 DEF ValidHeader
<1>9. s \notin {Missing, Garbage}
  BY <1>5 DEF Marks
<1> QED
  BY <1>1, <1>3, <1>6, <1>7, <1>8, <1>9 DEF ValidReceipt

\* The tree of a receipt that was signed is the one that is computed anew.
LEMMA SignedTreesAreValid ==
  ASSUME NEW s, IsSigned(s)
  PROVE  LeavesValid(s, Tree(s)) /\ RootValid(s, Tree(s))
<1>1. /\ AreLeaves(Tree(s).leaves) /\ s["merkle.leaves"] = Tree(s).leaves
      /\ s["merkle.root"] = Tree(s).root
  BY SignedIsFormed DEF IsSigned
<1>2. Lower(Tree(s).root)
  BY <1>1, RootsAreLower DEF Tree, TreeOver
<1>3. \A at \in DOMAIN Tree(s).leaves : Lower(Tree(s).leaves[at])
  BY <1>1 DEF AreLeaves, AreDigests, IsList
<1> QED
  BY <1>1, <1>2, <1>3 DEF LeavesValid, RootValid, Lower

LEMMA SignedIsAccepted ==
  ASSUME MarksStandApart, NEW r, NEW s, NEW options, Accepted(r, options), IsFormed(r), IsSigned(s),
         toLowerCase(r["signature.value"]) = s["signature.value"],
         s["version"] = "1.0.0" => ValidReceipt(s) /\ metadataHash(s) # Throws
  PROVE  Accepted(s, options)
<1>1. /\ signingPayload(r) = signingPayload(s) /\ r["signature.algorithm"] = s["signature.algorithm"]
      /\ s["signature.value"] = <<s["signature.algorithm"], verifyingKey(options.publicKeyOrSecret, s["signature.algorithm"]), signingPayload(s)>>
      /\ ~Unusable(options.publicKeyOrSecret)
  BY PayloadsAgree
<1>2. /\ s["signature.algorithm"] \in SignatureAlgorithms /\ signingPayload(s) # Throws
      /\ Lower(s["signature.value"])
  BY SignatureValues
<1>3. SignatureValid(s, options)
  <2>1. decodeSignatureAlgorithm(s["signature.algorithm"]) # Missing
    <3>1. decodeSignatureAlgorithm(r["signature.algorithm"]) # Missing
      BY DEF Accepted, SignatureValid, verifySignature
    <3> QED
      BY <1>1, <3>1
  <2> QED
    BY <1>1, <1>2, <2>1 DEF SignatureValid, verifySignature, Lower
<1>4. s["version"] \in {"1.0.0", "2.0.0"}
  BY DEF IsSigned, Supported
<1>5. ValidReceipt(s)
  BY <1>4, SignedIsValid
<1>6. metadataHash(s) # Throws
  <2>1. CASE s["version"] = "2.0.0"
    <3>1. r["version"] \in Supported /\ s["version"] \in Supported
      BY ValidReceipts DEF Accepted, ValidReceipt, ValidHeader, IsSigned
    <3>2. r["version"] = "2.0.0"
      BY <1>1, <1>2, <2>1, <3>1, PayloadsTell
    <3> QED
      BY <1>1, <1>2, <3>1, <3>2, PayloadsTell
  <2> QED
    BY <1>4, <2>1
<1>7. LeavesValid(s, Tree(s)) /\ RootValid(s, Tree(s))
  BY SignedTreesAreValid
<1>8. validateReceiptEnvelope(s) = {}
  BY <1>5, ValidReceipts
<1> QED
  BY <1>1, <1>3, <1>6, <1>7, <1>8 DEF Accepted, IsSigned


\* The root of a tree is a leaf or the parent of two nodes.
LEMMA RootsAreLists ==
  ASSUME NEW leaves, NEW profile, AreLeaves(leaves)
  PROVE  (\A m \in 1 .. Len(leaves) : IsList(leaves[m])) => IsList(getRoot(leaves, profile))
<1> DEFINE n == Len(leaves)
           layers == buildLayers(leaves, profile)
           root == getRoot(leaves, profile)
<1>1. AreDigests(leaves) /\ n \in Nat /\ n > 0 /\ leaves # <<>>
  BY DEF AreLeaves, AreDigests, IsList
<1>2. AreDigests(layers[n]) /\ Len(layers[n]) > 0
  BY <1>1, LayerShapes
<1>3. 1 \in 1 .. Len(layers[n]) /\ n \in 0 .. Len(leaves)
  <2> HIDE DEF layers
  <2> QED
    BY <1>1, <1>2 DEF AreDigests, IsList
<1>4. root = layers[n][1]
  BY <1>1 DEF getRoot
<1>5. InTree(root, leaves, profile)
  BY <1>3, <1>4 DEF InTree
<1> HIDE DEF root
<1>6. Rooted(root, leaves, profile)
  BY <1>5, NodesOfTrees
<1>7. (\A m \in 1 .. Len(leaves) : IsList(leaves[m])) /\ IsLeaf(root, leaves) => IsList(root)
  BY DEF IsLeaf
<1>8. ASSUME NEW a, NEW b, Parent(root, a, b)
      PROVE  IsList(root)
  BY <1>8, TuplesAreLists DEF Parent, hashNodes
<1> QED
  BY <1>6, <1>7, <1>8 DEF Rooted, root

LEMMA EncodedByItsAlgorithm ==
  ASSUME NEW s, IsSigned(s)
  PROVE  Encoding(s["signature.value"]) = s["signature.algorithm"]
<1>1. PICK material : s["signature.value"] = <<s["signature.algorithm"], material, signingPayload(s)>>
  BY SignatureValues
<1>2. s["signature.algorithm"] \in SignatureAlgorithms
  BY SignatureValues
<1> QED
  BY <1>1, <1>2 DEF Encoding, SignatureAlgorithms

\* The receipts of version 1.0.0 whose names are not empty.
LEMMA LegacyFieldsAreValid ==
  ASSUME MarksStandApart, NEW t, IsSigned(t), t["version"] = "1.0.0",
         t["merkle.algorithm"] = "SHA-256", t["timestamp"] = "a time",
         t["signature.timestamp"] = "a later time",
         \A path \in {"proofId", "parentOrganization", "environment.platform", "environment.arch",
                      "environment.runtime"} : t[path] \in Texts,
         \A path \in {"task.name", "signature.keyId", "signature.signerIdentity"} : t[path] \notin Marks,
         \A at \in DOMAIN t["artifacts"] : t["artifacts"][at].path \notin Marks
  PROVE  ValidReceipt(t)
<1>1. \A text \in Texts : text \notin Marks
  BY ValuesStandApart
<1>2. \A f : IsList(f) => f \notin Marks
  BY ValuesStandApart
<1>3. \A v \in Values : v \notin Marks
  BY ValuesStandApart
<1>4. t \notin Marks
  BY ValuesStandApart DEF IsSigned
<1>5. \A at \in DOMAIN t["artifacts"] : ValidArtifact(t["artifacts"][at])
  <2> SUFFICES ASSUME NEW at \in DOMAIN t["artifacts"] PROVE ValidArtifact(t["artifacts"][at])
    OBVIOUS
  <2> DEFINE item == t["artifacts"][at]
  <2>1. IsHashed(item) /\ item.path \notin Marks
    BY DEF IsSigned, IsList
  <2> HIDE DEF item
  <2>2. PICK path, content, mimeType :
          item = [path |-> path, sha256 |-> <<"sha256", content>>, sizeBytes |-> <<"bytes", content>>,
                  mimeType |-> mimeType]
    BY <2>1 DEF IsHashed
  <2>3. IsList(item.sha256) /\ IsList(item.sizeBytes)
    BY <2>2, TuplesAreLists
  <2>4. item \notin Marks
    BY <2>1, ValuesStandApart
  <2>5. item.sha256 \notin Marks /\ item.sizeBytes \notin Marks
    BY <1>2, <2>3
  <2> QED
    BY <2>1, <2>4, <2>5 DEF ValidArtifact, Marks, item
<1> DEFINE leaves == Tree(t).leaves
<1>6. AreLeaves(leaves) /\ t["merkle.leaves"] = leaves /\ IsList(t["artifacts"])
  BY SignedIsFormed DEF IsSigned
<1>7. \A m \in 1 .. Len(leaves) : IsList(leaves[m])
  <2> DEFINE items == receiptLeaves(t)
  <2>1. leaves = [m \in 1 .. Len(items) |-> hashLeaf(items[m])] /\ Len(leaves) = Len(items)
    BY <1>6, LeavesOfReceipts
  <2>2. \A x : IsList(hashLeaf(x))
    BY TuplesAreLists DEF hashLeaf
  <2> HIDE DEF items, leaves
  <2> QED
    BY <2>1, <2>2
<1>8. IsList(leaves) /\ DOMAIN leaves = 1 .. Len(leaves)
  BY <1>6 DEF AreLeaves, AreDigests, IsList
<1>9. t["merkle.leaves"] \notin Marks /\ \A at \in DOMAIN t["merkle.leaves"] : t["merkle.leaves"][at] \notin Marks
  BY <1>2, <1>6, <1>7, <1>8
<1>10. t["merkle.root"] \notin Marks
  <2>1. t["merkle.root"] = getRoot(leaves, profilesFor(t["version"]).merkle)
    BY DEF IsSigned, Tree, TreeOver
  <2> HIDE DEF leaves
  <2>2. IsList(t["merkle.root"])
    BY <1>6, <1>7, <2>1, RootsAreLists
  <2> QED
    BY <1>2, <2>2
<1>11. /\ t["signature.value"] \notin Marks /\ Encoding(t["signature.value"]) = t["signature.algorithm"]
       /\ t["signature.algorithm"] \in SignatureAlgorithms /\ t["signature.algorithm"] \in Texts
  <2>1. PICK material : t["signature.value"] = <<t["signature.algorithm"], material, signingPayload(t)>>
    BY SignatureValues
  <2>2. t["signature.algorithm"] \in SignatureAlgorithms
    BY SignatureValues
  <2>3. IsList(t["signature.value"])
    BY <2>1, TuplesAreLists
  <2>4. t["signature.algorithm"] \in Texts
    BY <2>2 DEF SignatureAlgorithms, Texts
  <2>5. Encoding(t["signature.value"]) = t["signature.algorithm"]
    BY EncodedByItsAlgorithm
  <2> QED
    BY <1>2, <2>2, <2>3, <2>4, <2>5
<1>12. /\ t["protocol"] \in Texts /\ t["version"] \in Texts /\ t["merkle.algorithm"] \in Texts
       /\ t["timestamp"] \in Texts /\ t["signature.timestamp"] \in Texts
       /\ \A path \in {"task", "environment", "merkle", "signature"} : t[path] \in Texts
  <2>1. /\ "nymrel-proof-ledger" \in Texts /\ "1.0.0" \in Texts /\ "SHA-256" \in Texts
        /\ "a time" \in Texts /\ "a later time" \in Texts /\ "object" \in Texts
    BY DEF Texts
  <2>2. /\ t["protocol"] = "nymrel-proof-ledger"
        /\ \A path \in {"task", "environment", "merkle", "signature"} : t[path] = "object"
    BY DEF IsSigned
  <2> QED
    BY <2>1, <2>2
<1>13. t["artifacts"] \notin Marks /\ t["metadata"] \notin Marks
  BY <1>2, <1>3, <1>6 DEF IsSigned
<1>14. isTimestamp(t["timestamp"]) /\ isTimestamp(t["signature.timestamp"])
  <2>1. t["timestamp"] \notin Marks /\ t["signature.timestamp"] \notin Marks
    BY <1>1, <1>12
  <2>2. t["timestamp"] # "not a timestamp" /\ t["signature.timestamp"] # "not a timestamp"
    OBVIOUS
  <2> QED
    BY <2>1, <2>2 DEF isTimestamp, isDigest, Marks
<1>15. ValidHeader(t)
  <2>1. /\ t["protocol"] \notin Marks /\ t["version"] \notin Marks /\ t["merkle.algorithm"] \notin Marks
        /\ t["signature.algorithm"] \notin Marks
        /\ t["timestamp"] \notin Marks /\ t["signature.timestamp"] \notin Marks
    BY <1>1, <1>11, <1>12
  <2>2. \A path \in {"proofId", "parentOrganization", "task.name", "environment.platform",
                     "environment.arch", "environment.runtime", "signature.keyId",
                     "signature.signerIdentity"} : t[path] \notin Marks
    BY <1>1
  <2>3. \A path \in {"task", "environment", "merkle", "signature"} : t[path] \notin Marks
    BY <1>1, <1>12
  <2>4. \A path \in {"task", "environment", "merkle", "signature", "artifacts", "merkle.leaves",
                     "metadata"} : t[path] \notin {Missing, Garbage}
    BY <1>9, <1>13, <2>3 DEF Marks
  <2>5. t["protocol"] = "nymrel-proof-ledger" /\ t["version"] \in Supported
    BY DEF IsSigned
  <2> QED
    BY <1>10, <1>11, <1>14, <2>1, <2>2, <2>4, <2>5 DEF ValidHeader, Marks
<1> QED
  BY <1>4, <1>5, <1>9, <1>11, <1>15 DEF ValidReceipt, Marks

\* What an emitter of version 1.0.0 signed, if nothing in it was empty, is valid after it went
\* through JSON.
LEMMA LegacyOrdersAreValid ==
  ASSUME MarksStandApart, NEW options, NEW proofId \in Texts, NEW disk,
         IsList(options.artifacts), options.metadata \in Values,
         options.name \notin Marks, options.keyId \notin Marks, options.signerIdentity \notin Marks,
         \A at \in DOMAIN options.artifacts : RelativePath(options.artifacts[at].path) \notin Marks,
         ~AnyThrows(HashedArtifacts(options, disk)),
         NEW s, s = SignedReceipt(Header(options, HashedArtifacts(options, disk), "1.0.0", proofId),
                                  options.signingKey),
         s # Throws
  PROVE  \A t : t = [s EXCEPT !["metadata"] = Parsed[@]] => ValidReceipt(t)
<1> DEFINE artifacts == HashedArtifacts(options, disk)
           header == Header(options, artifacts, "1.0.0", proofId)
<1>1. IsSigned(s) /\ s["artifacts"] = artifacts /\ s["version"] = "1.0.0"
  BY OrdersAreSigned DEF Supported
<1>2. \A path \in ReceiptFields \ Computed : s[path] = header[path]
  <2>1. IsReceipt(header)
    BY ZenonT(60) DEF IsReceipt, Header
  <2> HIDE DEF header
  <2> QED
    BY <2>1, SignedReceipts DEF header
<1>3. /\ header["timestamp"] = "a time" /\ header["signature.timestamp"] = "a later time"
      /\ header["merkle.algorithm"] = "SHA-256" /\ header["proofId"] = proofId
      /\ header["parentOrganization"] = "Nymrel" /\ header["environment.platform"] = "linux"
      /\ header["environment.arch"] = "x64" /\ header["environment.runtime"] = "node"
      /\ header["task.name"] = options.name /\ header["signature.keyId"] = options.keyId
      /\ header["signature.signerIdentity"] = options.signerIdentity
  BY FieldsOfReceipts DEF Header
<1> HIDE DEF header
<1>4. \A at \in DOMAIN artifacts : artifacts[at].path \notin Marks
  <2> SUFFICES ASSUME NEW at \in DOMAIN artifacts PROVE artifacts[at].path \notin Marks
    OBVIOUS
  <2> DEFINE item == options.artifacts[at]
  <2>1. at \in DOMAIN options.artifacts /\ artifacts[at] = hashArtifact(item, disk) /\ artifacts[at] # Throws
    BY DEF HashedArtifacts, AnyThrows
  <2> HIDE DEF artifacts
  <2>2. artifacts[at].path = RelativePath(item.path)
    BY <2>1 DEF hashArtifact
  <2> QED
    BY <2>1, <2>2
<1> SUFFICES ASSUME NEW t, t = [s EXCEPT !["metadata"] = Parsed[@]] PROVE ValidReceipt(t)
  OBVIOUS
<1>5. IsSigned(t) /\ \A path \in ReceiptFields \ {"metadata"} : t[path] = s[path]
  BY <1>1, SerialisedIsSigned
<1> DEFINE Named == {"timestamp", "signature.timestamp", "merkle.algorithm", "proofId",
                     "parentOrganization", "environment.platform", "environment.arch",
                     "environment.runtime", "task.name", "signature.keyId", "signature.signerIdentity"}
<1>6. /\ Named \subseteq ReceiptFields \ (Computed \union {"metadata"})
      /\ {"version", "artifacts"} \subseteq ReceiptFields \ {"metadata"}
  BY FieldsOfReceipts DEF Computed
<1>7. \A path \in Named : t[path] = header[path]
  BY <1>2, <1>5, <1>6
<1>8. t["version"] = "1.0.0" /\ t["artifacts"] = artifacts
  BY <1>1, <1>5, <1>6
<1>9. /\ t["timestamp"] = "a time" /\ t["signature.timestamp"] = "a later time"
      /\ t["merkle.algorithm"] = "SHA-256" /\ t["proofId"] = proofId
      /\ t["parentOrganization"] = "Nymrel" /\ t["environment.platform"] = "linux"
      /\ t["environment.arch"] = "x64" /\ t["environment.runtime"] = "node"
      /\ t["task.name"] = options.name /\ t["signature.keyId"] = options.keyId
      /\ t["signature.signerIdentity"] = options.signerIdentity
  BY <1>3, <1>7
<1>10. IsSigned(t)
  BY <1>5
<1>11. \A path \in {"proofId", "parentOrganization", "environment.platform", "environment.arch",
                     "environment.runtime"} : t[path] \in Texts
  <2>1. "Nymrel" \in Texts /\ "linux" \in Texts /\ "x64" \in Texts /\ "node" \in Texts
    BY DEF Texts
  <2> QED
    BY <1>9, <2>1
<1>12. \A path \in {"task.name", "signature.keyId", "signature.signerIdentity"} : t[path] \notin Marks
  BY <1>9
<1>13. \A at \in DOMAIN t["artifacts"] : t["artifacts"][at].path \notin Marks
  BY <1>4, <1>8
<1> QED
  BY ONLY MarksStandApart, <1>8, <1>9, <1>10, <1>11, <1>12, <1>13, LegacyFieldsAreValid
=============================================================================
