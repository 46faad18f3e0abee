----------------------------- MODULE MerkleTree -----------------------------
(***************************************************************************)
(* The Merkle tree of an epoch (utils/merkle.ts): how it is built from the *)
(* sorted chain hashes, the inclusion proof of a leaf, and its             *)
(* verification.  SHA-256 is modelled as injective: the hash of two nodes  *)
(* is the pair of them, and no leaf is a pair.                             *)
(***************************************************************************)
EXTENDS Naturals, SequencesExt

Leaf(hash) == <<hash>>
HashPair(left, right) == <<left, right>>

(* Mutant: the first node stands for the odd one.                          *)
EvenDrops(layer) ==
  IF Len(layer) % 2 = 0 THEN layer
  ELSE [i \in 1 .. Len(layer) + 1 |-> IF i < Len(layer) THEN layer[i] ELSE layer[1]]

(* An odd layer repeats its last node.                                     *)
Even(layer) ==
  IF Len(layer) % 2 = 0 THEN layer ELSE Append(layer, Last(layer))

(* Mutant: the odd node is handed up as it is.                             *)
AbovePromotes(layer) ==
  [i \in 1 .. Len(Even(layer)) \div 2 |->
     IF 2 * i > Len(layer) THEN Last(layer) ELSE HashPair(layer[2 * i - 1], layer[2 * i])]

Above(layer) ==
  LET even == Even(layer) IN
  [i \in 1 .. Len(even) \div 2 |-> HashPair(even[2 * i - 1], even[2 * i])]

(* Each layer has half the nodes of the one below, rounded up, so that one *)
(* of these has a single node.                                             *)
Layers(leaves) ==
  LET layer[n \in 1 .. Len(leaves)] == IF n = 1 THEN leaves ELSE Above(layer[n - 1])
  IN layer

(* The layers from the leaves to the root, where the loop ends.            *)
BuildMerkleTree(leaves) ==
  LET layer == Layers(leaves)
      top == CHOOSE n \in 1 .. Len(leaves) :
               Len(layer[n]) = 1 /\ \A m \in 1 .. n - 1 : Len(layer[m]) > 1
  IN [n \in 1 .. top |-> layer[n]]

Root(layers) == Last(layers)[1]

(* The index of a leaf is counted from 0, as in the code; it is halved     *)
(* from layer to layer.                                                    *)
IndexOf(leaf, layers) == (CHOOSE i \in DOMAIN layers[1] : layers[1][i] = leaf) - 1

Path(leaf, layers) ==
  LET index[n \in 1 .. Len(layers)] ==
        IF n = 1 THEN IndexOf(leaf, layers) ELSE index[n - 1] \div 2
  IN index

SiblingIndex(index) == IF index % 2 = 0 THEN index + 1 ELSE index - 1

GetMerkleProof(layers, leaf) ==
  LET index == Path(leaf, layers) IN
  [n \in 1 .. Len(layers) - 1 |->
     [sibling |-> Even(layers[n])[SiblingIndex(index[n]) + 1],
      direction |-> IF index[n] % 2 = 0 THEN "right" ELSE "left"]]

(* What a proof makes of a leaf, sibling by sibling.                       *)
Climb(leaf, proof) ==
  LET current[n \in 0 .. Len(proof)] ==
        IF n = 0 THEN leaf
        ELSE IF proof[n].direction = "left" THEN HashPair(proof[n].sibling, current[n - 1])
        ELSE HashPair(current[n - 1], proof[n].sibling)
  IN current

VerifyMerkleProof(leaf, proof, root) == Climb(leaf, proof)[Len(proof)] = root
=============================================================================
