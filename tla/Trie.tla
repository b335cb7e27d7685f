-------------------------------- MODULE Trie --------------------------------
(***************************************************************************)
(* The data model of the nomt proof core: key paths and bit slices, the    *)
(* hash oracle, and the reference binary Merkle trie with singleton        *)
(* collapse that the proof code is checked against.                        *)
(*                                                                         *)
(* A digest is modelled as a prefix-free serialisation of the hash term    *)
(* that produced it, a finite sequence of naturals.  Equal digests are     *)
(* therefore equal terms: the oracle is collision free and domain          *)
(* separated, which is what the code assumes of NodeHasher (spec 4.1).     *)
(***************************************************************************)
EXTENDS Naturals, Sequences, FiniteSets

CONSTANTS
  KeyBits,   \* width of a KeyPath in bits (256 in nomt)
  Vals,      \* value hashes that leaves may carry
  NoValue    \* Option::None in an update op: the key is deleted

ASSUME KeyBitsAssumption == KeyBits \in Nat \ {0}
ASSUME ValsAssumption == Vals \subseteq Nat /\ NoValue \notin Vals

Bit == {0, 1}

\* KeyPath: a fixed-width bit string, MSB first.
KeyPath == [1 .. KeyBits -> Bit]

\* LeafData { key_path, value_hash }.
LeafData == [key_path : KeyPath, value_hash : Vals]

\* Bit strings of length at most n: the positions of a trie of that height.
BitsUpTo(n) == UNION {[1 .. m -> Bit] : m \in 0 .. n}

MinNat(a, b) == IF a <= b THEN a ELSE b

\* s[..n] on a bit slice.
Take(s, n) == SubSeq(s, 1, n)

\* BitSlice::starts_with.
StartsWith(s, p) == Len(p) <= Len(s) /\ Take(s, Len(p)) = p

(***************************************************************************)
(* Ord on BitSlice<u8, Msb0> and on [u8; 32]: lexicographic, a proper      *)
(* prefix being smaller than its extensions.                               *)
(***************************************************************************)
LexLess(a, b) ==
  \/ Len(a) < Len(b) /\ Take(b, Len(a)) = a
  \/ \E n \in 1 .. MinNat(Len(a), Len(b)) :
        /\ Take(a, n - 1) = Take(b, n - 1)
        /\ a[n] < b[n]

(***************************************************************************)
(* The hash oracle (NodeHasher, trie.rs).  A digest is a sequence of       *)
(* naturals whose first element is the node kind; NodeKind::of reads it.   *)
(***************************************************************************)
Node == Seq(Nat)

TERMINATOR == <<0>>

HashLeaf(leaf) == <<1>> \o leaf.key_path \o <<leaf.value_hash>>

HashInternal(left, right) == <<2, Len(left)>> \o left \o right

Kind(n) == CASE n[1] = 0 -> "Terminator"
             [] n[1] = 1 -> "Leaf"
             [] OTHER    -> "Internal"

(***************************************************************************)
(* The sub-trie builder (update::build_trie): the root of the trie that    *)
(* holds exactly `leaves`, all below a position of depth `skip`, with a    *)
(* sub-trie of no leaf being the terminator and one of a single leaf       *)
(* being that leaf, at any depth.  A recursive function, not a RECURSIVE   *)
(* operator, so that modules built on it stay within reach of tlapm.       *)
(***************************************************************************)
BuildTrie(skip, leaves) ==
  LET Below(q) == {l \in leaves :
                     SubSeq(l.key_path, skip + 1, skip + Len(q)) = q}
      node[q \in BitsUpTo(KeyBits - skip)] ==
        IF Below(q) = {} THEN TERMINATOR
        ELSE IF Cardinality(Below(q)) = 1
             THEN HashLeaf(CHOOSE l \in Below(q) : TRUE)
             ELSE HashInternal(node[Append(q, 0)], node[Append(q, 1)])
  IN  node[<<>>]

(***************************************************************************)
(* build_trie returns a digest for every set of leaves with distinct keys  *)
(* that lie below one position of depth `skip`.  It is a fact about the    *)
(* recursive definition above, out of tlapm's reach (induction over        *)
(* data); TLC evaluates it for the constants of every run.                 *)
(***************************************************************************)
ASSUME BuildTrieType ==
  \A skip \in 0 .. KeyBits :
    \A p \in [1 .. skip -> Bit], leaves \in SUBSET LeafData :
      (/\ \A l \in leaves : StartsWith(l.key_path, p)
       /\ \A l1, l2 \in leaves : l1.key_path = l2.key_path => l1 = l2)
        => BuildTrie(skip, leaves) \in Node

(***************************************************************************)
(* A trie state maps every key to its value hash or to NoValue.            *)
(***************************************************************************)
TrieState == [KeyPath -> Vals \cup {NoValue}]

LeavesOf(t) ==
  {[key_path |-> k, value_hash |-> t[k]] : k \in {x \in KeyPath : t[x] # NoValue}}

\* The node at position p of trie t.
SubRoot(t, p) ==
  BuildTrie(Len(p), {l \in LeavesOf(t) : StartsWith(l.key_path, p)})

TrieRoot(t) == SubRoot(t, <<>>)

=============================================================================
