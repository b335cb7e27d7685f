------------------------- MODULE MCVerifyUpdateHonest -------------------------
(***************************************************************************)
(* Model-checking instance of VerifyUpdate on honest calls: the batches a  *)
(* witness builder produces from a trie t and a change set c (the touched  *)
(* keys grouped by their terminal position in t, one honest verified path  *)
(* per group, the group's ops in key order).                               *)
(***************************************************************************)
EXTENDS VerifyUpdate, TLC

CONSTANTS
  MaxLeaves,    \* bound on the leaves of the prior trie
  MaxChanges,   \* bound on the keys a batch touches
  Untouched     \* a key the change set leaves alone

Tries == {t \in TrieState : Cardinality(LeavesOf(t)) <= MaxLeaves}

ChangeSets ==
  {c \in [KeyPath -> Vals \cup {NoValue, Untouched}] :
     Cardinality({k \in KeyPath : c[k] # Untouched}) \in 1 .. MaxChanges}

\* The elements of a set of bit strings in ascending order.
SortedSeq(S) ==
  [n \in 1 .. Cardinality(S) |->
     CHOOSE x \in S : Cardinality({y \in S : LexLess(y, x)}) = n - 1]

\* The honest verified path of every key of t, as <<key, path>> pairs: the
\* proofs of one trie are built once for all of its change sets.
VerifiedPaths(t) ==
  LET root == TrieRoot(t)
  IN  {<<k, Verify(HonestProof(t, k), k, root).vp>> : k \in KeyPath}

HonestPaths(t, vps, c) ==
  LET touched == {k \in KeyPath : c[k] # Untouched}
      VP(k)   == (CHOOSE e \in vps : e[1] = k)[2]
      ps      == SortedSeq({TerminalPos(t, k) : k \in touched})
      Group(p) == {k \in touched : StartsWith(k, p)}
      MkPath(p) ==
        LET ks == SortedSeq(Group(p))
        IN  [inner |-> VP(ks[1]),
             ops   |-> [m \in 1 .. Len(ks) |-> <<ks[m], c[ks[m]]>>]]
  IN  <<>> \o [n \in 1 .. Len(ps) |-> MkPath(ps[n])]

\* The honest calls only.
HonestBatches ==
  UNION {LET vps == VerifiedPaths(t)
             root == TrieRoot(t)
         IN  {[trie |-> t, prev_root |-> root, paths |-> HonestPaths(t, vps, c)] :
                c \in ChangeSets} :
           t \in Tries}

=============================================================================
