---------------------------- MODULE MCWitnessReads ----------------------------
(***************************************************************************)
(* The witnesses commit_batch returns for a batch reading a set R of keys  *)
(* of a small trie: one path per terminal position the keys reach, in      *)
(* ascending order, each with the honest proof; the reads in ascending key *)
(* order, each with the index of its path (0-based) and the value the trie *)
(* holds.                                                                  *)
(***************************************************************************)
EXTENDS WitnessReads

LOCAL SX == INSTANCE SequencesExt

CONSTANTS
  MaxLeaves,   \* bound on the leaves of the committed trie
  MaxReads     \* bound on the keys the batch reads

Tries == {t \in TrieState : Cardinality(LeavesOf(t)) <= MaxLeaves}

ReadSets == {R \in SUBSET KeyPath : Cardinality(R) \in 1 .. MaxReads}

\* commit_batch's witness for a batch reading the keys R of trie t.
WitnessPaths(t, R) ==
  LET ps == SX!SetToSortSeq({TerminalPos(t, k) : k \in R}, LexLess)
  IN  [n \in 1 .. Len(ps) |->
         [pos   |-> ps[n],
          proof |-> HonestProof(t, CHOOSE k \in R : StartsWith(k, ps[n]))]]

WitnessReadOps(t, R) ==
  LET ps == SX!SetToSortSeq({TerminalPos(t, k) : k \in R}, LexLess)
      ks == SX!SetToSortSeq(R, LexLess)
  IN  [m \in 1 .. Len(ks) |->
         [path_index |-> (CHOOSE n \in 1 .. Len(ps) : StartsWith(ks[m], ps[n])) - 1,
          key        |-> ks[m],
          value      |-> t[ks[m]]]]

MCWitnesses ==
  {[trie |-> t, paths |-> WitnessPaths(t, R), reads |-> WitnessReadOps(t, R)] :
     t \in Tries, R \in ReadSets}

=============================================================================
