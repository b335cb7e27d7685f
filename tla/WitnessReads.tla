----------------------------- MODULE WitnessReads -----------------------------
(***************************************************************************)
(* examples/witness_verification/src/main.rs, lines 7-75: the witness of a *)
(* committed batch is verified as one multi-proof against prev_root, then  *)
(* for each witnessed path i the reads whose path_index is i are picked    *)
(* with skip_while / take_while and checked with confirm_nonexistence      *)
(* (a read of None) or confirm_value (a read of Some(value)), each result  *)
(* unwrapped and asserted.                                                 *)
(*                                                                         *)
(* commit_batch and verify_multi_proof are not under src/.  The witnesses *)
(* are a constant, with what the loop needs of them as an assumption;      *)
(* MCWitnessReads gives the ones an honest builder produces.  A verified   *)
(* multi-proof answers a query from the verified path whose prefix covers *)
(* the key, and with Err(KeyOutOfScope) when no path does.                 *)
(***************************************************************************)
EXTENDS PathProof

CONSTANT
  Witnesses   \* the (trie, witness) pairs commit_batch may return

\* A witnessed path: its position and its PathProof.
PathEntry ==
  [pos   : BitsUpTo(KeyBits),
   proof : [terminal : [leaf : SUBSET LeafData, pos : BitsUpTo(KeyBits)],
            siblings : Seq(Node)]]

\* A witnessed read: the index of its path, the key and the value read.
ReadOp == [path_index : Nat, key : KeyPath, value : Vals \cup {NoValue}]

(***************************************************************************)
(* What the loop of lines 41-59 takes from commit_batch (lines 48-51:      *)
(* "each witnessed operation contains an index to the path it needs to be  *)
(* verified against"): there is a path, every read's index names a path,  *)
(* and the reads are grouped by path in the order of the paths, which is   *)
(* what skip_while / take_while need.  The builder sorts both by key.      *)
(***************************************************************************)
ASSUME WitnessesAssumption ==
  \A w \in Witnesses :
    /\ w.trie \in TrieState
    /\ w.paths \in Seq(PathEntry) /\ w.paths # <<>>
    /\ w.reads \in Seq(ReadOp)
    /\ \A m \in 1 .. Len(w.reads) : w.reads[m].path_index < Len(w.paths)
    /\ \A m1, m2 \in 1 .. Len(w.reads) :
         m1 <= m2 => w.reads[m1].path_index <= w.reads[m2].path_index

VARIABLES
  trie,      \* the trie the batch read, whose root is prev_root
  paths,     \* witness.path_proofs: [pos, proof] per witnessed path
  reads,     \* operations.reads: [path_index, key, value]
  vmp,       \* verified_multi_proof: the set of verified paths
  i,         \* the index of the enumerate loop over path_proofs (0-based)
  pos,       \* the position of the reads iterator (1-based)
  taking,    \* skip_while is done and take_while has started
  checked,   \* the positions of the reads checked so far
  pc         \* where main is

vars == <<trie, paths, reads, vmp, i, pos, taking, checked, pc>>

\* verify_multi_proof over MultiProof::from_path_proofs of the witness.
MultiVerify(ps, root) == {Verify(ps[n].proof, ps[n].pos, root) : n \in 1 .. Len(ps)}

\* VerifiedMultiProof::confirm_nonexistence / confirm_value.
Covering(vps, key_path) == {vp \in vps : InScope(vp, key_path)}

MultiConfirmNonexistence(vps, key_path) ==
  IF Covering(vps, key_path) = {} THEN [ok |-> FALSE, val |-> FALSE]
  ELSE ConfirmNonexistence(CHOOSE vp \in Covering(vps, key_path) : TRUE, key_path)

MultiConfirmValue(vps, leaf) ==
  IF Covering(vps, leaf.key_path) = {} THEN [ok |-> FALSE, val |-> FALSE]
  ELSE ConfirmValue(CHOOSE vp \in Covering(vps, leaf.key_path) : TRUE, leaf)

\* Lines 61-74: the unwrapped query of a read and its assert!.
ReadHolds(r) ==
  LET res == IF r.value = NoValue
             THEN MultiConfirmNonexistence(vmp, r.key)
             ELSE MultiConfirmValue(vmp, [key_path |-> r.key, value_hash |-> r.value])
  IN  res.ok /\ res.val

-----------------------------------------------------------------------------
\* Lines 7-12: commit_batch returns the witness of a batch reading R.
Init ==
  /\ \E w \in Witnesses : /\ trie = w.trie
                          /\ paths = w.paths
                          /\ reads = w.reads
  /\ vmp = {}
  /\ i = 0
  /\ pos = 1
  /\ taking = FALSE
  /\ checked = {}
  /\ pc = "verify"

\* Lines 31-35: verify_multi_proof(..).unwrap() against prev_root.
VerifyMulti ==
  /\ pc = "verify"
  /\ LET outs == MultiVerify(paths, TrieRoot(trie))
     IN  IF \A o \in outs : o.ok
         THEN vmp' = {o.vp : o \in outs} /\ pc' = "loop"
         ELSE pc' = "panic" /\ UNCHANGED vmp
  /\ UNCHANGED <<trie, paths, reads, i, pos, taking, checked>>

\* Line 58: skip_while passes over a read of another path.
SkipRead ==
  /\ pc = "loop"
  /\ ~taking
  /\ pos <= Len(reads)
  /\ reads[pos].path_index # i
  /\ pos' = pos + 1
  /\ UNCHANGED <<trie, paths, reads, vmp, i, taking, checked, pc>>

\* Lines 59-74: take_while yields a read of path i, which is checked.
CheckRead ==
  /\ pc = "loop"
  /\ pos <= Len(reads)
  /\ reads[pos].path_index = i
  /\ taking' = TRUE
  /\ pos' = pos + 1
  /\ checked' = checked \cup {pos}
  /\ pc' = IF ReadHolds(reads[pos]) THEN "loop" ELSE "panic"
  /\ UNCHANGED <<trie, paths, reads, vmp, i>>

\* Mutant: one reads iterator shared by all paths, take_while consuming the
\* read that ends it.
NextPathSharedIter ==
  /\ pc = "loop"
  /\ \/ pos > Len(reads)
     \/ pos <= Len(reads) /\ taking /\ reads[pos].path_index # i
  /\ i' = i + 1
  /\ pos' = pos + 1
  /\ taking' = FALSE
  /\ pc' = IF i + 1 = Len(paths) THEN "done" ELSE "loop"
  /\ UNCHANGED <<trie, paths, reads, vmp, checked>>

\* Lines 41 and 55-59: the reads iterator of path i ends; the next path
\* starts a fresh iterator.  After the last path main reaches line 101.
NextPath ==
  /\ pc = "loop"
  /\ \/ pos > Len(reads)
     \/ pos <= Len(reads) /\ taking /\ reads[pos].path_index # i
  /\ i' = i + 1
  /\ pos' = 1
  /\ taking' = FALSE
  /\ pc' = IF i + 1 = Len(paths) THEN "done" ELSE "loop"
  /\ UNCHANGED <<trie, paths, reads, vmp, checked>>

Next == VerifyMulti \/ SkipRead \/ CheckRead \/ NextPath

Spec == Init /\ [][Next]_vars

-----------------------------------------------------------------------------
(***************************************************************************)
(* The comment of lines 48-51: for each path, the reads that interact with *)
(* it are selected, so by line 101 every read of the witness has been      *)
(* checked against the multi-proof.                                        *)
(***************************************************************************)
ReadsAllChecked == pc = "done" => checked = 1 .. Len(reads)

(***************************************************************************)
(* An honest witness passes: verify_multi_proof succeeds, and no unwrap   *)
(* or assert! of the read checks panics (every read's key is covered by a *)
(* verified path and the query confirms the value read).                  *)
(***************************************************************************)
ReadsVerified == pc # "panic"

=============================================================================
