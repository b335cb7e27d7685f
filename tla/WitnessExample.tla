---------------------------- MODULE WitnessExample ----------------------------
(***************************************************************************)
(* examples/witness_verification/src/main.rs: the closing check of the     *)
(* example.  commit_batch commits a batch of writes to a trie and returns  *)
(* (prev_root, new_root, witness); the example then calls                  *)
(* verify_update(prev_root, &[]) (the code that would collect the writes   *)
(* into PathUpdates is commented out) and asserts the result is new_root.  *)
(***************************************************************************)
EXTENDS VerifyUpdate

VARIABLE new_root   \* the new_root commit_batch returned

ExampleVars == <<vars, new_root>>

\* The trie after commit_batch's writes, a set of ops on distinct keys.
WithWrites(t, w) ==
  [k \in KeyPath |-> IF \E op \in w : op[1] = k
                     THEN (CHOOSE op \in w : op[1] = k)[2]
                     ELSE t[k]]

\* commit_batch on any trie, with a batch of one write.
ExampleBatches ==
  {[trie |-> t, prev_root |-> TrieRoot(t), paths |-> <<>>] : t \in TrieState}

ExampleWrites == {{op} : op \in Op}

\* Lines 7 and 101-102: the committed batch, and verify_update called on
\* prev_root with no path updates.
ExampleInit ==
  /\ Init
  /\ paths = <<>>
  /\ \E w \in ExampleWrites : new_root = TrieRoot(WithWrites(trie0, w))

ExampleSpec == ExampleInit /\ [][Next /\ UNCHANGED new_root]_ExampleVars

(***************************************************************************)
(* The assert_eq! of lines 101-104: verify_update on the witness returns   *)
(* the new_root of the committed batch.                                    *)
(***************************************************************************)
ExampleAssert == pc = "done" => result = [tag |-> "Ok", node |-> new_root]

=============================================================================
