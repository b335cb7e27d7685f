---------------------------- MODULE MCVerifyUpdate ----------------------------
(***************************************************************************)
(* Model-checking instance of VerifyUpdate on the honest batches of        *)
(* MCVerifyUpdateHonest and the same batches with one caller mistake each. *)
(***************************************************************************)
EXTENDS MCVerifyUpdateHonest

MCVals == {1, 2}

Swap(s, x, y) == [s EXCEPT ![x] = s[y], ![y] = s[x]]

ApplyChanges(t, c) == [k \in KeyPath |-> IF c[k] = Untouched THEN t[k] ELSE c[k]]

\* The honest call and the caller mistakes that apply to it.
Calls(t, vps, c) ==
  LET ps   == HonestPaths(t, vps, c)
      root == TrieRoot(t)
      out  == {k \in KeyPath : ~StartsWith(k, ps[1].inner.key_path)}
  IN  {[trie |-> t, prev_root |-> root, paths |-> ps]}
      \cup {[trie |-> t, prev_root |-> TrieRoot(ApplyChanges(t, c)), paths |-> ps]}
      \cup {[trie |-> t, prev_root |-> root, paths |-> <<ps[1]>> \o ps]}
      \cup {[trie |-> t, prev_root |-> root,
             paths |-> [ps EXCEPT ![Len(ps)].ops = <<>>]]}
      \cup (IF Len(ps) >= 2
            THEN {[trie |-> t, prev_root |-> root, paths |-> Swap(ps, 1, 2)]}
            ELSE {})
      \cup (IF Len(ps[1].ops) >= 2
            THEN {[trie |-> t, prev_root |-> root,
                   paths |-> [ps EXCEPT ![1].ops = Swap(@, 1, 2)]]}
            ELSE {})
      \cup (IF out # {}
            THEN {[trie |-> t, prev_root |-> root,
                   paths |-> [ps EXCEPT ![1].ops =
                                <<<<CHOOSE k \in out : TRUE, NoValue>>>>]]}
            ELSE {})

MCBatches ==
  UNION {LET vps == VerifiedPaths(t) IN UNION {Calls(t, vps, c) : c \in ChangeSets} :
           t \in Tries}

=============================================================================
