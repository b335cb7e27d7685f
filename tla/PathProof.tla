------------------------------ MODULE PathProof ------------------------------
(***************************************************************************)
(* Single-path proofs (core/src/proof/path_proof.rs): the terminal of a    *)
(* lookup, the path proof, its verification against a root, and the        *)
(* queries a verified path answers.  All of them are pure functions.       *)
(***************************************************************************)
EXTENDS Trie

(***************************************************************************)
(* PathProofTerminal.  Leaf(l) is [leaf |-> {l}, pos |-> l.key_path];      *)
(* Terminator(p) is [leaf |-> {}, pos |-> p].  An Option<LeafData> is the  *)
(* empty set or a singleton.                                               *)
(***************************************************************************)
TerminalPath(term) == term.pos

TerminalNode(term) ==
  IF term.leaf = {} THEN TERMINATOR ELSE HashLeaf(CHOOSE l \in term.leaf : TRUE)

AsLeafOption(term) == term.leaf

(***************************************************************************)
(* hash_path: hash `node` up through `siblings`, given deepest first,      *)
(* consuming the bits of `path` from the last one; the zip stops at the    *)
(* shorter of the two.                                                     *)
(***************************************************************************)
\* Mutant: the bits of the path consumed from the first one.
HashPathFromFront(node, path, siblings) ==
  LET n == MinNat(Len(path), Len(siblings))
      h[m \in 0 .. n] ==
        IF m = 0 THEN node
        ELSE IF path[m] = 1
             THEN HashInternal(siblings[m], h[m - 1])
             ELSE HashInternal(h[m - 1], siblings[m])
  IN  h[n]

HashPath(node, path, siblings) ==
  LET n == MinNat(Len(path), Len(siblings))
      h[m \in 0 .. n] ==
        IF m = 0 THEN node
        ELSE IF path[Len(path) - m + 1] = 1
             THEN HashInternal(siblings[m], h[m - 1])
             ELSE HashInternal(h[m - 1], siblings[m])
  IN  h[n]

RevSeq(s) == [m \in 1 .. Len(s) |-> s[Len(s) - m + 1]]

(***************************************************************************)
(* PathProof::verify.  The outcome is [ok, err, vp]: vp is the             *)
(* VerifiedPathProof when ok.  The terminal's own path is not checked      *)
(* against key_path: that is left to confirm_value / confirm_nonexistence. *)
(***************************************************************************)
NoProof == [key_path |-> <<>>, terminal |-> {}, siblings |-> <<>>, root |-> <<>>]

Verify(proof, key_path, root) ==
  LET relevant == Take(key_path, Len(proof.siblings))
      newRoot  == HashPath(TerminalNode(proof.terminal), relevant,
                           RevSeq(proof.siblings))
  IN  IF Len(proof.siblings) > MinNat(Len(key_path), 256)
      THEN [ok |-> FALSE, err |-> "TooManySiblings", vp |-> NoProof]
      ELSE IF newRoot = root
      THEN [ok |-> TRUE, err |-> "None",
            vp |-> [key_path |-> relevant,
                    terminal |-> AsLeafOption(proof.terminal),
                    siblings |-> proof.siblings,
                    root     |-> root]]
      ELSE [ok |-> FALSE, err |-> "RootMismatch", vp |-> NoProof]

(***************************************************************************)
(* The queries of a VerifiedPathProof.  The outcome is [ok, val]: ok is    *)
(* FALSE for Err(KeyOutOfScope).                                           *)
(***************************************************************************)
\* Mutant: the scope check of in_scope dropped.
InScopeUnchecked(vp, key_path) == TRUE

InScope(vp, key_path) == Take(key_path, Len(vp.key_path)) = vp.key_path

ConfirmValue(vp, expected_leaf) ==
  [ok  |-> InScope(vp, expected_leaf.key_path),
   val |-> vp.terminal = {expected_leaf}]

\* Mutant: the terminal leaf's key compared with == instead of !=.
ConfirmNonexistenceInverted(vp, key_path) ==
  [ok  |-> InScope(vp, key_path),
   val |-> \A d \in vp.terminal : d.key_path = key_path]

ConfirmNonexistence(vp, key_path) ==
  [ok  |-> InScope(vp, key_path),
   val |-> \A d \in vp.terminal : d.key_path # key_path]

\* shared_bits: how many leading bit pairs are equal (take_while(eq).count()).
SharedBits(a, b) ==
  Cardinality({n \in 1 .. MinNat(Len(a), Len(b)) :
                 \A m \in 1 .. n : a[m] = b[m]})

(***************************************************************************)
(* The honest prover (the lookup that builds a PathProof, outside the      *)
(* proof core): walk down key k until the position holds at most one leaf; *)
(* the siblings are the nodes beside the path, top-down.                   *)
(***************************************************************************)
Under(t, p) == {k \in KeyPath : t[k] # NoValue /\ StartsWith(k, p)}

TerminalDepth(t, k) ==
  CHOOSE d \in 0 .. KeyBits :
    /\ Cardinality(Under(t, Take(k, d))) <= 1
    /\ \A e \in 0 .. d - 1 : Cardinality(Under(t, Take(k, e))) > 1

TerminalPos(t, k) == Take(k, TerminalDepth(t, k))

HonestProof(t, k) ==
  LET p    == TerminalPos(t, k)
      leaf == {l \in LeavesOf(t) : StartsWith(l.key_path, p)}
  IN
  [terminal |-> [leaf |-> leaf,
                 pos  |-> IF leaf = {} THEN p
                          ELSE (CHOOSE l \in leaf : TRUE).key_path],
   siblings |-> [m \in 1 .. Len(p) |->
                   SubRoot(t, Append(Take(k, m - 1), 1 - k[m]))]]

=============================================================================
