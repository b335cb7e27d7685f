----------------------------- MODULE MCPathProof -----------------------------
(***************************************************************************)
(* A light client checking one path proof against a trusted root: the      *)
(* trie behind the root is honest, the proof may come from anyone.  The    *)
(* client calls PathProof::verify with a key of its own and then asks the  *)
(* verified path about keys in its scope (confirm_value,                   *)
(* confirm_nonexistence).                                                  *)
(*                                                                         *)
(* The proofs an adversary can send are every terminal (any leaf data,     *)
(* any terminator position) with up to KeyBits siblings, each sibling a    *)
(* node of the trie.  Digests are collision free, so a digest that is not  *)
(* a node of the trie can never hash up to its root; the nodes of the trie *)
(* are therefore every sibling that matters.  Sibling lists one longer    *)
(* than a key exercise TooManySiblings.                                    *)
(***************************************************************************)
EXTENDS PathProof, TLC

CONSTANTS
  MaxLeaves   \* bound on the leaves of the trie behind the root

VARIABLES
  trie,    \* the honest trie whose root the client trusts
  key,     \* the key_path the client passes to verify
  proof,   \* the PathProof it received
  out      \* the outcome of verify; err is "NotCalled" before the call

vars == <<trie, key, proof, out>>

Tries == {t \in TrieState : Cardinality(LeavesOf(t)) <= MaxLeaves}

TrieNodes(t) == {SubRoot(t, p) : p \in BitsUpTo(KeyBits)}

Terminals ==
  {[leaf |-> {l}, pos |-> l.key_path] : l \in LeafData}
  \cup {[leaf |-> {}, pos |-> p] : p \in BitsUpTo(KeyBits)}

Proofs(t) ==
  [terminal : Terminals,
   siblings : UNION {[1 .. n -> TrieNodes(t)] : n \in 0 .. KeyBits}]
  \cup [terminal : Terminals, siblings : {[m \in 1 .. KeyBits + 1 |-> TERMINATOR]}]

NotCalled == [ok |-> FALSE, err |-> "NotCalled", vp |-> NoProof]

Init ==
  /\ trie \in Tries
  /\ key \in KeyPath
  /\ proof \in Proofs(trie) \cup {HonestProof(trie, key)}
  /\ out = NotCalled

\* The client calls PathProof::verify(key, root).
VerifyCall ==
  /\ out = NotCalled
  /\ out' = Verify(proof, key, TrieRoot(trie))
  /\ UNCHANGED <<trie, key, proof>>

Spec == Init /\ [][VerifyCall]_vars

-----------------------------------------------------------------------------
(***************************************************************************)
(* What a verified path says is true of the trie behind the root, although *)
(* verify never checks that the terminal leaf's key extends the proven     *)
(* prefix (line 89): for every key in scope, confirm_nonexistence answers  *)
(* true exactly when the key is absent, and confirm_value answers true     *)
(* exactly for the key's value (the doc comments of both queries).         *)
(***************************************************************************)
VerifiedAnswersTrue ==
  out.ok =>
    \A q \in KeyPath : InScope(out.vp, q) =>
       /\ ConfirmNonexistence(out.vp, q).val = (trie[q] = NoValue)
       /\ \A v \in Vals :
             ConfirmValue(out.vp, [key_path |-> q, value_hash |-> v]).val
               = (trie[q] = v)

(***************************************************************************)
(* The proof an honest lookup of key builds verifies against the root, and *)
(* the verified path covers key (spec P1).                                 *)
(***************************************************************************)
HonestAccepted ==
  out # NotCalled /\ proof = HonestProof(trie, key) =>
    out.ok /\ InScope(out.vp, key)

=============================================================================
