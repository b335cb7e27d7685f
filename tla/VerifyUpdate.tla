----------------------------- MODULE VerifyUpdate -----------------------------
(***************************************************************************)
(* proof::verify_update (core/src/proof/path_proof.rs): the batch update   *)
(* verifier.  One call is modelled as a run: the validation loop over      *)
(* paths and ops, then the frontier-stitching loop that climbs each        *)
(* path's sub-trie root towards the root, one layer per step, replacing    *)
(* proof siblings by pending frontier nodes and compacting terminators and *)
(* leaves.  The arguments (prev_root, paths) are chosen by Init from       *)
(* Batches and never change; trie0 is a history variable holding the trie *)
(* the paths were proved against, used only by the properties.            *)
(***************************************************************************)
EXTENDS PathProof

CONSTANT Batches   \* set of [trie : TrieState, prev_root : Node, paths : Seq(PathUpdate)]

Op == KeyPath \X (Vals \cup {NoValue})

\* Option<LeafData>: no leaf or one.
LeafOption == {{}} \cup {{l} : l \in LeafData}

\* What PathProof::verify can return: a proven prefix no longer than a key,
\* one sibling per bit of it, and (spec I2, given a collision-free hash) a
\* terminal leaf whose key extends the prefix.
VerifiedPathProof ==
  {vp \in [key_path : Seq(Bit), terminal : LeafOption,
           siblings : Seq(Node), root : Node] :
     /\ Len(vp.key_path) <= KeyBits
     /\ Len(vp.siblings) = Len(vp.key_path)
     /\ \A l \in vp.terminal : StartsWith(l.key_path, vp.key_path)}

PathUpdate == [inner : VerifiedPathProof, ops : Seq(Op)]

ASSUME BatchesAssumption ==
  Batches \subseteq [trie : TrieState, prev_root : Node, paths : Seq(PathUpdate)]

(***************************************************************************)
(* A VerifiedPathProof is built only by PathProof::verify (its fields are  *)
(* private, lines 156-161).  Two proofs verified against one root prove    *)
(* prefixes of which neither extends the other unless they are equal: the  *)
(* shorter one ends in a leaf or terminator while hash_path makes the      *)
(* longer one's node there internal, and the hash is collision free and    *)
(* domain separated.  This is what the comment `n always < skip` (line     *)
(* 314) relies on.  It is a fact about the recursive hash_path, out of     *)
(* tlapm's reach; TLC evaluates it for the batches of every run.           *)
(***************************************************************************)
ASSUME VerifiedPrefixFree ==
  \A b \in Batches : \A x, y \in 1 .. Len(b.paths) :
    LET px == b.paths[x].inner
        py == b.paths[y].inner
    IN  (px.root = py.root /\ px.key_path # py.key_path)
          => ~StartsWith(py.key_path, px.key_path)

VARIABLES
  trie0,       \* history: the trie every path was proved against
  prev_root,   \* argument prev_root
  paths,       \* argument paths
  pc,          \* where the call is
  i,           \* index of the current path (1-based)
  j,           \* index of the current op in the validation loop
  pending,     \* pending_siblings: the left frontier, <<node, layer>> pairs
  cur_node,    \* cur_node of the climb
  cur_layer,   \* cur_layer of the climb
  end_layer,   \* end_layer of the current path
  up_layers,   \* up_layers of the current path
  step,        \* iterations of the climb loop done for the current path
  result       \* the returned Result: [tag |-> "Ok" or an error, node]

vars == <<trie0, prev_root, paths, pc, i, j, pending, cur_node, cur_layer,
          end_layer, up_layers, step, result>>

Errors == {"PathsOutOfOrder", "OpsOutOfOrder", "OpOutOfScope",
           "PathWithoutOps", "RootMismatch"}

PCs == {"entry", "path", "op", "begin", "climb", "finish", "done", "underflow",
        "unwrap"}

Path(x)  == paths[x].inner.key_path
Ops(x)   == paths[x].ops
Sibs(x)  == paths[x].inner.siblings

-----------------------------------------------------------------------------
(***************************************************************************)
(* Validation (lines 276-301): the first failing check of a path, then of  *)
(* each op, in the order the code makes them.                              *)
(***************************************************************************)
\* Mutant: paths compared with `>` instead of `>=`, letting a repeated path through.
PathCheckNonStrict(x) ==
  IF paths[x].inner.root # prev_root THEN "RootMismatch"
  ELSE IF x # 1 /\ LexLess(Path(x), Path(x - 1)) THEN "PathsOutOfOrder"
  ELSE IF Len(Ops(x)) = 0 THEN "PathWithoutOps"
  ELSE "Ok"

PathCheck(x) ==
  IF paths[x].inner.root # prev_root THEN "RootMismatch"
  ELSE IF x # 1 /\ ~LexLess(Path(x - 1), Path(x)) THEN "PathsOutOfOrder"
  ELSE IF Len(Ops(x)) = 0 THEN "PathWithoutOps"
  ELSE "Ok"

\* Mutant: the OpOutOfScope check left out.
OpCheckNoScope(x, y) ==
  IF y # 1 /\ ~LexLess(Ops(x)[y - 1][1], Ops(x)[y][1]) THEN "OpsOutOfOrder"
  ELSE "Ok"

OpCheck(x, y) ==
  IF y # 1 /\ ~LexLess(Ops(x)[y - 1][1], Ops(x)[y][1]) THEN "OpsOutOfOrder"
  ELSE IF ~StartsWith(Ops(x)[y][1], Path(x)) THEN "OpOutOfScope"
  ELSE "Ok"

(***************************************************************************)
(* Stitching helpers.                                                      *)
(***************************************************************************)

\* The keys the ops of a path write, and the value an op gives key k.
OpKeys(ops) == {ops[y][1] : y \in 1 .. Len(ops)}

OpValue(ops, k) == ops[CHOOSE y \in 1 .. Len(ops) : ops[y][1] = k][2]

\* Mutant: the terminal leaf kept even when an op deletes or rewrites its key.
LeafOpsSplicedKeepLeaf(leaf, ops) ==
  {[key_path |-> k, value_hash |-> OpValue(ops, k)] :
      k \in {x \in OpKeys(ops) : OpValue(ops, x) # NoValue}} \cup leaf

\* update::leaf_ops_spliced: the leaves the ops write (deletions leave none)
\* and the terminal leaf unless an op is on its key.  The ops of a path
\* are strictly ascending, so each key has one op and one leaf.
LeafOpsSpliced(leaf, ops) ==
  {[key_path |-> k, value_hash |-> OpValue(ops, k)] :
      k \in {x \in OpKeys(ops) : OpValue(ops, x) # NoValue}}
  \cup {l \in leaf : l.key_path \notin OpKeys(ops)}

\* up_layers before the usize subtraction: negative would underflow.
\* Mutant: the climb stops at the divergence layer n instead of n + 1.
UpLayersToDivergence(x) ==
  IF x = Len(paths) THEN Len(Path(x))
  ELSE Len(Path(x)) - SharedBits(Path(x + 1), Path(x))

UpLayers(x) ==
  IF x = Len(paths) THEN Len(Path(x))
  ELSE Len(Path(x)) - (SharedBits(Path(x + 1), Path(x)) + 1)

\* The compaction match on (NodeKind of cur_node, NodeKind of sibling).
\* Mutant: a leaf beside a terminator on the left is not floated up.
CompactNoFloat(cur, sibling, bit) ==
  CASE Kind(cur) = "Terminator" /\ Kind(sibling) = "Terminator" -> cur
    [] Kind(cur) = "Leaf" /\ Kind(sibling) = "Terminator"       -> cur
    [] OTHER -> IF bit = 1 THEN HashInternal(sibling, cur)
                           ELSE HashInternal(cur, sibling)

Compact(cur, sibling, bit) ==
  CASE Kind(cur) = "Terminator" /\ Kind(sibling) = "Terminator" -> cur
    [] Kind(cur) = "Leaf" /\ Kind(sibling) = "Terminator"       -> cur
    [] Kind(cur) = "Terminator" /\ Kind(sibling) = "Leaf"       -> sibling
    [] OTHER -> IF bit = 1 THEN HashInternal(sibling, cur)
                           ELSE HashInternal(cur, sibling)

\* The pending frontier node sits at the layer of the sibling consumed next.
\* Mutant: the pending node compared with the layer above the sibling.
ReplacesSiblingOffByOne == Len(pending) > 0 /\ pending[Len(pending)][2] = cur_layer - 1

ReplacesSibling == Len(pending) > 0 /\ pending[Len(pending)][2] = cur_layer

\* Iterations of the climb: path bits (take up_layers) zipped with siblings.
ClimbLength == MinNat(up_layers, MinNat(Len(Path(i)), Len(Sibs(i))))

-----------------------------------------------------------------------------
Init ==
  /\ \E b \in Batches : /\ trie0 = b.trie
                        /\ prev_root = b.prev_root
                        /\ paths = b.paths
  /\ pc = "entry"
  /\ i = 1
  /\ j = 1
  /\ pending = <<>>
  /\ cur_node = TERMINATOR
  /\ cur_layer = 0
  /\ end_layer = 0
  /\ up_layers = 0
  /\ step = 0
  /\ result = [tag |-> "None", node |-> <<>>]

Fail(e) == /\ result' = [tag |-> e, node |-> <<>>]
           /\ pc' = "done"

\* Lines 271-273: an empty batch returns prev_root.
Entry ==
  /\ pc = "entry"
  /\ IF Len(paths) = 0
     THEN /\ result' = [tag |-> "Ok", node |-> prev_root]
          /\ pc' = "done"
     ELSE /\ pc' = "path"
          /\ UNCHANGED result
  /\ UNCHANGED <<trie0, prev_root, paths, i, j, pending, cur_node, cur_layer,
                 end_layer, up_layers, step>>

\* Lines 278-290: the checks on path i.
CheckPath ==
  /\ pc = "path"
  /\ IF PathCheck(i) = "Ok"
     THEN /\ pc' = "op"
          /\ j' = 1
          /\ UNCHANGED result
     ELSE /\ Fail(PathCheck(i))
          /\ UNCHANGED j
  /\ UNCHANGED <<trie0, prev_root, paths, i, pending, cur_node, cur_layer,
                 end_layer, up_layers, step>>

\* Lines 292-299: the checks on op j of path i, then the next op or path.
CheckOp ==
  /\ pc = "op"
  /\ \/ /\ OpCheck(i, j) # "Ok"
        /\ Fail(OpCheck(i, j))
        /\ UNCHANGED <<i, j>>
     \/ /\ OpCheck(i, j) = "Ok"
        /\ j < Len(Ops(i))
        /\ j' = j + 1
        /\ UNCHANGED <<pc, i, result>>
     \/ /\ OpCheck(i, j) = "Ok"
        /\ j = Len(Ops(i))
        /\ i < Len(paths)
        /\ i' = i + 1
        /\ pc' = "path"
        /\ UNCHANGED <<j, result>>
     \/ /\ OpCheck(i, j) = "Ok"
        /\ j = Len(Ops(i))
        /\ i = Len(paths)
        /\ i' = 1
        /\ pc' = "begin"
        /\ UNCHANGED <<j, result>>
  /\ UNCHANGED <<trie0, prev_root, paths, pending, cur_node, cur_layer,
                 end_layer, up_layers, step>>

\* Lines 306-325: up_layers, the spliced leaves and the sub-trie root of path i.
\* A negative up_layers is the usize underflow that `n always < skip` rules out.
BeginPath ==
  /\ pc = "begin"
  /\ IF UpLayers(i) < 0
     THEN /\ pc' = "underflow"
          /\ UNCHANGED <<cur_node, cur_layer, end_layer, up_layers>>
     ELSE /\ cur_node' = BuildTrie(Len(Path(i)),
                                   LeafOpsSpliced(paths[i].inner.terminal, Ops(i)))
          /\ cur_layer' = Len(Path(i))
          /\ up_layers' = UpLayers(i)
          /\ end_layer' = Len(Path(i)) - UpLayers(i)
          /\ pc' = "climb"
  /\ step' = 0
  /\ UNCHANGED <<trie0, prev_root, paths, i, j, pending, result>>

\* Lines 338-368: one layer of the climb of path i.
Climb ==
  /\ pc = "climb"
  /\ step < ClimbLength
  /\ LET bit     == Path(i)[Len(Path(i)) - step]
         sibling == IF ReplacesSibling THEN pending[Len(pending)][1]
                    ELSE Sibs(i)[Len(Sibs(i)) - step]
     IN  /\ pending' = IF ReplacesSibling THEN SubSeq(pending, 1, Len(pending) - 1)
                       ELSE pending
         /\ cur_node' = Compact(cur_node, sibling, bit)
  /\ cur_layer' = cur_layer - 1
  /\ step' = step + 1
  /\ UNCHANGED <<trie0, prev_root, paths, pc, i, j, end_layer, up_layers, result>>

\* Line 370: push the climbed node at end_layer; go on with the next path.
\* Mutant: the climbed node pushed one layer above end_layer.
EndPathAbove ==
  /\ pc = "climb"
  /\ step = ClimbLength
  /\ pending' = Append(pending, <<cur_node, end_layer - 1>>)
  /\ IF i < Len(paths)
     THEN /\ i' = i + 1
          /\ pc' = "begin"
     ELSE /\ pc' = "finish"
          /\ UNCHANGED i
  /\ UNCHANGED <<trie0, prev_root, paths, j, cur_node, cur_layer, end_layer,
                 up_layers, step, result>>

EndPath ==
  /\ pc = "climb"
  /\ step = ClimbLength
  /\ pending' = Append(pending, <<cur_node, end_layer>>)
  /\ IF i < Len(paths)
     THEN /\ i' = i + 1
          /\ pc' = "begin"
     ELSE /\ pc' = "finish"
          /\ UNCHANGED i
  /\ UNCHANGED <<trie0, prev_root, paths, j, cur_node, cur_layer, end_layer,
                 up_layers, step, result>>

\* Line 375: pop the last frontier node and return it; unwrap panics on an
\* empty frontier.
Finish ==
  /\ pc = "finish"
  /\ IF Len(pending) > 0
     THEN /\ result' = [tag |-> "Ok", node |-> pending[Len(pending)][1]]
          /\ pending' = SubSeq(pending, 1, Len(pending) - 1)
          /\ pc' = "done"
     ELSE /\ pc' = "unwrap"
          /\ UNCHANGED <<pending, result>>
  /\ UNCHANGED <<trie0, prev_root, paths, i, j, cur_node, cur_layer, end_layer,
                 up_layers, step>>

Next == Entry \/ CheckPath \/ CheckOp \/ BeginPath \/ Climb \/ EndPath \/ Finish

Spec == Init /\ [][Next]_vars

-----------------------------------------------------------------------------
(***************************************************************************)
(* Properties.                                                             *)
(***************************************************************************)

TypeOK ==
  /\ pc \in PCs
  /\ i \in Nat \ {0}
  /\ j \in Nat \ {0}
  /\ pending \in Seq(Node \X (0 .. KeyBits))
  /\ cur_node \in Node
  /\ cur_layer \in 0 .. KeyBits
  /\ end_layer \in 0 .. KeyBits
  /\ up_layers \in 0 .. KeyBits
  /\ step \in Nat
  /\ result \in [tag : Errors \cup {"Ok", "None"}, node : Node]

(***************************************************************************)
(* The batch preconditions of the doc comment (lines 257-263), as a        *)
(* predicate of the arguments.                                             *)
(***************************************************************************)
WellFormed ==
  \A x \in 1 .. Len(paths) :
    /\ paths[x].inner.root = prev_root
    /\ x # 1 => LexLess(Path(x - 1), Path(x))
    /\ Len(Ops(x)) > 0
    /\ \A y \in 1 .. Len(Ops(x)) :
          /\ y # 1 => LexLess(Ops(x)[y - 1][1], Ops(x)[y][1])
          /\ StartsWith(Ops(x)[y][1], Path(x))

\* Every op of the batch.
AllOps == UNION {{Ops(x)[y] : y \in 1 .. Len(Ops(x))} : x \in 1 .. Len(paths)}

\* trie0 with every op of the batch applied.
Applied ==
  [k \in KeyPath |->
     IF \E op \in AllOps : op[1] = k
     THEN (CHOOSE op \in AllOps : op[1] = k)[2]
     ELSE trie0[k]]

\* The node at position p of the trie after the update.
NewNode(p) == SubRoot(Applied, p)

(***************************************************************************)
(* verify_update never panics on a batch that passed validation: the bits  *)
(* a path shares with the next one are fewer than its length (`n always <  *)
(* skip`, line 314), so the usize subtraction at line 316 does not         *)
(* underflow, and the frontier is non-empty at the unwrap of line 375.     *)
(***************************************************************************)
NoPanic == pc \notin {"underflow", "unwrap"}

(***************************************************************************)
(* The left frontier invariant of the stitching loop: every pending entry  *)
(* <<node, layer>> is the updated trie's node at depth `layer` on the path *)
(* of a path already processed, the layers strictly increase towards the   *)
(* top of the stack, and the climbing node is the updated trie's node at   *)
(* cur_layer on the current path.  It is what makes pending-sibling        *)
(* replacement and compaction sound.                                       *)
(***************************************************************************)
FrontierInv ==
  pc \in {"begin", "climb", "finish"} =>
    /\ \A x \in 1 .. Len(pending) :
          \E m \in 1 .. i : pending[x][1] = NewNode(Take(Path(m), pending[x][2]))
    /\ \A x, y \in 1 .. Len(pending) : x < y => pending[x][2] < pending[y][2]
    /\ pc = "climb" => cur_node = NewNode(Take(Path(i), cur_layer))

(***************************************************************************)
(* Batch round trip (spec P3): a well-formed batch proved against the      *)
(* prior root is accepted, the returned root is the root of the prior trie *)
(* with all the ops applied, and the frontier is left empty.               *)
(***************************************************************************)
RootCorrect ==
  (pc = "done" /\ WellFormed /\ prev_root = TrieRoot(trie0)) =>
    /\ result = [tag |-> "Ok", node |-> TrieRoot(Applied)]
    /\ pending = <<>>

(***************************************************************************)
(* The validation is complete: verify_update returns Ok only for a batch   *)
(* that meets every precondition of its doc comment.                       *)
(***************************************************************************)
CheckSound == (pc = "done" /\ result.tag = "Ok") => WellFormed

(***************************************************************************)
(* When the last path has been climbed (line 375), the frontier holds one  *)
(* node, at layer 0: every node an earlier path pushed at line 370 was     *)
(* consumed as the sibling of a later path at line 341, none is left over  *)
(* and none is consumed twice, and the node the unwrap returns is the      *)
(* climbed root.                                                           *)
(***************************************************************************)
FrontierAtFinish == pc = "finish" => Len(pending) = 1 /\ pending[1][2] = 0

(***************************************************************************)
(* A pending frontier node replaces only a left sibling (lines 338-341):   *)
(* when the climb takes its sibling from pending_siblings, the current     *)
(* path goes right at that layer, so the frontier node, which lies on an   *)
(* earlier (smaller) path, becomes the left child of the hashed node.      *)
(***************************************************************************)
PendingIsLeftSibling ==
  [][Climb /\ ReplacesSibling => Path(i)[cur_layer] = 1]_vars

=============================================================================
