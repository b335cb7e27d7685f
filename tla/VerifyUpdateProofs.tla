-------------------------- MODULE VerifyUpdateProofs --------------------------
(***************************************************************************)
(* Proofs about VerifyUpdate that hold for every key width, value set and  *)
(* batch: the type invariant of the call and the soundness of its          *)
(* validation loop (verify_update returns Ok only for a batch meeting all  *)
(* of its documented preconditions).                                       *)
(***************************************************************************)
EXTENDS VerifyUpdate, FiniteSetTheorems, SequenceTheorems, TLAPS

-----------------------------------------------------------------------------
(***************************************************************************)
(* The inductive invariant.                                                *)
(***************************************************************************)

\* Path x and all of its ops passed validation.
PathDone(x) ==
  /\ PathCheck(x) = "Ok"
  /\ \A y \in 1 .. Len(Ops(x)) : OpCheck(x, y) = "Ok"

\* The arguments have the types of verify_update's parameters.
InputsOK == prev_root \in Node /\ paths \in Seq(PathUpdate)

\* The loop indices are in range where the code indexes with them, and the
\* climb's counters agree: cur_layer is `step` layers above the path's end.
ControlInv ==
  /\ pc = "entry" => i = 1
  /\ pc \in {"path", "op", "begin", "climb", "finish"} => i \in 1 .. Len(paths)
  /\ pc = "op" => j \in 1 .. Len(Ops(i))
  /\ pc = "climb" => /\ up_layers <= Len(Path(i))
                     /\ end_layer = Len(Path(i)) - up_layers
                     /\ step <= ClimbLength
                     /\ cur_layer = Len(Path(i)) - step

\* What the validation loop has established so far.
CheckInv ==
  /\ pc = "path" => \A x \in 1 .. i - 1 : PathDone(x)
  /\ pc = "op" => /\ \A x \in 1 .. i - 1 : PathDone(x)
                  /\ PathCheck(i) = "Ok"
                  /\ \A y \in 1 .. j - 1 : OpCheck(i, y) = "Ok"
  /\ pc \in {"begin", "climb", "finish"} => WellFormed
  /\ (pc = "done" /\ result.tag = "Ok") => WellFormed

IInv == TypeOK /\ InputsOK /\ ControlInv /\ CheckInv

-----------------------------------------------------------------------------
(***************************************************************************)
(* Lemmas about the operators of the model.                                *)
(***************************************************************************)

\* hash_internal of two digests is a digest.
LEMMA HashInternalType ==
  ASSUME NEW a \in Node, NEW b \in Node
  PROVE  HashInternal(a, b) \in Node
BY DEF HashInternal, Node

\* The compaction match returns a digest.
LEMMA CompactType ==
  ASSUME NEW c \in Node, NEW s \in Node, NEW bit
  PROVE  Compact(c, s, bit) \in Node
<1>1. HashInternal(s, c) \in Node /\ HashInternal(c, s) \in Node
  BY HashInternalType
<1>. QED
  BY <1>1 DEF Compact

\* shared_bits is at most the length of either slice.
LEMMA SharedBitsType ==
  ASSUME NEW a \in Seq(Bit), NEW b \in Seq(Bit)
  PROVE  SharedBits(a, b) \in 0 .. MinNat(Len(a), Len(b))
<1>. DEFINE m == MinNat(Len(a), Len(b))
            S == {n \in 1 .. m : \A k \in 1 .. n : a[k] = b[k]}
<1>1. m \in Nat
  BY DEF MinNat
<1>2. IsFiniteSet(1 .. m) /\ Cardinality(1 .. m) = m
  BY <1>1, FS_Interval
<1>3. IsFiniteSet(S) /\ Cardinality(S) <= m
  BY <1>2, FS_Subset
<1>4. Cardinality(S) \in Nat
  BY <1>3, FS_CardinalityType
<1>. QED
  BY <1>3, <1>4 DEF SharedBits

\* The value of PathCheck is "Ok" or one of the errors.
LEMMA PathCheckValue ==
  ASSUME NEW x
  PROVE  /\ PathCheck(x) \in Errors \cup {"Ok"}
         /\ PathCheck(x) = "Ok" <=>
              /\ paths[x].inner.root = prev_root
              /\ x # 1 => LexLess(Path(x - 1), Path(x))
              /\ Len(Ops(x)) # 0
BY DEF PathCheck, Errors

\* The value of OpCheck is "Ok" or one of the errors.
LEMMA OpCheckValue ==
  ASSUME NEW x, NEW y
  PROVE  /\ OpCheck(x, y) \in Errors \cup {"Ok"}
         /\ OpCheck(x, y) = "Ok" <=>
              /\ y # 1 => LexLess(Ops(x)[y - 1][1], Ops(x)[y][1])
              /\ StartsWith(Ops(x)[y][1], Path(x))
BY DEF OpCheck, Errors

\* A batch is well formed exactly when every path passes validation.
LEMMA WellFormedPathDone ==
  ASSUME paths \in Seq(PathUpdate)
  PROVE  WellFormed <=> \A x \in 1 .. Len(paths) : PathDone(x)
<1>1. ASSUME NEW x \in 1 .. Len(paths)
      PROVE  PathDone(x) <=>
               /\ paths[x].inner.root = prev_root
               /\ x # 1 => LexLess(Path(x - 1), Path(x))
               /\ Len(Ops(x)) > 0
               /\ \A y \in 1 .. Len(Ops(x)) :
                     /\ y # 1 => LexLess(Ops(x)[y - 1][1], Ops(x)[y][1])
                     /\ StartsWith(Ops(x)[y][1], Path(x))
  <2>1. Len(Ops(x)) \in Nat
    BY DEF PathUpdate, Ops
  <2>2. PathCheck(x) = "Ok" <=>
          /\ paths[x].inner.root = prev_root
          /\ x # 1 => LexLess(Path(x - 1), Path(x))
          /\ Len(Ops(x)) > 0
    BY <2>1, PathCheckValue
  <2>3. \A y : OpCheck(x, y) = "Ok" <=>
                 /\ y # 1 => LexLess(Ops(x)[y - 1][1], Ops(x)[y][1])
                 /\ StartsWith(Ops(x)[y][1], Path(x))
    BY OpCheckValue
  <2>. QED
    BY <2>2, <2>3 DEF PathDone
<1>. QED
  BY <1>1 DEF WellFormed

\* What a PathUpdate of the arguments provides: a proven prefix of at most
\* KeyBits bits, one sibling per bit, typed ops, and a terminal leaf below
\* the prefix.
LEMMA PathType ==
  ASSUME InputsOK, NEW x \in 1 .. Len(paths)
  PROVE  /\ Path(x) \in Seq(Bit)
         /\ Len(Path(x)) \in 0 .. KeyBits
         /\ Path(x) \in [1 .. Len(Path(x)) -> Bit]
         /\ Sibs(x) \in Seq(Node)
         /\ Len(Sibs(x)) = Len(Path(x))
         /\ Ops(x) \in Seq(Op)
         /\ paths[x].inner.terminal \in LeafOption
         /\ \A l \in paths[x].inner.terminal : StartsWith(l.key_path, Path(x))
         /\ paths[x].inner.root \in Node
<1>1. paths[x] \in PathUpdate
  BY DEF InputsOK
<1>2. paths[x].inner \in VerifiedPathProof
  BY <1>1 DEF PathUpdate
<1>. QED
  BY <1>1, <1>2 DEF VerifiedPathProof, PathUpdate, Path, Sibs, Ops

\* leaf_ops_spliced of a validated path: leaves with distinct keys, all
\* below the path's prefix.
LEMMA SplicedLeaves ==
  ASSUME InputsOK, NEW x \in 1 .. Len(paths), PathDone(x)
  PROVE  LET L == LeafOpsSpliced(paths[x].inner.terminal, Ops(x))
         IN  /\ L \subseteq LeafData
             /\ \A l \in L : StartsWith(l.key_path, Path(x))
             /\ \A l1, l2 \in L : l1.key_path = l2.key_path => l1 = l2
<1>. DEFINE ops  == Ops(x)
            term == paths[x].inner.terminal
            W    == {[key_path |-> k, value_hash |-> OpValue(ops, k)] :
                       k \in {z \in OpKeys(ops) : OpValue(ops, z) # NoValue}}
            K    == {l \in term : l.key_path \notin OpKeys(ops)}
<1>1. ops \in Seq(Op) /\ term \in LeafOption
      /\ \A l \in term : StartsWith(l.key_path, Path(x))
  BY PathType
<1>2. \A y \in 1 .. Len(ops) : StartsWith(ops[y][1], Path(x))
  BY OpCheckValue DEF PathDone
<1>3. ASSUME NEW k \in OpKeys(ops)
      PROVE  /\ k \in KeyPath
             /\ OpValue(ops, k) \in Vals \cup {NoValue}
             /\ StartsWith(k, Path(x))
  <2>1. PICK y \in 1 .. Len(ops) : ops[y][1] = k
    BY DEF OpKeys
  <2>2. \E z \in 1 .. Len(ops) : ops[z][1] = k
    BY <2>1
  <2>3. (CHOOSE z \in 1 .. Len(ops) : ops[z][1] = k) \in 1 .. Len(ops)
    BY <2>2
  <2>. QED
    BY <1>1, <1>2, <2>1, <2>3 DEF OpValue, Op
<1>4. W \subseteq LeafData /\ \A l \in W : StartsWith(l.key_path, Path(x))
  BY <1>3 DEF LeafData
<1>5. K \subseteq LeafData /\ \A l \in K : StartsWith(l.key_path, Path(x))
  BY <1>1 DEF LeafOption
<1>6. ASSUME NEW l1 \in W \cup K, NEW l2 \in W \cup K, l1.key_path = l2.key_path
      PROVE  l1 = l2
  <2>1. CASE l1 \in W /\ l2 \in W
    BY <2>1, <1>6
  <2>2. CASE l1 \in K /\ l2 \in K
    BY <2>2, <1>1 DEF LeafOption
  <2>3. CASE l1 \in W /\ l2 \in K
    BY <2>3, <1>6
  <2>4. CASE l1 \in K /\ l2 \in W
    BY <2>4, <1>6
  <2>. QED
    BY <2>1, <2>2, <2>3, <2>4
<1>. QED
  BY <1>4, <1>5, <1>6 DEF LeafOpsSpliced

\* The sub-trie root build_trie computes for a validated path is a digest.
LEMMA SubTrieType ==
  ASSUME InputsOK, NEW x \in 1 .. Len(paths), PathDone(x)
  PROVE  BuildTrie(Len(Path(x)),
                   LeafOpsSpliced(paths[x].inner.terminal, Ops(x))) \in Node
<1>. DEFINE L == LeafOpsSpliced(paths[x].inner.terminal, Ops(x))
<1>1. Len(Path(x)) \in 0 .. KeyBits /\ Path(x) \in [1 .. Len(Path(x)) -> Bit]
  BY PathType
<1>2. /\ L \in SUBSET LeafData
      /\ \A l \in L : StartsWith(l.key_path, Path(x))
      /\ \A l1, l2 \in L : l1.key_path = l2.key_path => l1 = l2
  BY SplicedLeaves
<1>. QED
  BY <1>1, <1>2, BuildTrieType

-----------------------------------------------------------------------------
(***************************************************************************)
(* IInv is inductive.                                                      *)
(***************************************************************************)

\* No step changes the arguments, so nothing computed from them changes.
LEMMA ArgsUnchanged ==
  ASSUME paths' = paths, prev_root' = prev_root
  PROVE  /\ InputsOK' = InputsOK
         /\ WellFormed' = WellFormed
         /\ \A x : /\ Path(x)' = Path(x)
                   /\ Ops(x)' = Ops(x)
                   /\ Sibs(x)' = Sibs(x)
                   /\ PathCheck(x)' = PathCheck(x)
                   /\ PathDone(x)' = PathDone(x)
                   /\ \A y : OpCheck(x, y)' = OpCheck(x, y)
BY DEF InputsOK, WellFormed, Path, Ops, Sibs, PathCheck, PathDone, OpCheck

\* Every call starts in a state of the invariant.
LEMMA InitIInv == Init => IInv
<1>. SUFFICES ASSUME Init PROVE IInv
  OBVIOUS
<1>1. PICK b \in Batches : /\ trie0 = b.trie
                           /\ prev_root = b.prev_root
                           /\ paths = b.paths
  BY DEF Init
<1>2. InputsOK
  BY <1>1, BatchesAssumption DEF InputsOK
<1>3. TypeOK
  BY KeyBitsAssumption DEF Init, TypeOK, PCs, TERMINATOR, Node
<1>. QED
  BY <1>2, <1>3 DEF Init, IInv, ControlInv, CheckInv

\* The step of Entry keeps the invariant.
LEMMA EntryIInv == IInv /\ Entry => IInv'
<1>. SUFFICES ASSUME IInv, Entry PROVE IInv'
  OBVIOUS
<1>. USE DEF IInv
<1>1. /\ Len(paths) \in Nat
      /\ InputsOK' = InputsOK /\ WellFormed' = WellFormed
  BY ArgsUnchanged DEF Entry, InputsOK
<1>2. CASE Len(paths) = 0
  <2>1. pc' = "done" /\ result' = [tag |-> "Ok", node |-> prev_root]
    BY <1>2 DEF Entry
  <2>2. WellFormed
    BY <1>2 DEF WellFormed
  <2>. QED
    BY <1>1, <2>1, <2>2 DEF Entry, TypeOK, PCs, InputsOK, ControlInv, CheckInv
<1>3. CASE Len(paths) # 0
  <2>1. pc' = "path" /\ result' = result /\ i' = i /\ i = 1
    BY <1>3 DEF Entry, ControlInv
  <2>2. 1 \in 1 .. Len(paths)
    BY <1>1, <1>3
  <2>. QED
    BY <1>1, <2>1, <2>2 DEF Entry, TypeOK, PCs, ControlInv, CheckInv
<1>. QED
  BY <1>2, <1>3

\* The step of CheckPath keeps the invariant.
LEMMA CheckPathIInv == IInv /\ CheckPath => IInv'
<1>. SUFFICES ASSUME IInv, CheckPath PROVE IInv'
  OBVIOUS
<1>. USE DEF IInv
<1>1. i \in 1 .. Len(paths) /\ pc = "path" /\ paths' = paths
  BY DEF ControlInv, CheckPath
<1>2. /\ Len(Ops(i)) \in Nat
      /\ PathCheck(i) \in Errors \cup {"Ok"}
      /\ InputsOK' = InputsOK
      /\ PathCheck(i)' = PathCheck(i)
      /\ \A x : PathDone(x)' = PathDone(x)
      /\ Ops(i)' = Ops(i)
  BY <1>1, PathType, PathCheckValue, ArgsUnchanged DEF CheckPath
<1>3. CASE PathCheck(i) = "Ok"
  <2>1. Len(Ops(i)) > 0
    BY <1>3, PathCheckValue
  <2>2. pc' = "op" /\ j' = 1 /\ i' = i /\ result' = result
    BY <1>3 DEF CheckPath
  <2>3. TypeOK'
    BY <2>2 DEF CheckPath, TypeOK, PCs
  <2>4. ControlInv'
    BY <1>1, <2>1, <2>2 DEF ControlInv, Ops
  <2>5. CheckInv'
    BY <1>1, <1>2, <1>3, <2>2 DEF CheckInv
  <2>. QED
    BY <1>2, <2>3, <2>4, <2>5
<1>4. CASE PathCheck(i) # "Ok"
  <2>1. pc' = "done" /\ result' = [tag |-> PathCheck(i), node |-> <<>>]
    BY <1>4 DEF CheckPath, Fail
  <2>2. TypeOK'
    BY <1>2, <1>4, <2>1 DEF CheckPath, TypeOK, PCs, Node
  <2>3. "Ok" \notin Errors
    BY DEF Errors
  <2>. QED
    BY <1>2, <1>4, <2>1, <2>2, <2>3 DEF ControlInv, CheckInv
<1>. QED
  BY <1>3, <1>4

\* The step of CheckOp keeps the invariant.
LEMMA CheckOpIInv == IInv /\ CheckOp => IInv'
<1>. SUFFICES ASSUME IInv, CheckOp PROVE IInv'
  OBVIOUS
<1>. USE DEF IInv
<1>1. /\ pc = "op"
      /\ i \in 1 .. Len(paths)
      /\ j \in 1 .. Len(Ops(i))
      /\ paths' = paths /\ prev_root' = prev_root
      /\ UNCHANGED <<pending, cur_node, cur_layer, end_layer, up_layers, step>>
  BY DEF CheckOp, ControlInv
<1>2. /\ InputsOK' = InputsOK
      /\ WellFormed' = WellFormed
      /\ \A x : PathDone(x)' = PathDone(x)
      /\ \A x, y : OpCheck(x, y)' = OpCheck(x, y)
      /\ \A x : PathCheck(x)' = PathCheck(x)
  BY <1>1, ArgsUnchanged
<1>3. /\ \A x \in 1 .. i - 1 : PathDone(x)
      /\ PathCheck(i) = "Ok"
      /\ \A y \in 1 .. j - 1 : OpCheck(i, y) = "Ok"
  BY <1>1 DEF CheckInv
<1>4. Len(Ops(i)) \in Nat /\ Len(paths) \in Nat
  BY <1>1, PathType DEF InputsOK
<1>5. CASE /\ OpCheck(i, j) # "Ok"
           /\ Fail(OpCheck(i, j))
           /\ UNCHANGED <<i, j>>
  <2>1. pc' = "done" /\ result' = [tag |-> OpCheck(i, j), node |-> <<>>]
    BY <1>5 DEF Fail
  <2>2. OpCheck(i, j) \in Errors /\ "Ok" \notin Errors
    BY <1>5, OpCheckValue DEF Errors
  <2>3. TypeOK'
    BY <1>1, <1>5, <2>1, <2>2 DEF TypeOK, PCs, Node
  <2>. QED
    BY <1>2, <2>1, <2>2, <2>3 DEF ControlInv, CheckInv
<1>6. CASE /\ OpCheck(i, j) = "Ok"
           /\ j < Len(Ops(i))
           /\ j' = j + 1
           /\ UNCHANGED <<pc, i, result>>
  <2>1. TypeOK'
    BY <1>1, <1>6 DEF TypeOK
  <2>2. ControlInv'
    BY <1>1, <1>4, <1>6 DEF ControlInv, Ops
  <2>3. \A y \in 1 .. j : OpCheck(i, y) = "Ok"
    BY <1>1, <1>3, <1>4, <1>6
  <2>. QED
    BY <1>1, <1>2, <1>3, <1>6, <2>1, <2>2, <2>3 DEF CheckInv
<1>8. ASSUME OpCheck(i, j) = "Ok", j = Len(Ops(i))
      PROVE  \A x \in 1 .. i : PathDone(x)
  <2>1. \A y \in 1 .. Len(Ops(i)) : OpCheck(i, y) = "Ok"
    BY <1>1, <1>3, <1>8
  <2>2. PathDone(i)
    BY <1>3, <2>1 DEF PathDone
  <2>. QED
    BY <1>1, <1>3, <1>4, <2>2
<1>9. CASE /\ OpCheck(i, j) = "Ok"
           /\ j = Len(Ops(i))
           /\ i < Len(paths)
           /\ i' = i + 1
           /\ pc' = "path"
           /\ UNCHANGED <<j, result>>
  <2>1. TypeOK'
    BY <1>1, <1>9 DEF TypeOK, PCs
  <2>2. ControlInv'
    BY <1>1, <1>4, <1>9 DEF ControlInv
  <2>3. CheckInv'
    BY <1>1, <1>2, <1>4, <1>8, <1>9 DEF CheckInv
  <2>. QED
    BY <1>2, <2>1, <2>2, <2>3
<1>10. CASE /\ OpCheck(i, j) = "Ok"
            /\ j = Len(Ops(i))
            /\ i = Len(paths)
            /\ i' = 1
            /\ pc' = "begin"
            /\ UNCHANGED <<j, result>>
  <2>1. TypeOK'
    BY <1>1, <1>10 DEF TypeOK, PCs
  <2>2. ControlInv'
    BY <1>1, <1>4, <1>10 DEF ControlInv
  <2>3. WellFormed
    BY <1>1, <1>8, <1>10, WellFormedPathDone DEF InputsOK
  <2>4. CheckInv'
    BY <1>2, <1>10, <2>3 DEF CheckInv
  <2>. QED
    BY <1>2, <2>1, <2>2, <2>4
<1>. QED
  BY <1>5, <1>6, <1>9, <1>10 DEF CheckOp

\* up_layers of a path is at most the path's length; when the code does not
\* underflow it is a natural.
LEMMA UpLayersType ==
  ASSUME InputsOK, NEW x \in 1 .. Len(paths)
  PROVE  UpLayers(x) \in Int /\ UpLayers(x) <= Len(Path(x))
<1>1. Len(Path(x)) \in 0 .. KeyBits
  BY PathType
<1>2. CASE x # Len(paths)
  <2>1. x + 1 \in 1 .. Len(paths)
    BY <1>2 DEF InputsOK
  <2>2. SharedBits(Path(x + 1), Path(x)) \in Nat
    BY <2>1, PathType, SharedBitsType DEF MinNat
  <2>. QED
    BY <1>1, <1>2, <2>2 DEF UpLayers
<1>. QED
  BY <1>1, <1>2 DEF UpLayers

\* The step of BeginPath keeps the invariant.
LEMMA BeginPathIInv == IInv /\ BeginPath => IInv'
<1>. SUFFICES ASSUME IInv, BeginPath PROVE IInv'
  OBVIOUS
<1>. USE DEF IInv
<1>1. /\ pc = "begin"
      /\ i \in 1 .. Len(paths)
      /\ WellFormed
      /\ paths' = paths /\ prev_root' = prev_root
      /\ UNCHANGED <<i, j, pending, result>>
      /\ step' = 0
  BY DEF BeginPath, ControlInv, CheckInv
<1>2. /\ InputsOK' = InputsOK
      /\ WellFormed' = WellFormed
  BY <1>1, ArgsUnchanged
<1>3. /\ Len(Path(i)) \in 0 .. KeyBits
      /\ Sibs(i) \in Seq(Node)
      /\ UpLayers(i) \in Int /\ UpLayers(i) <= Len(Path(i))
  BY <1>1, PathType, UpLayersType
<1>4. CASE UpLayers(i) < 0
  <2>1. pc' = "underflow" /\ UNCHANGED <<cur_node, cur_layer, end_layer, up_layers>>
    BY <1>4 DEF BeginPath
  <2>. QED
    BY <1>1, <1>2, <2>1 DEF TypeOK, PCs, ControlInv, CheckInv
<1>5. CASE ~(UpLayers(i) < 0)
  <2>1. /\ pc' = "climb"
        /\ cur_node' = BuildTrie(Len(Path(i)),
                                 LeafOpsSpliced(paths[i].inner.terminal, Ops(i)))
        /\ cur_layer' = Len(Path(i))
        /\ up_layers' = UpLayers(i)
        /\ end_layer' = Len(Path(i)) - UpLayers(i)
    BY <1>5 DEF BeginPath
  <2>2. PathDone(i)
    BY <1>1, WellFormedPathDone DEF InputsOK
  <2>3. cur_node' \in Node
    BY <1>1, <2>1, <2>2, SubTrieType
  <2>4. /\ up_layers' \in 0 .. KeyBits
        /\ end_layer' \in 0 .. KeyBits
        /\ cur_layer' \in 0 .. KeyBits
    BY <1>3, <1>5, <2>1, KeyBitsAssumption
  <2>7. TypeOK'
    BY <1>1, <2>1, <2>3, <2>4 DEF TypeOK, PCs
  <2>5. ClimbLength' \in Nat
    BY <1>1, <1>3, <1>5, <2>1 DEF ClimbLength, MinNat, Path, Sibs
  <2>6. ControlInv'
    BY <1>1, <1>3, <1>5, <2>1, <2>5 DEF ControlInv, Path
  <2>. QED
    BY <1>1, <1>2, <2>1, <2>6, <2>7 DEF CheckInv
<1>. QED
  BY <1>4, <1>5

\* Popping the top of the frontier leaves a frontier.
LEMMA PopType ==
  ASSUME NEW S, NEW s \in Seq(S), Len(s) > 0
  PROVE  /\ SubSeq(s, 1, Len(s) - 1) \in Seq(S)
         /\ s[Len(s)] \in S
<1>1. \A k \in 1 .. Len(s) - 1 : s[k] \in S
  OBVIOUS
<1>. QED
  BY <1>1, SubSeqProperties

\* The step of Climb keeps the invariant.
LEMMA ClimbIInv == IInv /\ Climb => IInv'
<1>. SUFFICES ASSUME IInv, Climb PROVE IInv'
  OBVIOUS
<1>. USE DEF IInv
<1>1. /\ pc = "climb"
      /\ i \in 1 .. Len(paths)
      /\ step < ClimbLength
      /\ step \in Nat
      /\ cur_layer = Len(Path(i)) - step
      /\ pc' = pc /\ step' = step + 1 /\ cur_layer' = cur_layer - 1
      /\ paths' = paths /\ prev_root' = prev_root
      /\ UNCHANGED <<i, j, end_layer, up_layers, result>>
  BY DEF Climb, ControlInv, TypeOK
<1>2. /\ InputsOK' = InputsOK
      /\ WellFormed' = WellFormed
  BY <1>1, ArgsUnchanged
<1>3. /\ Len(Path(i)) \in 0 .. KeyBits
      /\ Sibs(i) \in Seq(Node)
      /\ Len(Sibs(i)) = Len(Path(i))
      /\ up_layers \in 0 .. KeyBits
      /\ pending \in Seq(Node \X (0 .. KeyBits))
      /\ cur_node \in Node
  BY <1>1, PathType DEF TypeOK
<1>4. step < Len(Path(i)) /\ step < up_layers
  BY <1>1, <1>3 DEF ClimbLength, MinNat
<1>. DEFINE bit     == Path(i)[Len(Path(i)) - step]
            sibling == IF ReplacesSibling THEN pending[Len(pending)][1]
                       ELSE Sibs(i)[Len(Sibs(i)) - step]
<1>5. sibling \in Node
  <2>1. CASE ReplacesSibling
    BY <1>3, <2>1, PopType DEF ReplacesSibling
  <2>2. CASE ~ReplacesSibling
    <3>1. Len(Sibs(i)) - step \in 1 .. Len(Sibs(i))
      BY <1>1, <1>3, <1>4
    <3>. QED
      BY <1>3, <2>2, <3>1
  <2>. QED
    BY <2>1, <2>2
<1>6. cur_node' = Compact(cur_node, sibling, bit)
  BY DEF Climb
<1>7. cur_node' \in Node
  BY <1>3, <1>5, <1>6, CompactType
<1>8. pending' \in Seq(Node \X (0 .. KeyBits))
  <2>1. CASE ReplacesSibling
    <3>1. pending' = SubSeq(pending, 1, Len(pending) - 1)
      BY <2>1 DEF Climb
    <3>. QED
      BY <1>3, <2>1, <3>1, PopType DEF ReplacesSibling
  <2>2. CASE ~ReplacesSibling
    BY <1>3, <2>2 DEF Climb
  <2>. QED
    BY <2>1, <2>2
<1>9. cur_layer' \in 0 .. KeyBits
  BY <1>1, <1>3, <1>4, KeyBitsAssumption
<1>10. TypeOK'
  BY <1>1, <1>7, <1>8, <1>9 DEF TypeOK
<1>11. ControlInv'
  <2>1. ClimbLength' = ClimbLength
    BY <1>1 DEF ClimbLength, Path, Sibs
  <2>2. ClimbLength \in Int
    BY <1>3 DEF ClimbLength, MinNat
  <2>3. /\ up_layers' <= Len(Path(i))'
        /\ end_layer' = Len(Path(i))' - up_layers'
        /\ cur_layer' = Len(Path(i))' - step'
    BY <1>1, <1>3 DEF ControlInv, Path
  <2>. QED
    BY <1>1, <2>1, <2>2, <2>3 DEF ControlInv
<1>12. CheckInv'
  BY <1>1, <1>2 DEF CheckInv
<1>. QED
  BY <1>2, <1>10, <1>11, <1>12

\* The step of EndPath keeps the invariant.
LEMMA EndPathIInv == IInv /\ EndPath => IInv'
<1>. SUFFICES ASSUME IInv, EndPath PROVE IInv'
  OBVIOUS
<1>. USE DEF IInv
<1>1. /\ pc = "climb"
      /\ i \in 1 .. Len(paths)
      /\ WellFormed
      /\ paths' = paths /\ prev_root' = prev_root
      /\ UNCHANGED <<j, cur_node, cur_layer, end_layer, up_layers, step, result>>
      /\ pending' = Append(pending, <<cur_node, end_layer>>)
  BY DEF EndPath, ControlInv, CheckInv
<1>2. /\ InputsOK' = InputsOK
      /\ WellFormed' = WellFormed
  BY <1>1, ArgsUnchanged
<1>3. pending' \in Seq(Node \X (0 .. KeyBits))
  <2>1. <<cur_node, end_layer>> \in Node \X (0 .. KeyBits)
    BY DEF TypeOK
  <2>. QED
    BY <1>1, <2>1, AppendProperties DEF TypeOK
<1>4. CASE i < Len(paths)
  <2>1. i' = i + 1 /\ pc' = "begin"
    BY <1>4 DEF EndPath
  <2>2. i' \in 1 .. Len(paths)
    BY <1>1, <1>4, <2>1 DEF InputsOK
  <2>. QED
    BY <1>1, <1>2, <1>3, <2>1, <2>2 DEF TypeOK, PCs, ControlInv, CheckInv
<1>5. CASE ~(i < Len(paths))
  <2>1. i' = i /\ pc' = "finish"
    BY <1>5 DEF EndPath
  <2>. QED
    BY <1>1, <1>2, <1>3, <2>1 DEF TypeOK, PCs, ControlInv, CheckInv
<1>. QED
  BY <1>4, <1>5

\* The step of Finish keeps the invariant.
LEMMA FinishIInv == IInv /\ Finish => IInv'
<1>. SUFFICES ASSUME IInv, Finish PROVE IInv'
  OBVIOUS
<1>. USE DEF IInv
<1>1. /\ pc = "finish"
      /\ WellFormed
      /\ pending \in Seq(Node \X (0 .. KeyBits))
      /\ paths' = paths /\ prev_root' = prev_root
      /\ UNCHANGED <<i, j, cur_node, cur_layer, end_layer, up_layers, step>>
  BY DEF Finish, CheckInv, TypeOK
<1>2. /\ InputsOK' = InputsOK
      /\ WellFormed' = WellFormed
  BY <1>1, ArgsUnchanged
<1>3. CASE Len(pending) > 0
  <2>1. /\ pc' = "done"
        /\ result' = [tag |-> "Ok", node |-> pending[Len(pending)][1]]
        /\ pending' = SubSeq(pending, 1, Len(pending) - 1)
    BY <1>3 DEF Finish
  <2>2. pending' \in Seq(Node \X (0 .. KeyBits))
        /\ pending[Len(pending)] \in Node \X (0 .. KeyBits)
    BY <1>1, <1>3, <2>1, PopType
  <2>3. TypeOK'
    BY <1>1, <2>1, <2>2 DEF TypeOK, PCs
  <2>. QED
    BY <1>1, <1>2, <2>1, <2>3 DEF ControlInv, CheckInv
<1>4. CASE ~(Len(pending) > 0)
  <2>1. pc' = "unwrap" /\ UNCHANGED <<pending, result>>
    BY <1>4 DEF Finish
  <2>. QED
    BY <1>1, <1>2, <2>1 DEF TypeOK, PCs, ControlInv, CheckInv
<1>. QED
  BY <1>3, <1>4

-----------------------------------------------------------------------------
\* IInv holds in every state of every call.
THEOREM IInvInvariant == Spec => []IInv
<1>1. Init => IInv
  BY InitIInv
<1>2. IInv /\ [Next]_vars => IInv'
  <2>. SUFFICES ASSUME IInv, [Next]_vars PROVE IInv'
    OBVIOUS
  <2>1. CASE Entry      BY <2>1, EntryIInv
  <2>2. CASE CheckPath  BY <2>2, CheckPathIInv
  <2>3. CASE CheckOp    BY <2>3, CheckOpIInv
  <2>4. CASE BeginPath  BY <2>4, BeginPathIInv
  <2>5. CASE Climb      BY <2>5, ClimbIInv
  <2>6. CASE EndPath    BY <2>6, EndPathIInv
  <2>7. CASE Finish     BY <2>7, FinishIInv
  <2>8. CASE UNCHANGED vars
    BY <2>8 DEF vars, IInv, TypeOK, InputsOK, ControlInv, CheckInv, PathDone,
                WellFormed, PathCheck, OpCheck, Path, Ops, Sibs, ClimbLength
  <2>. QED
    BY <2>1, <2>2, <2>3, <2>4, <2>5, <2>6, <2>7, <2>8 DEF Next
<1>. QED
  BY <1>1, <1>2, PTL DEF Spec

(***************************************************************************)
(* Type correctness of verify_update: every state of a call has its       *)
(* variables in their types (pending holds digests at layers within a key, *)
(* the layers never leave 0 .. KeyBits).                                   *)
(***************************************************************************)
THEOREM TypeCorrect == Spec => []TypeOK
BY IInvInvariant, PTL DEF IInv

(***************************************************************************)
(* Soundness of the validation loop (lines 276-301): whenever              *)
(* verify_update returns Ok, the batch met every precondition of its doc   *)
(* comment (roots equal prev_root, paths strictly ascending, every path    *)
(* with ops, ops strictly ascending and in the scope of their path).       *)
(***************************************************************************)
THEOREM CheckSoundness == Spec => []CheckSound
<1>1. IInv => CheckSound
  BY DEF IInv, CheckInv, CheckSound
<1>. QED
  BY <1>1, IInvInvariant, PTL

=============================================================================
