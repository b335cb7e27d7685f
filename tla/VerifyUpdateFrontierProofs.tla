---------------------- MODULE VerifyUpdateFrontierProofs ----------------------
(***************************************************************************)
(* The shape of verify_update's left frontier (pending_siblings), for      *)
(* every key width and every set of batches of verified paths: its layers  *)
(* strictly increase, every pending node is a left sibling of the path     *)
(* being climbed, a pending node replaces a proof sibling only where the   *)
(* path goes right, and when the last path has been climbed the frontier   *)
(* holds the root alone.  The argument rests on the order and the          *)
(* prefix-freeness of the validated paths, not on what the nodes hold.     *)
(***************************************************************************)
EXTENDS VerifyUpdatePanicProofs

(***************************************************************************)
(* The inductive invariant.                                                *)
(***************************************************************************)

\* The layers of the frontier strictly increase towards its top.
FrontierOrdered ==
  \A x, y \in 1 .. Len(pending) : x < y => pending[x][2] < pending[y][2]

\* Before path i's push, every pending node sits at a layer of path i where
\* the path goes right: it is the left sibling there.
FrontierLeft ==
  pc \in {"begin", "climb"} =>
    \A x \in 1 .. Len(pending) :
      /\ pending[x][2] \in 1 .. Len(Path(i))
      /\ Path(i)[pending[x][2]] = 1

\* During the climb no pending node lies above the climbing node, and the
\* climb ends at the layer below the divergence from the next path.
FrontierBelow ==
  pc = "climb" =>
    /\ up_layers = UpLayers(i)
    /\ \A x \in 1 .. Len(pending) : pending[x][2] <= cur_layer

\* The frontier is empty while the batch is validated.
FrontierEmptyBefore == pc \in {"entry", "path", "op"} => pending = <<>>

Frontier ==
  /\ FrontierOrdered
  /\ FrontierLeft
  /\ FrontierBelow
  /\ FrontierEmptyBefore
  /\ FrontierAtFinish

FInv == PInv /\ Frontier

-----------------------------------------------------------------------------
(***************************************************************************)
(* Lemmas about shared_bits and the path order.                            *)
(***************************************************************************)

\* shared_bits does not depend on the order of its arguments.
LEMMA SharedBitsSym ==
  ASSUME NEW a \in Seq(Bit), NEW b \in Seq(Bit)
  PROVE  SharedBits(a, b) = SharedBits(b, a)
<1>1. MinNat(Len(a), Len(b)) = MinNat(Len(b), Len(a))
  BY DEF MinNat
<1>2. {n \in 1 .. MinNat(Len(a), Len(b)) : \A k \in 1 .. n : a[k] = b[k]}
      = {n \in 1 .. MinNat(Len(b), Len(a)) : \A k \in 1 .. n : b[k] = a[k]}
  BY <1>1
<1>. QED
  BY <1>2 DEF SharedBits

\* The first shared_bits(a, b) bits of a and b are equal.
LEMMA SharedBitsShared ==
  ASSUME NEW a \in Seq(Bit), NEW b \in Seq(Bit)
  PROVE  \A k \in 1 .. SharedBits(a, b) : a[k] = b[k]
<1>. DEFINE m == MinNat(Len(a), Len(b))
            S == {n \in 1 .. m : \A k \in 1 .. n : a[k] = b[k]}
<1>1. m \in Nat /\ IsFiniteSet(1 .. m) /\ S \subseteq 1 .. m
  BY FS_Interval DEF MinNat
<1>2. IsFiniteSet(S) /\ Cardinality(S) \in Nat /\ SharedBits(a, b) = Cardinality(S)
  BY <1>1, FS_Subset, FS_CardinalityType DEF SharedBits
<1>. SUFFICES ASSUME NEW k \in 1 .. Cardinality(S) PROVE a[k] = b[k]
  BY <1>2
<1>3. SUFFICES k \in S
  OBVIOUS
<1>4. SUFFICES ASSUME k \notin S PROVE FALSE
  OBVIOUS
<1>5. S \subseteq 1 .. k - 1
  <2>1. ASSUME NEW n \in S, n >= k PROVE FALSE
    <3>1. k \in 1 .. m /\ \A q \in 1 .. k : a[q] = b[q]
      BY <2>1, <1>1
    <3>. QED
      BY <1>4, <3>1
  <2>. QED
    BY <1>1, <2>1
<1>6. IsFiniteSet(1 .. k - 1) /\ Cardinality(1 .. k - 1) = k - 1
  BY FS_Interval
<1>7. Cardinality(S) <= k - 1
  BY <1>5, <1>6, FS_Subset
<1>. QED
  BY <1>2, <1>7

\* Two validated paths in order, neither a prefix of the other: they share
\* shared_bits of their bits, and at the next bit the smaller one goes left
\* and the larger one right.
LEMMA Divergence ==
  ASSUME NEW a \in Seq(Bit), NEW b \in Seq(Bit),
         LexLess(b, a), ~StartsWith(a, b), ~StartsWith(b, a)
  PROVE  /\ SharedBits(a, b) \in Nat
         /\ SharedBits(a, b) + 1 \in 1 .. Len(a)
         /\ SharedBits(a, b) + 1 \in 1 .. Len(b)
         /\ \A k \in 1 .. SharedBits(a, b) : a[k] = b[k]
         /\ b[SharedBits(a, b) + 1] = 0
         /\ a[SharedBits(a, b) + 1] = 1
<1>. DEFINE sb == SharedBits(a, b)
            m  == MinNat(Len(a), Len(b))
            S  == {n \in 1 .. m : \A k \in 1 .. n : a[k] = b[k]}
<1>1. sb \in 0 .. m /\ m \in Nat /\ m <= Len(a) /\ m <= Len(b)
  BY SharedBitsType DEF MinNat
<1>2. sb < Len(b)
  BY <1>1, SharedBitsPrefix
<1>3. sb < Len(a)
  <2>1. SharedBits(b, a) = sb
    BY SharedBitsSym
  <2>. QED
    BY <1>1, <2>1, SharedBitsPrefix
<1>4. \A k \in 1 .. sb : a[k] = b[k]
  BY SharedBitsShared
<1>5. a[sb + 1] # b[sb + 1]
  <2>1. SUFFICES ASSUME a[sb + 1] = b[sb + 1] PROVE FALSE
    OBVIOUS
  <2>2. sb + 1 \in 1 .. m
    BY <1>1, <1>2, <1>3 DEF MinNat
  <2>3. 1 .. sb + 1 \subseteq S
    BY <1>1, <1>4, <2>1, <2>2
  <2>6. sb + 1 \in Int
    BY <1>1
  <2>7. IsFiniteSet(1 .. m)
    BY <1>1, FS_Interval
  <2>8. IsFiniteSet(1 .. sb + 1) /\ Cardinality(1 .. sb + 1) = sb + 1
    BY <2>6, <1>1, FS_Interval
  <2>4. IsFiniteSet(1 .. m) /\ IsFiniteSet(1 .. sb + 1)
        /\ Cardinality(1 .. sb + 1) = sb + 1
    BY <2>7, <2>8
  <2>5. IsFiniteSet(S) /\ Cardinality(1 .. sb + 1) <= Cardinality(S)
    BY <2>3, <2>4, FS_Subset
  <2>. QED
    BY <1>1, <2>4, <2>5 DEF SharedBits
<1>6. PICK n \in 1 .. MinNat(Len(b), Len(a)) :
        Take(b, n - 1) = Take(a, n - 1) /\ b[n] < a[n]
  <2>1. ~(Len(b) < Len(a) /\ Take(a, Len(b)) = b)
    BY DEF StartsWith
  <2>. QED
    BY <2>1 DEF LexLess
<1>7. \A k \in 1 .. n - 1 : a[k] = b[k]
  <2>1. n \in Nat /\ n - 1 <= Len(a) /\ n - 1 <= Len(b)
    BY DEF MinNat
  <2>2. /\ \A k \in 1 .. n - 1 : Take(a, n - 1)[k] = a[k]
        /\ \A k \in 1 .. n - 1 : Take(b, n - 1)[k] = b[k]
    BY <2>1 DEF Take
  <2>. QED
    BY <1>6, <2>2
<1>8. n = sb + 1
  <2>1. n \in Nat /\ n <= Len(a) /\ n <= Len(b) /\ a[n] \in Bit /\ b[n] \in Bit
    BY DEF MinNat
  <2>2. ~(n <= sb)
    <3>1. SUFFICES ASSUME n <= sb PROVE FALSE
      OBVIOUS
    <3>2. a[n] = b[n]
      BY <1>1, <1>4, <2>1, <3>1
    <3>. QED
      BY <1>6, <2>1, <3>2 DEF Bit
  <2>3. ~(n > sb + 1)
    BY <1>1, <1>5, <1>7, <2>1
  <2>. QED
    BY <1>1, <2>1, <2>2, <2>3
<1>9. b[sb + 1] = 0 /\ a[sb + 1] = 1
  <2>1. a[n] \in Bit /\ b[n] \in Bit
    BY DEF MinNat
  <2>. QED
    BY <1>6, <1>8, <2>1 DEF Bit
<1>. QED
  BY <1>1, <1>2, <1>3, <1>4, <1>9

\* A prefix s[..n] of a sequence keeps its first n elements.
LEMMA SubSeqPrefix ==
  ASSUME NEW S, NEW s \in Seq(S), NEW n \in 0 .. Len(s)
  PROVE  /\ SubSeq(s, 1, n) \in Seq(S)
         /\ Len(SubSeq(s, 1, n)) = n
         /\ \A k \in 1 .. n : SubSeq(s, 1, n)[k] = s[k]
<1>1. \A k \in 1 .. n : s[k] \in S
  OBVIOUS
<1>. QED
  BY <1>1, SubSeqProperties

\* The frontier holds layers within a key.
LEMMA PendingLayers ==
  ASSUME TypeOK
  PROVE  /\ pending \in Seq(Node \X (0 .. KeyBits))
         /\ Len(pending) \in Nat
         /\ \A x \in 1 .. Len(pending) : pending[x][2] \in 0 .. KeyBits
BY DEF TypeOK

\* When the climb of a path is over, the climbing node is at end_layer.
LEMMA ClimbEnd ==
  ASSUME IInv, pc = "climb", step = ClimbLength
  PROVE  cur_layer = end_layer
<1>1. /\ InputsOK
      /\ i \in 1 .. Len(paths)
      /\ up_layers <= Len(Path(i))
      /\ end_layer = Len(Path(i)) - up_layers
      /\ cur_layer = Len(Path(i)) - step
      /\ up_layers \in 0 .. KeyBits
  BY DEF IInv, ControlInv, TypeOK
<1>2. Len(Path(i)) \in 0 .. KeyBits /\ Len(Sibs(i)) = Len(Path(i))
  BY <1>1, PathType
<1>3. ClimbLength = up_layers
  BY <1>1, <1>2 DEF ClimbLength, MinNat
<1>. QED
  BY <1>1, <1>2, <1>3

-----------------------------------------------------------------------------
(***************************************************************************)
(* FInv is inductive: one lemma per action.                                *)
(***************************************************************************)

LEMMA InitFInv == Init => FInv
<1>. SUFFICES ASSUME Init PROVE FInv
  OBVIOUS
<1>1. PInv
  BY InitPInv
<1>. QED
  BY <1>1 DEF Init, FInv, Frontier, FrontierOrdered, FrontierLeft,
             FrontierBelow, FrontierEmptyBefore, FrontierAtFinish

\* The validation steps leave the frontier empty.
LEMMA ValidationFrontier ==
  ASSUME FInv, Entry \/ CheckPath \/ CheckOp
  PROVE  Frontier'
<1>1. pc \in {"entry", "path", "op"} /\ pending' = pending
  BY DEF Entry, CheckPath, CheckOp
<1>2. pending = <<>> /\ pending' = <<>>
  BY <1>1 DEF FInv, Frontier, FrontierEmptyBefore
<1>3. pc' \in {"done", "path", "op", "begin"}
  BY DEF Entry, CheckPath, CheckOp, Fail
<1>. QED
  BY <1>2, <1>3 DEF Frontier, FrontierOrdered, FrontierLeft, FrontierBelow,
                    FrontierEmptyBefore, FrontierAtFinish

LEMMA BeginPathFrontier ==
  ASSUME FInv, BeginPath
  PROVE  Frontier'
<1>1. UpLayers(i) >= 0 /\ UpLayers(i) \in Int
  BY NoUnderflow, UpLayersType DEF BeginPath, FInv, PInv, IInv, ControlInv
<1>2. /\ pc' = "climb"
      /\ cur_layer' = Len(Path(i))
      /\ up_layers' = UpLayers(i)
      /\ UNCHANGED <<paths, prev_root, i, pending>>
  BY <1>1 DEF BeginPath
<1>3. UpLayers(i)' = UpLayers(i) /\ Path(i)' = Path(i)
  BY <1>2 DEF UpLayers, Path
<1>4. \A x \in 1 .. Len(pending) :
        /\ pending[x][2] \in 1 .. Len(Path(i))
        /\ Path(i)[pending[x][2]] = 1
  BY DEF BeginPath, FInv, Frontier, FrontierLeft
<1>. QED
  BY <1>2, <1>3, <1>4 DEF FInv, Frontier, FrontierOrdered, FrontierLeft,
                          FrontierBelow, FrontierEmptyBefore, FrontierAtFinish

LEMMA ClimbFrontier ==
  ASSUME FInv, Climb
  PROVE  Frontier'
<1>1. /\ pc = "climb" /\ pc' = "climb"
      /\ cur_layer' = cur_layer - 1
      /\ UNCHANGED <<paths, prev_root, i, up_layers>>
  BY DEF Climb
<1>2. /\ pending \in Seq(Node \X (0 .. KeyBits))
      /\ Len(pending) \in Nat
      /\ \A x \in 1 .. Len(pending) : pending[x][2] \in 0 .. KeyBits
      /\ cur_layer \in Nat
  BY PendingLayers DEF FInv, PInv, IInv, TypeOK
<1>3. /\ \A x \in 1 .. Len(pending) :
           /\ pending[x][2] \in 1 .. Len(Path(i))
           /\ Path(i)[pending[x][2]] = 1
           /\ pending[x][2] <= cur_layer
      /\ up_layers = UpLayers(i)
      /\ FrontierOrdered
  BY <1>1 DEF FInv, Frontier, FrontierLeft, FrontierBelow
<1>4. UpLayers(i)' = UpLayers(i) /\ Path(i)' = Path(i)
  BY <1>1 DEF UpLayers, Path
\* The part of the frontier that survives the step, and where it lies.
<1>5. /\ pending' = SubSeq(pending, 1, Len(pending')) /\ Len(pending') \in Nat
      /\ Len(pending') <= Len(pending)
      /\ \A x \in 1 .. Len(pending') : pending[x][2] <= cur_layer - 1
  <2>1. CASE ReplacesSibling
    <3>1. pending' = SubSeq(pending, 1, Len(pending) - 1)
      BY <2>1 DEF Climb
    <3>2. Len(pending') = Len(pending) - 1
          /\ \A x \in 1 .. Len(pending) - 1 : pending'[x] = pending[x]
      <4>1. Len(pending) > 0
        BY <2>1 DEF ReplacesSibling
      <4>2. \A x \in 1 .. Len(pending) - 1 : pending[x] \in Node \X (0 .. KeyBits)
        BY <1>2
      <4>3. /\ Len(SubSeq(pending, 1, Len(pending) - 1)) = Len(pending) - 1
            /\ \A x \in 1 .. Len(pending) - 1 :
                  SubSeq(pending, 1, Len(pending) - 1)[x] = pending[x]
        <5>1. Len(pending) - 1 \in 0 .. Len(pending)
          BY <1>2, <4>1
        <5>. QED
          BY <1>2, <5>1, SubSeqPrefix
      <4>. QED
        BY <3>1, <4>3
    <3>3. \A x \in 1 .. Len(pending) - 1 : pending[x][2] < pending[Len(pending)][2]
      BY <1>2, <1>3, <2>1 DEF FrontierOrdered, ReplacesSibling
    <3>. QED
      BY <1>2, <2>1, <3>1, <3>2, <3>3 DEF ReplacesSibling
  <2>2. CASE ~ReplacesSibling
    <3>1. pending' = pending
      BY <2>2 DEF Climb
    <3>2. ASSUME NEW x \in 1 .. Len(pending) PROVE pending[x][2] <= cur_layer - 1
      <4>1. Len(pending) > 0 /\ pending[Len(pending)][2] # cur_layer
        BY <2>2 DEF ReplacesSibling
      <4>2. pending[Len(pending)][2] < cur_layer
        BY <1>2, <1>3, <4>1
      <4>3. pending[x][2] <= pending[Len(pending)][2]
        BY <1>2, <1>3 DEF FrontierOrdered
      <4>. QED
        BY <1>2, <4>2, <4>3
    <3>3. SubSeq(pending, 1, Len(pending)) = pending
      <4>1. Len(pending) \in 0 .. Len(pending)
        BY <1>2
      <4>2. SubSeq(pending, 1, Len(pending)) \in Seq(Node \X (0 .. KeyBits))
            /\ Len(SubSeq(pending, 1, Len(pending))) = Len(pending)
            /\ \A k \in 1 .. Len(pending) : SubSeq(pending, 1, Len(pending))[k] = pending[k]
        BY <1>2, <4>1, SubSeqPrefix
      <4>. QED
        BY <1>2, <4>2, SeqEqual
    <3>. QED
      BY <1>2, <3>1, <3>2, <3>3
  <2>. QED
    BY <2>1, <2>2
<1>6. \A x \in 1 .. Len(pending') : pending'[x] = pending[x]
  <2>1. Len(pending') \in 0 .. Len(pending)
    BY <1>2, <1>5
  <2>. QED
    BY <1>2, <1>5, <2>1, SubSeqPrefix
<1>7. FrontierOrdered'
  <2>1. \A x \in 1 .. Len(pending') : x \in 1 .. Len(pending)
    BY <1>2, <1>5
  <2>. QED
    BY <1>3, <1>6, <2>1 DEF FrontierOrdered
<1>8. FrontierLeft'
  BY <1>1, <1>2, <1>3, <1>4, <1>5, <1>6 DEF FrontierLeft
<1>9. FrontierBelow'
  BY <1>1, <1>3, <1>4, <1>5, <1>6 DEF FrontierBelow
<1>. QED
  BY <1>1, <1>7, <1>8, <1>9 DEF Frontier, FrontierEmptyBefore, FrontierAtFinish

LEMMA EndPathFrontier ==
  ASSUME FInv, EndPath
  PROVE  Frontier'
<1>1. /\ pc = "climb" /\ step = ClimbLength
      /\ pending' = Append(pending, <<cur_node, end_layer>>)
      /\ UNCHANGED <<paths, prev_root>>
  BY DEF EndPath
<1>2. cur_layer = end_layer
  BY <1>1, ClimbEnd DEF FInv, PInv
<1>3. /\ InputsOK
      /\ i \in 1 .. Len(paths)
      /\ WellFormed
      /\ PrefixFree
      /\ end_layer = Len(Path(i)) - up_layers
      /\ end_layer \in 0 .. KeyBits
      /\ cur_node \in Node
  BY <1>1 DEF FInv, PInv, IInv, ControlInv, CheckInv, TypeOK
<1>4. /\ pending \in Seq(Node \X (0 .. KeyBits))
      /\ Len(pending) \in Nat
      /\ \A x \in 1 .. Len(pending) : pending[x][2] \in 0 .. KeyBits
  BY PendingLayers DEF FInv, PInv, IInv
<1>5. /\ up_layers = UpLayers(i)
      /\ \A x \in 1 .. Len(pending) :
           /\ pending[x][2] \in 1 .. Len(Path(i))
           /\ Path(i)[pending[x][2]] = 1
           /\ pending[x][2] <= end_layer
      /\ FrontierOrdered
  BY <1>1, <1>2 DEF FInv, Frontier, FrontierLeft, FrontierBelow
<1>6. /\ Len(pending') = Len(pending) + 1
      /\ \A x \in 1 .. Len(pending) : pending'[x] = pending[x]
      /\ pending'[Len(pending) + 1] = <<cur_node, end_layer>>
  <2>1. <<cur_node, end_layer>> \in Node \X (0 .. KeyBits)
    BY <1>3
  <2>. QED
    BY <1>1, <1>4, <2>1, AppendProperties
<1>7. Len(Path(i)) \in Nat
  BY <1>3, PathType
<1>8. CASE i < Len(paths)
  <2>. DEFINE a  == Path(i + 1)
              b  == Path(i)
              sb == SharedBits(a, b)
  <2>1. pc' = "begin" /\ i' = i + 1
    BY <1>8 DEF EndPath
  <2>11. i + 1 \in 1 .. Len(paths)
    BY <1>3, <1>8 DEF InputsOK
  <2>2. i + 1 \in 1 .. Len(paths) /\ a \in Seq(Bit) /\ b \in Seq(Bit)
    BY <1>3, <2>11, PathType
  <2>3. LexLess(b, a) /\ paths[i].inner.root = paths[i + 1].inner.root
    BY <1>3, <2>2 DEF WellFormed
  <2>4. a # b
    BY <2>2, <2>3, LexLessIrreflexive
  <2>5. ~StartsWith(a, b) /\ ~StartsWith(b, a)
    BY <1>3, <2>2, <2>3, <2>4 DEF PrefixFree
  <2>6. /\ sb \in Nat
        /\ sb + 1 \in 1 .. Len(a)
        /\ sb + 1 \in 1 .. Len(b)
        /\ \A k \in 1 .. sb : a[k] = b[k]
        /\ b[sb + 1] = 0
        /\ a[sb + 1] = 1
    BY <2>2, <2>3, <2>5, Divergence
  <2>7. end_layer = sb + 1
    BY <1>3, <1>5, <1>7, <1>8, <2>6 DEF UpLayers
  \* No pending node is at the divergence layer, where path i goes left.
  <2>8. \A x \in 1 .. Len(pending) : pending[x][2] \in 1 .. sb
    BY <1>4, <1>5, <2>6, <2>7
  <2>9. FrontierOrdered'
    <3>1. ASSUME NEW x \in 1 .. Len(pending'), NEW y \in 1 .. Len(pending'), x < y
          PROVE  pending'[x][2] < pending'[y][2]
      <4>1. x \in 1 .. Len(pending) /\ pending'[x] = pending[x]
        BY <1>4, <1>6, <3>1
      <4>2. CASE y <= Len(pending)
        BY <1>4, <1>5, <1>6, <3>1, <4>1, <4>2 DEF FrontierOrdered
      <4>3. CASE ~(y <= Len(pending))
        <5>1. y = Len(pending) + 1
          BY <1>4, <1>6, <4>3
        <5>2. pending'[y][2] = sb + 1
          BY <1>6, <2>7, <5>1
        <5>. QED
          BY <1>4, <2>6, <2>8, <4>1, <5>2
      <4>. QED
        BY <4>2, <4>3
    <3>. QED
      BY <3>1 DEF FrontierOrdered
  <2>10. FrontierLeft'
    <3>1. Path(i)' = a
      BY <1>1, <2>1 DEF Path
    <3>2. \A x \in 1 .. Len(pending) :
            pending[x][2] \in 1 .. Len(a) /\ a[pending[x][2]] = 1
      BY <1>5, <2>6, <2>8
    <3>3. ASSUME NEW x \in 1 .. Len(pending')
          PROVE  pending'[x][2] \in 1 .. Len(a) /\ a[pending'[x][2]] = 1
      <4>1. CASE x <= Len(pending)
        <5>1. x \in 1 .. Len(pending) /\ pending'[x] = pending[x]
          BY <1>4, <1>6, <3>3, <4>1
        <5>. QED
          BY <3>2, <5>1
      <4>2. CASE ~(x <= Len(pending))
        <5>1. x = Len(pending) + 1
          BY <1>4, <1>6, <4>2
        <5>2. pending'[x][2] = sb + 1
          BY <1>6, <2>7, <5>1
        <5>. QED
          BY <2>6, <5>2
      <4>. QED
        BY <4>1, <4>2
    <3>. QED
      BY <2>1, <3>1, <3>3 DEF FrontierLeft
  <2>. QED
    BY <2>1, <2>9, <2>10 DEF Frontier, FrontierBelow, FrontierEmptyBefore,
                              FrontierAtFinish
<1>9. CASE ~(i < Len(paths))
  <2>1. pc' = "finish" /\ i = Len(paths)
    BY <1>3, <1>9 DEF EndPath
  <2>2. end_layer = 0
    BY <1>3, <1>5, <1>7, <2>1 DEF UpLayers
  <2>3. Len(pending) = 0
    BY <1>4, <1>5, <2>2
  <2>4. Len(pending') = 1 /\ pending'[1][2] = 0
    BY <1>6, <2>2, <2>3
  <2>. QED
    BY <2>1, <2>4 DEF Frontier, FrontierOrdered, FrontierLeft, FrontierBelow,
                      FrontierEmptyBefore, FrontierAtFinish
<1>. QED
  BY <1>8, <1>9

LEMMA FinishFrontier ==
  ASSUME FInv, Finish
  PROVE  Frontier'
<1>1. pc = "finish" /\ Len(pending) = 1
  BY DEF Finish, FInv, Frontier, FrontierAtFinish
<1>2. pending \in Seq(Node \X (0 .. KeyBits))
  BY PendingLayers DEF FInv, PInv, IInv
<1>3. pc' = "done" /\ pending' = SubSeq(pending, 1, 0)
  BY <1>1 DEF Finish
<1>4. Len(pending') = 0
  BY <1>1, <1>2, <1>3, SubSeqPrefix
<1>. QED
  BY <1>3, <1>4 DEF Frontier, FrontierOrdered, FrontierLeft, FrontierBelow,
                    FrontierEmptyBefore, FrontierAtFinish

LEMMA NextFInv == FInv /\ [Next]_vars => FInv'
<1>. SUFFICES ASSUME FInv, [Next]_vars PROVE FInv'
  OBVIOUS
<1>1. PInv'
  BY NextPInv DEF FInv
<1>2. Frontier'
  <2>1. CASE Entry \/ CheckPath \/ CheckOp
    BY <2>1, ValidationFrontier
  <2>2. CASE BeginPath  BY <2>2, BeginPathFrontier
  <2>3. CASE Climb      BY <2>3, ClimbFrontier
  <2>4. CASE EndPath    BY <2>4, EndPathFrontier
  <2>5. CASE Finish     BY <2>5, FinishFrontier
  <2>6. CASE UNCHANGED vars
    BY <2>6 DEF vars, FInv, Frontier, FrontierOrdered, FrontierLeft,
                FrontierBelow, FrontierEmptyBefore, FrontierAtFinish,
                UpLayers, Path
  <2>. QED
    BY <2>1, <2>2, <2>3, <2>4, <2>5, <2>6 DEF Next
<1>. QED
  BY <1>1, <1>2 DEF FInv

\* FInv holds in every state of every call.
THEOREM FInvInvariant == Spec => []FInv
BY InitFInv, NextFInv, PTL DEF Spec

(***************************************************************************)
(* For every key width and every batch of verified paths, when the last    *)
(* path has been climbed the frontier holds exactly one node, at layer 0:  *)
(* each node pushed at line 370 is consumed as the sibling of a later path *)
(* at line 341, none is left over and none is consumed twice.              *)
(***************************************************************************)
THEOREM FrontierAtFinishInvariant == Spec => []FrontierAtFinish
BY FInvInvariant, PTL DEF FInv, Frontier

\* A climb step that takes its sibling from the frontier is at a layer where
\* the path goes right.
LEMMA ClimbReplacesLeft ==
  ASSUME FInv, Climb, ReplacesSibling
  PROVE  Path(i)[cur_layer] = 1
<1>1. pc = "climb" /\ Len(pending) > 0 /\ pending[Len(pending)][2] = cur_layer
  BY DEF Climb, ReplacesSibling
<1>2. pending \in Seq(Node \X (0 .. KeyBits))
  BY PendingLayers DEF FInv, PInv, IInv
<1>3. Len(pending) \in 1 .. Len(pending)
  BY <1>1, <1>2
<1>. QED
  BY <1>1, <1>3 DEF FInv, Frontier, FrontierLeft

(***************************************************************************)
(* For every key width and every batch of verified paths, a pending        *)
(* frontier node replaces only a left sibling: when the climb takes its    *)
(* sibling from pending_siblings (lines 338-341), the path goes right at   *)
(* that layer, so the hashing at lines 352-362 puts the frontier node on   *)
(* the left.                                                               *)
(***************************************************************************)
THEOREM PendingIsLeftSiblingProp == Spec => PendingIsLeftSibling
<1>1. FInv /\ [Next]_vars => [Climb /\ ReplacesSibling => Path(i)[cur_layer] = 1]_vars
  <2>. SUFFICES ASSUME FInv, Climb, ReplacesSibling PROVE Path(i)[cur_layer] = 1
    OBVIOUS
  <2>. QED
    BY ClimbReplacesLeft
<1>. QED
  BY <1>1, FInvInvariant, PTL DEF PendingIsLeftSibling, Spec

=============================================================================
