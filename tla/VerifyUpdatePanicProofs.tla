----------------------- MODULE VerifyUpdatePanicProofs -----------------------
(***************************************************************************)
(* verify_update never panics, for every key width, value set and set of   *)
(* batches of verified paths: the usize subtraction `skip - (n + 1)` of    *)
(* line 316 does not underflow and the unwrap of line 375 finds a frontier *)
(* node.  Built on the invariant IInv of VerifyUpdateProofs.               *)
(***************************************************************************)
EXTENDS VerifyUpdateProofs

(***************************************************************************)
(* The strengthening.                                                      *)
(***************************************************************************)

\* Of two distinct prefixes of the batch proved against one root, neither
\* extends the other (VerifiedPrefixFree, for the arguments of this call).
PrefixFree ==
  \A x, y \in 1 .. Len(paths) :
    (paths[x].inner.root = paths[y].inner.root /\ Path(x) # Path(y))
      => ~StartsWith(Path(y), Path(x))

\* When the stitching loop is over, the frontier holds the last path's node.
FrontierNonEmpty == pc = "finish" => Len(pending) > 0

PInv == IInv /\ PrefixFree /\ FrontierNonEmpty /\ NoPanic

-----------------------------------------------------------------------------
(***************************************************************************)
(* Lemmas about the bit-string operators.                                  *)
(***************************************************************************)

\* The path order is strict: no bit string is below itself.
LEMMA LexLessIrreflexive ==
  ASSUME NEW a \in Seq(Bit)
  PROVE  ~LexLess(a, a)
<1>1. \A n \in 1 .. MinNat(Len(a), Len(a)) : a[n] \in Nat
  BY DEF MinNat, Bit
<1>2. \A n \in 1 .. MinNat(Len(a), Len(a)) : ~(a[n] < a[n])
  BY <1>1
<1>. QED
  BY <1>2 DEF LexLess

\* When shared_bits(a, b) reaches the length of b, b is a prefix of a.
LEMMA SharedBitsPrefix ==
  ASSUME NEW a \in Seq(Bit), NEW b \in Seq(Bit), SharedBits(a, b) >= Len(b)
  PROVE  StartsWith(a, b)
<1>. DEFINE m == MinNat(Len(a), Len(b))
            S == {n \in 1 .. m : \A k \in 1 .. n : a[k] = b[k]}
<1>1. m \in Nat /\ m <= Len(a) /\ m <= Len(b)
  BY DEF MinNat
<1>2. IsFiniteSet(1 .. m) /\ Cardinality(1 .. m) = m
  BY <1>1, FS_Interval
<1>3. /\ Cardinality(S) <= m
      /\ Cardinality(1 .. m) = Cardinality(S) => 1 .. m = S
  BY <1>2, FS_Subset
<1>4. m = Len(b) /\ S = 1 .. m
  <2>1. Cardinality(S) >= Len(b)
    BY DEF SharedBits
  <2>2. Cardinality(S) \in Nat
    BY <1>2, FS_Subset, FS_CardinalityType
  <2>3. Cardinality(S) = m /\ m = Len(b)
    BY <1>1, <1>3, <2>1, <2>2
  <2>. QED
    BY <1>2, <1>3, <2>3
<1>5. \A k \in 1 .. Len(b) : a[k] = b[k]
  <2>1. CASE m = 0
    BY <1>4, <2>1
  <2>2. CASE m > 0
    <3>1. m \in S
      BY <1>1, <1>4, <2>2
    <3>. QED
      BY <1>4, <3>1
  <2>. QED
    BY <1>1, <2>1, <2>2
<1>6. Take(a, Len(b)) = b
  <2>1. \A k \in 1 .. Len(b) : a[k] \in Bit
    BY <1>1, <1>4
  <2>2. /\ Take(a, Len(b)) \in Seq(Bit)
        /\ Len(Take(a, Len(b))) = Len(b)
        /\ \A k \in 1 .. Len(b) : Take(a, Len(b))[k] = a[k]
    BY <2>1, SubSeqProperties DEF Take
  <2>. QED
    BY <1>5, <2>2, SeqEqual
<1>. QED
  BY <1>1, <1>4, <1>6 DEF StartsWith

-----------------------------------------------------------------------------
(***************************************************************************)
(* The two panics are unreachable from a state of PInv.                    *)
(***************************************************************************)

\* `n always < skip`: a path of a validated batch shares fewer bits with
\* the next path than it has, so up_layers does not underflow.
LEMMA NoUnderflow ==
  ASSUME IInv, PrefixFree, pc = "begin"
  PROVE  UpLayers(i) >= 0
<1>1. /\ InputsOK
      /\ i \in 1 .. Len(paths)
      /\ WellFormed
  BY DEF IInv, ControlInv, CheckInv
<1>2. Len(Path(i)) \in Nat
  BY <1>1, PathType
<1>3. CASE i = Len(paths)
  BY <1>2, <1>3 DEF UpLayers
<1>4. CASE i # Len(paths)
  <2>. DEFINE a == Path(i + 1)
              b == Path(i)
  <2>1. i + 1 \in 1 .. Len(paths)
    BY <1>1, <1>4 DEF InputsOK
  <2>2. a \in Seq(Bit) /\ b \in Seq(Bit)
    BY <1>1, <2>1, PathType
  <2>3. SharedBits(a, b) \in Nat
    BY <2>2, SharedBitsType DEF MinNat
  <2>4. UpLayers(i) = Len(b) - (SharedBits(a, b) + 1)
    BY <1>4 DEF UpLayers
  <2>5. SUFFICES ASSUME SharedBits(a, b) >= Len(b) PROVE FALSE
    BY <1>2, <2>3, <2>4
  <2>6. StartsWith(a, b)
    BY <2>2, <2>5, SharedBitsPrefix
  <2>7. /\ paths[i].inner.root = prev_root
        /\ paths[i + 1].inner.root = prev_root
        /\ LexLess(b, a)
    BY <1>1, <2>1 DEF WellFormed
  <2>8. a # b
    BY <2>2, <2>7, LexLessIrreflexive
  <2>. QED
    BY <1>1, <2>1, <2>6, <2>7, <2>8 DEF PrefixFree
<1>. QED
  BY <1>3, <1>4

-----------------------------------------------------------------------------
(***************************************************************************)
(* PInv is inductive.                                                      *)
(***************************************************************************)

LEMMA InitPInv == Init => PInv
<1>. SUFFICES ASSUME Init PROVE PInv
  OBVIOUS
<1>1. IInv
  BY InitIInv
<1>2. PICK b \in Batches : prev_root = b.prev_root /\ paths = b.paths
  BY DEF Init
<1>3. PrefixFree
  BY <1>2, VerifiedPrefixFree DEF PrefixFree, Path
<1>. QED
  BY <1>1, <1>3 DEF Init, PInv, FrontierNonEmpty, NoPanic

\* Every step keeps IInv (the cases of IInvInvariant).
LEMMA NextIInv == IInv /\ [Next]_vars => IInv'
<1>. SUFFICES ASSUME IInv, [Next]_vars PROVE IInv'
  OBVIOUS
<1>1. CASE Entry      BY <1>1, EntryIInv
<1>2. CASE CheckPath  BY <1>2, CheckPathIInv
<1>3. CASE CheckOp    BY <1>3, CheckOpIInv
<1>4. CASE BeginPath  BY <1>4, BeginPathIInv
<1>5. CASE Climb      BY <1>5, ClimbIInv
<1>6. CASE EndPath    BY <1>6, EndPathIInv
<1>7. CASE Finish     BY <1>7, FinishIInv
<1>8. CASE UNCHANGED vars
  BY <1>8 DEF vars, IInv, TypeOK, InputsOK, ControlInv, CheckInv, PathDone,
              WellFormed, PathCheck, OpCheck, Path, Ops, Sibs, ClimbLength
<1>. QED
  BY <1>1, <1>2, <1>3, <1>4, <1>5, <1>6, <1>7, <1>8 DEF Next

LEMMA NextPInv == PInv /\ [Next]_vars => PInv'
<1>. SUFFICES ASSUME PInv, [Next]_vars PROVE PInv'
  OBVIOUS
<1>1. IInv'
  BY NextIInv DEF PInv
<1>2. paths' = paths
  BY DEF Next, vars, Entry, CheckPath, CheckOp, BeginPath, Climb, EndPath, Finish
<1>3. PrefixFree'
  BY <1>2 DEF PInv, PrefixFree, Path
<1>4. FrontierNonEmpty' /\ NoPanic'
  <2>1. CASE Entry
    BY <2>1 DEF Entry, FrontierNonEmpty, NoPanic
  <2>2. CASE CheckPath
    BY <2>2 DEF CheckPath, Fail, FrontierNonEmpty, NoPanic
  <2>3. CASE CheckOp
    BY <2>3 DEF CheckOp, Fail, FrontierNonEmpty, NoPanic
  <2>4. CASE BeginPath
    <3>1. UpLayers(i) >= 0
      BY <2>4, NoUnderflow DEF PInv, BeginPath
    <3>3. UpLayers(i) \in Int
      BY <2>4, UpLayersType DEF PInv, IInv, ControlInv, BeginPath
    <3>2. pc' = "climb"
      BY <2>4, <3>1, <3>3 DEF BeginPath
    <3>. QED
      BY <3>2 DEF FrontierNonEmpty, NoPanic
  <2>5. CASE Climb
    BY <2>5 DEF Climb, FrontierNonEmpty, NoPanic
  <2>6. CASE EndPath
    <3>1. pending \in Seq(Node \X (0 .. KeyBits))
      BY DEF PInv, IInv, TypeOK
    <3>2. Len(pending') > 0 /\ pc' \in {"begin", "finish"}
      BY <2>6, <3>1, AppendProperties DEF EndPath
    <3>. QED
      BY <3>2 DEF FrontierNonEmpty, NoPanic
  <2>7. CASE Finish
    <3>1. Len(pending) > 0
      BY <2>7 DEF Finish, PInv, FrontierNonEmpty
    <3>2. pc' = "done"
      BY <2>7, <3>1 DEF Finish
    <3>. QED
      BY <3>2 DEF FrontierNonEmpty, NoPanic
  <2>8. CASE UNCHANGED vars
    BY <2>8 DEF vars, PInv, FrontierNonEmpty, NoPanic
  <2>. QED
    BY <2>1, <2>2, <2>3, <2>4, <2>5, <2>6, <2>7, <2>8 DEF Next
<1>. QED
  BY <1>1, <1>3, <1>4 DEF PInv

\* PInv holds in every state of every call.
THEOREM PInvInvariant == Spec => []PInv
BY InitPInv, NextPInv, PTL DEF Spec

(***************************************************************************)
(* verify_update never panics, for every key width and every batch of      *)
(* paths verified by PathProof::verify: validation lets through only       *)
(* strictly ascending paths on one root, so `n always < skip` holds and    *)
(* the usize subtraction of line 316 does not underflow; and every path    *)
(* pushes its node on the frontier (line 370), so the unwrap of line 375   *)
(* succeeds.                                                               *)
(***************************************************************************)
THEOREM NoPanicInvariant == Spec => []NoPanic
BY PInvInvariant, PTL DEF PInv

=============================================================================
