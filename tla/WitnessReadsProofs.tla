------------------------- MODULE WitnessReadsProofs -------------------------
(***************************************************************************)
(* Proofs about WitnessReads: for every witness meeting                    *)
(* WitnessesAssumption, the loop of main.rs lines 41-75 checks every read. *)
(***************************************************************************)
EXTENDS WitnessReads, TLAPS

\* The path of the read at position m.
Idx(m) == reads[m].path_index

\* What the assumption gives of the witness main received.
WitnessOK ==
  /\ paths \in Seq(PathEntry) /\ paths # <<>>
  /\ reads \in Seq(ReadOp)
  /\ \A m \in 1 .. Len(reads) : Idx(m) < Len(paths)
  /\ \A m1, m2 \in 1 .. Len(reads) : m1 <= m2 => Idx(m1) <= Idx(m2)

TypeOK ==
  /\ i \in Nat
  /\ pos \in 1 .. Len(reads) + 1
  /\ taking \in BOOLEAN
  /\ checked \subseteq 1 .. Len(reads)
  /\ pc \in {"verify", "loop", "panic", "done"}

(***************************************************************************)
(* The loop invariant: before main returns, the reads checked are those of *)
(* the paths before i and those of path i before the iterator; once        *)
(* take_while has started the read before the iterator is of path i, and   *)
(* before that no read of path i has been passed.                          *)
(***************************************************************************)
LoopInv ==
  pc # "done" =>
    /\ i < Len(paths)
    /\ checked = {m \in 1 .. Len(reads) : Idx(m) < i \/ (Idx(m) = i /\ m < pos)}
    /\ taking => pos > 1 /\ Idx(pos - 1) = i
    /\ ~taking => \A m \in 1 .. pos - 1 : Idx(m) # i

IInv ==
  /\ WitnessOK
  /\ TypeOK
  /\ LoopInv
  /\ ReadsAllChecked

-----------------------------------------------------------------------------
\* A sequence of witnessed reads has a length and a path index per read.
LEMMA ReadsTyped ==
  ASSUME reads \in Seq(ReadOp)
  PROVE  Len(reads) \in Nat /\ \A m \in 1 .. Len(reads) : Idx(m) \in Nat
  <1>1. Len(reads) \in Nat /\ \A m \in 1 .. Len(reads) : reads[m] \in ReadOp
    OBVIOUS
  <1>2. QED
    BY <1>1 DEF ReadOp, Idx

\* Every behaviour starts in IInv.
LEMMA InitIInv == Init => IInv
  <1> SUFFICES ASSUME Init PROVE IInv
    OBVIOUS
  <1>1. PICK w \in Witnesses : trie = w.trie /\ paths = w.paths /\ reads = w.reads
    BY DEF Init
  <1>2. WitnessOK
    BY <1>1, WitnessesAssumption DEF WitnessOK, Idx
  <1>3. Len(paths) > 0
    BY <1>2 DEF WitnessOK
  <1>4. Len(reads) \in Nat /\ \A m \in 1 .. Len(reads) : Idx(m) \in Nat
    BY <1>2, ReadsTyped DEF WitnessOK
  <1>9. i = 0 /\ pos = 1 /\ taking = FALSE /\ checked = {} /\ pc = "verify"
    BY DEF Init
  <1>5. TypeOK
    <2>1. pos \in 1 .. Len(reads) + 1
      BY <1>4, <1>9
    <2>2. checked \subseteq 1 .. Len(reads)
      BY <1>9
    <2>3. QED
      BY <1>9, <2>1, <2>2 DEF TypeOK
  <1>6. LoopInv
    BY <1>3, <1>4, <1>9 DEF LoopInv
  <1>7. ReadsAllChecked
    BY DEF Init, ReadsAllChecked
  <1>8. QED
    BY <1>2, <1>5, <1>6, <1>7 DEF IInv

\* Every step keeps IInv.
LEMMA NextIInv == IInv /\ [Next]_vars => IInv'
  <1> SUFFICES ASSUME IInv, [Next]_vars PROVE IInv'
    OBVIOUS
  <1>0. /\ reads \in Seq(ReadOp) /\ paths \in Seq(PathEntry)
        /\ Len(reads) \in Nat /\ Len(paths) \in Nat \ {0}
        /\ \A m \in 1 .. Len(reads) : Idx(m) \in Nat /\ Idx(m) < Len(paths)
        /\ \A m1, m2 \in 1 .. Len(reads) : m1 <= m2 => Idx(m1) <= Idx(m2)
        /\ i \in Nat /\ pos \in 1 .. Len(reads) + 1
    <2>1. reads \in Seq(ReadOp) /\ paths \in Seq(PathEntry) /\ paths # <<>>
      BY DEF IInv, WitnessOK
    <2>2. Len(reads) \in Nat /\ Len(paths) \in Nat \ {0}
      BY <2>1
    <2>3. \A m \in 1 .. Len(reads) : Idx(m) \in Nat
      BY <2>1, ReadsTyped
    <2>4. QED
      BY <2>1, <2>2, <2>3 DEF IInv, WitnessOK, TypeOK
  <1>1. CASE VerifyMulti
    <2>1. pc = "verify" /\ pc' \in {"loop", "panic"}
          /\ UNCHANGED <<trie, paths, reads, i, pos, taking, checked>>
      BY <1>1 DEF VerifyMulti
    <2>2. QED
      BY <2>1 DEF IInv, WitnessOK, Idx, TypeOK, LoopInv, ReadsAllChecked
  <1>2. CASE SkipRead
    <2>1. /\ pc = "loop" /\ ~taking /\ pos <= Len(reads) /\ Idx(pos) # i
          /\ pos' = pos + 1
          /\ UNCHANGED <<trie, paths, reads, vmp, i, taking, checked, pc>>
      BY <1>2 DEF SkipRead, Idx
    <2>2. LoopInv'
      BY <1>0, <2>1 DEF IInv, TypeOK, LoopInv, Idx
    <2>3. QED
      BY <1>0, <2>1, <2>2 DEF IInv, WitnessOK, Idx, TypeOK, ReadsAllChecked
  <1>3. CASE CheckRead
    <2>1. /\ pc = "loop" /\ pos <= Len(reads) /\ Idx(pos) = i
          /\ taking' = TRUE /\ pos' = pos + 1 /\ checked' = checked \cup {pos}
          /\ pc' \in {"loop", "panic"}
          /\ UNCHANGED <<trie, paths, reads, vmp, i>>
      BY <1>3 DEF CheckRead, Idx
    <2>2. LoopInv'
      BY <1>0, <2>1 DEF IInv, TypeOK, LoopInv, Idx
    <2>3. TypeOK'
      BY <1>0, <2>1 DEF IInv, TypeOK
    <2>4. WitnessOK' /\ ReadsAllChecked'
      BY <2>1 DEF IInv, WitnessOK, Idx, ReadsAllChecked
    <2>5. QED
      BY <2>2, <2>3, <2>4 DEF IInv
  <1>4. CASE NextPath
    <2>1. /\ pc = "loop"
          /\ \/ pos > Len(reads)
             \/ pos <= Len(reads) /\ taking /\ Idx(pos) # i
          /\ i' = i + 1 /\ pos' = 1 /\ taking' = FALSE
          /\ pc' = IF i + 1 = Len(paths) THEN "done" ELSE "loop"
          /\ UNCHANGED <<trie, paths, reads, vmp, checked>>
      BY <1>4 DEF NextPath, Idx
    \* The reads of path i all lie before the iterator.
    <2>2. checked = {m \in 1 .. Len(reads) : Idx(m) < i + 1}
      <3>1. checked = {m \in 1 .. Len(reads) : Idx(m) < i \/ (Idx(m) = i /\ m < pos)}
        BY <2>1 DEF IInv, LoopInv
      <3>2. \A m \in 1 .. Len(reads) : Idx(m) = i => m < pos
        <4>1. CASE pos > Len(reads)
          BY <1>0, <4>1
        <4>2. CASE pos <= Len(reads) /\ taking /\ Idx(pos) # i
          <5>1. pos > 1 /\ Idx(pos - 1) = i
            BY <2>1, <4>2 DEF IInv, LoopInv
          <5>2. pos \in 1 .. Len(reads) /\ pos - 1 \in 1 .. Len(reads)
            BY <4>2, <5>1, <1>0 DEF IInv, TypeOK
          <5>3. Idx(pos) > i
            BY <1>0, <4>2, <5>1, <5>2
          <5>4. \A m \in 1 .. Len(reads) : m >= pos => Idx(m) > i
            BY <1>0, <5>2, <5>3
          <5>5. QED
            BY <1>0, <5>2, <5>4
        <4>3. QED
          BY <2>1, <4>1, <4>2
      <3>3. QED
        BY <1>0, <3>1, <3>2, <2>1 DEF IInv, TypeOK
    <2>3. LoopInv'
      BY <1>0, <2>1, <2>2 DEF IInv, TypeOK, LoopInv, Idx
    <2>4. ReadsAllChecked'
      <3>1. CASE i + 1 = Len(paths)
        BY <1>0, <2>1, <2>2, <3>1 DEF ReadsAllChecked, IInv, TypeOK
      <3>2. CASE i + 1 # Len(paths)
        BY <2>1, <3>2 DEF ReadsAllChecked
      <3>3. QED
        BY <3>1, <3>2
    <2>5. TypeOK'
      <3>0. i' = i + 1 /\ taking' = FALSE
        BY <2>1
      <3>6. i \in Nat
        BY DEF IInv, TypeOK
      <3>7. i' \in Nat
        BY <3>0, <3>6
      <3>1. i' \in Nat /\ taking' \in BOOLEAN
        BY <3>0, <3>7
      <3>5. pos' \in 1 .. Len(reads') + 1
        <4>1. pos' = 1 /\ reads' = reads
          BY <2>1
        <4>2. QED
          BY <1>0, <4>1
      <3>2. checked' \subseteq 1 .. Len(reads')
        BY <2>1 DEF IInv, TypeOK
      <3>3. pc' \in {"verify", "loop", "panic", "done"}
        BY <2>1
      <3>4. QED
        BY <3>1, <3>2, <3>3, <3>5 DEF TypeOK
    <2>6. WitnessOK'
      BY <2>1 DEF IInv, WitnessOK, Idx
    <2>7. QED
      BY <2>3, <2>4, <2>5, <2>6 DEF IInv
  <1>5. CASE UNCHANGED vars
    BY <1>5 DEF vars, IInv, WitnessOK, Idx, TypeOK, LoopInv, ReadsAllChecked
  <1>6. QED
    BY <1>1, <1>2, <1>3, <1>4, <1>5 DEF Next

\* IInv holds in every state of every behaviour.
THEOREM IInvInvariant == Spec => []IInv
  BY InitIInv, NextIInv, PTL DEF Spec

(***************************************************************************)
(* The comment of lines 48-51, for every witness whose reads each name a   *)
(* path and are grouped in path order: when the loop over the paths ends,  *)
(* every read of the witness has been checked against the multi-proof (the *)
(* skip_while / take_while pair misses none).                              *)
(***************************************************************************)
THEOREM ReadsAllCheckedInvariant == Spec => []ReadsAllChecked
  BY IInvInvariant, PTL DEF IInv

=============================================================================
