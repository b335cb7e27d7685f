----------------------------- MODULE SyncProofs -----------------------------
(***************************************************************************)
(* Proofs about Sync for every bound on the calls, every set of panic      *)
(* modes, and with or without torn meta writes: the commit protocol's type *)
(* invariant, that the meta only commits durable data, that the committed  *)
(* sync_seqn advances one at a time, that Sync::sync implements the disk   *)
(* contract DurableCommit and, when Meta::write is all-or-nothing, that    *)
(* memory agrees with the meta and a seqn identifies its data.             *)
(***************************************************************************)
EXTENDS Sync, TLAPS

(***************************************************************************)
(* The inductive invariant.  The in-memory sync_seqn is the meta's or,     *)
(* after a torn meta write, one behind it; no store is ahead of the next   *)
(* seqn in memory; before the meta is written the running call works on   *)
(* that next seqn, and each store that passed wait_pre_meta holds the      *)
(* running call's data under it.                                           *)
(***************************************************************************)
SeqnLag == sync_seqn <= meta_seqn /\ meta_seqn <= sync_seqn + 1

StoresBound == bitbox_seqn <= sync_seqn + 1 /\ beatree_seqn <= sync_seqn + 1

PhaseInv ==
  /\ pc \in {"bitbox_wait", "beatree_wait", "meta"} => seqn = sync_seqn + 1
  /\ pc \in {"beatree_wait", "meta"} =>
        bitbox_seqn = seqn /\ bitbox_batch = syncs
  /\ pc = "meta" => beatree_seqn = seqn /\ beatree_batch = syncs

IInv ==
  /\ TypeOK
  /\ CommitCovered
  /\ SeqnLag
  /\ StoresBound
  /\ PhaseInv
  /\ ~TornMetaWrite => SeqnAgree /\ SeqnIdentifiesData

\* Every behaviour starts in IInv.
LEMMA InitIInv == Init => IInv
<1>. SUFFICES ASSUME Init PROVE IInv
  OBVIOUS
<1>1. syncs \in 0 .. MaxSyncs /\ 0 \in 0 .. MaxSyncs
  BY MaxSyncsAssumption DEF Init
<1>2. panic_on_sync \in PanicModes /\ rollback \in BOOLEAN
  BY DEF Init
<1>3. TypeOK
  BY <1>1, <1>2 DEF Init, TypeOK, PCs
<1>4. CommitCovered /\ SeqnLag /\ StoresBound /\ PhaseInv
  BY DEF Init, CommitCovered, SeqnLag, StoresBound, PhaseInv
<1>5. SeqnAgree /\ SeqnIdentifiesData
  BY DEF Init, SeqnAgree, SeqnIdentifiesData
<1>. QED
  BY <1>3, <1>4, <1>5 DEF IInv

\* Every step keeps IInv.
LEMMA NextIInv == IInv /\ [Next]_vars => IInv'
<1>. SUFFICES ASSUME IInv, [Next]_vars PROVE IInv'
  OBVIOUS
<1>. USE TornMetaWriteAssumption
     DEF IInv, TypeOK, PCs, CommitCovered, SeqnLag, StoresBound, PhaseInv,
         SeqnAgree, SeqnIdentifiesData, disk
<1>1. CASE Begin
  BY <1>1, MaxSyncsAssumption DEF Begin
<1>2. CASE BitboxWaitPreMeta
  BY <1>2 DEF BitboxWaitPreMeta, ReturnErr
<1>3. CASE BeatreeWaitPreMeta
  BY <1>3 DEF BeatreeWaitPreMeta, ReturnErr
<1>4. CASE WriteMeta
  BY <1>4 DEF WriteMeta, ReturnErr
<1>5. CASE PostMeta
  BY <1>5 DEF PostMeta, ReturnErr
<1>6. CASE WaitPostMeta
  BY <1>6 DEF WaitPostMeta, ReturnErr
<1>7. CASE Crash
  BY <1>7 DEF Crash
<1>8. CASE Recover
  BY <1>8 DEF Recover
<1>9. CASE UNCHANGED vars
  BY <1>9 DEF vars
<1>. QED
  BY <1>1, <1>2, <1>3, <1>4, <1>5, <1>6, <1>7, <1>8, <1>9 DEF Next

\* IInv holds in every state.
THEOREM IInvInvariant == Spec => []IInv
BY InitIInv, NextIInv, PTL DEF Spec

(***************************************************************************)
(* Type correctness of the sync protocol model.                            *)
(***************************************************************************)
THEOREM TypeCorrect == Spec => []TypeOK
BY IInvInvariant, PTL DEF IInv

(***************************************************************************)
(* Sync::sync commits only durable data: in every state, under any error   *)
(* return, panic, kill or torn meta write, the bitbox and beatree data of  *)
(* the meta's sync_seqn is on disk and nothing durable is more than one    *)
(* seqn ahead.                                                             *)
(***************************************************************************)
THEOREM CommitCoveredInvariant == Spec => []CommitCovered
BY IInvInvariant, PTL DEF IInv

(***************************************************************************)
(* When Meta::write fails only with the old meta on disk, the in-memory    *)
(* sync_seqn equals the meta's in every state, whatever Sync::sync         *)
(* returned and across reopenings.                                         *)
(***************************************************************************)
THEOREM SeqnAgreeInvariant == ~TornMetaWrite => (Spec => []SeqnAgree)
<1>. SUFFICES ASSUME ~TornMetaWrite PROVE Spec => []SeqnAgree
  OBVIOUS
<1>1. IInv => SeqnAgree
  BY DEF IInv
<1>. QED
  BY <1>1, IInvInvariant, PTL

(***************************************************************************)
(* When Meta::write fails only with the old meta on disk, a store holding  *)
(* data under the meta's sync_seqn holds the data of the call whose meta   *)
(* is on disk: no seqn is reused for a second call's data.                 *)
(***************************************************************************)
THEOREM SeqnIdentifiesInvariant ==
  ~TornMetaWrite => (Spec => []SeqnIdentifiesData)
<1>. SUFFICES ASSUME ~TornMetaWrite PROVE Spec => []SeqnIdentifiesData
  OBVIOUS
<1>1. IInv => SeqnIdentifiesData
  BY DEF IInv
<1>. QED
  BY <1>1, IInvInvariant, PTL

(***************************************************************************)
(* Every step that changes the meta on disk advances its sync_seqn by      *)
(* exactly one (self.sync_seqn is bumped only after Meta::write succeeds   *)
(* and reloaded from the meta on reopening), torn meta writes included.    *)
(***************************************************************************)
THEOREM SeqnStepInvariant == Spec => SeqnStepProp
<1>1. IInv /\ [Next]_vars => [SeqnStep]_vars
  <2>. SUFFICES ASSUME IInv, [Next]_vars PROVE [SeqnStep]_vars
    OBVIOUS
  <2>. USE DEF IInv, TypeOK, SeqnLag, PhaseInv, SeqnStep
  <2>1. CASE WriteMeta
    BY <2>1 DEF WriteMeta, ReturnErr
  <2>2. CASE ~WriteMeta
    BY <2>2 DEF Next, vars, disk, Begin, BitboxWaitPreMeta,
                BeatreeWaitPreMeta, PostMeta, WaitPostMeta, Crash, Recover
  <2>. QED
    BY <2>1, <2>2
<1>. QED
  BY <1>1, IInvInvariant, PTL DEF SeqnStepProp, Spec

(***************************************************************************)
(* Sync::sync implements DurableCommit under the mapping committed <-      *)
(* meta_seqn, staged <- Staged: every step of the protocol either leaves   *)
(* the committed seqn and the staged data alone, stages the next seqn's    *)
(* data in both stores, or commits a staged seqn.  A store write cannot    *)
(* unstage data: a store is never more than one seqn ahead of memory, so   *)
(* staged data implies that memory agrees with the meta.                   *)
(***************************************************************************)
THEOREM Refinement == Spec => DurableCommitSpec
<1>1. Init => DC!Init
  BY DEF Init, DC!Init, Staged
<1>2. IInv /\ [Next]_vars => [DC!Next]_<<meta_seqn, Staged>>
  <2>. SUFFICES ASSUME IInv, [Next]_vars
                PROVE  [DC!Next]_<<meta_seqn, Staged>>
    OBVIOUS
  <2>. USE DEF IInv, TypeOK, CommitCovered, SeqnLag, StoresBound, PhaseInv,
               Staged, DC!Next, DC!Stage, DC!Commit
  <2>1. CASE BitboxWaitPreMeta
    BY <2>1 DEF BitboxWaitPreMeta, ReturnErr
  <2>2. CASE BeatreeWaitPreMeta
    BY <2>2 DEF BeatreeWaitPreMeta, ReturnErr
  <2>3. CASE WriteMeta
    BY <2>3 DEF WriteMeta, ReturnErr
  <2>4. CASE ~BitboxWaitPreMeta /\ ~BeatreeWaitPreMeta /\ ~WriteMeta
    BY <2>4 DEF Next, vars, disk, Begin, PostMeta, WaitPostMeta, Crash,
                Recover
  <2>. QED
    BY <2>1, <2>2, <2>3, <2>4
<1>. QED
  BY <1>1, <1>2, IInvInvariant, PTL DEF Spec, DurableCommitSpec, DC!Spec

=============================================================================
