-------------------------------- MODULE Sync --------------------------------
(***************************************************************************)
(* store::sync::Sync::sync (nomt/src/store/sync.rs): the commit protocol    *)
(* that makes a batch durable.  The three stores (bitbox, beatree and the   *)
(* optional rollback log) begin their sync; bitbox and beatree are waited   *)
(* on until their new data is on disk (pre-meta); the meta page carrying    *)
(* the new sync_seqn is written, which is the commit point; then the stores *)
(* are told the meta is durable (post-meta).  Every `?` is an early return  *)
(* with Err, and panic_on_sync makes the process panic right after the WAL  *)
(* or right after the meta.  The process may also be killed at any point.   *)
(*                                                                         *)
(* The stores are abstracted to the durable fact the protocol orders: the  *)
(* sync_seqn of the last sync whose pre-meta data reached disk, and which  *)
(* call wrote it.  Meta::write either fails with the old meta on disk or,  *)
(* when TornMetaWrite holds, may also fail after the new meta page reached *)
(* disk (the write went through and a later fsync reported an error).      *)
(***************************************************************************)
EXTENDS Naturals

CONSTANTS
  MaxSyncs,      \* bound on the calls of sync in one behaviour
  PanicModes,    \* the values panic_on_sync may be built with
  TornMetaWrite  \* Meta::write may return Err with the new meta on disk

ASSUME MaxSyncsAssumption == MaxSyncs \in Nat
ASSUME PanicModesAssumption ==
  PanicModes \subseteq {"None", "PostWal", "PostMeta"}
ASSUME TornMetaWriteAssumption == TornMetaWrite \in BOOLEAN

VARIABLES
  sync_seqn,      \* self.sync_seqn (in memory)
  panic_on_sync,  \* self.panic_on_sync
  pc,             \* where the process is
  seqn,           \* the local sync_seqn of the running call
  rollback,       \* the running call has a rollback (rollback_sync is Some)
  ret,            \* what the last call returned
  meta_seqn,      \* durable: sync_seqn of the meta page on disk
  bitbox_seqn,    \* durable: seqn of the last bitbox sync past wait_pre_meta
  beatree_seqn,   \* durable: seqn of the last beatree sync past wait_pre_meta
  syncs,          \* calls of sync started so far; the running call is number syncs
  meta_batch,     \* durable: the call whose Meta (beatree_meta_wd) is on disk
  bitbox_batch,   \* durable: the call whose bitbox data is on disk
  beatree_batch   \* durable: the call whose beatree data is on disk

disk == <<meta_seqn, bitbox_seqn, beatree_seqn, meta_batch, bitbox_batch,
          beatree_batch>>

vars == <<sync_seqn, panic_on_sync, pc, seqn, rollback, ret, syncs, disk>>

PCs == {"idle", "bitbox_wait", "beatree_wait", "meta", "post_meta",
        "post_wait", "crashed"}

\* A fresh database: meta, stores and memory all at sync_seqn 0.
Init ==
  /\ sync_seqn = 0
  /\ panic_on_sync \in PanicModes
  /\ pc = "idle"
  /\ seqn = 0
  /\ rollback = FALSE
  /\ ret = "None"
  /\ meta_seqn = 0
  /\ bitbox_seqn = 0
  /\ beatree_seqn = 0
  /\ syncs = 0
  /\ meta_batch = 0
  /\ bitbox_batch = 0
  /\ beatree_batch = 0

\* An early return through `?`.
ReturnErr == pc' = "idle" /\ ret' = "Err"

\* Mutant: the local sync_seqn taken as self.sync_seqn, without the + 1.
BeginReuseSeqn ==
  /\ pc = "idle"
  /\ syncs < MaxSyncs
  /\ seqn' = sync_seqn
  /\ rollback' \in BOOLEAN
  /\ pc' = "bitbox_wait"
  /\ syncs' = syncs + 1
  /\ UNCHANGED <<sync_seqn, panic_on_sync, ret, disk>>

\* Lines 41-58: the local sync_seqn, and begin_sync on every store.
Begin ==
  /\ pc = "idle"
  /\ syncs < MaxSyncs
  /\ seqn' = sync_seqn + 1
  /\ rollback' \in BOOLEAN
  /\ pc' = "bitbox_wait"
  /\ syncs' = syncs + 1
  /\ UNCHANGED <<sync_seqn, panic_on_sync, ret, disk>>

\* Mutant: the error of bitbox's wait_pre_meta dropped instead of returned.
BitboxWaitPreMetaIgnoreErr ==
  /\ pc = "bitbox_wait"
  /\ \/ bitbox_seqn' = seqn /\ bitbox_batch' = syncs
     \/ UNCHANGED <<bitbox_seqn, bitbox_batch>>
  /\ pc' = "beatree_wait"
  /\ UNCHANGED <<sync_seqn, panic_on_sync, seqn, rollback, ret, syncs,
                 meta_seqn, beatree_seqn, meta_batch, beatree_batch>>

\* Line 61: bitbox_sync.wait_pre_meta()?.
BitboxWaitPreMeta ==
  /\ pc = "bitbox_wait"
  /\ \/ /\ bitbox_seqn' = seqn /\ bitbox_batch' = syncs
        /\ pc' = "beatree_wait"
        /\ UNCHANGED ret
     \/ /\ ReturnErr
        /\ UNCHANGED <<bitbox_seqn, bitbox_batch>>
  /\ UNCHANGED <<sync_seqn, panic_on_sync, seqn, rollback, syncs,
                 meta_seqn, beatree_seqn, meta_batch, beatree_batch>>

\* Mutant: beatree's wait_pre_meta error dropped and the sync carried on.
BeatreeWaitPreMetaIgnoreErr ==
  /\ pc = "beatree_wait"
  /\ \/ beatree_seqn' = seqn /\ beatree_batch' = syncs
     \/ UNCHANGED <<beatree_seqn, beatree_batch>>
  /\ pc' = IF panic_on_sync = "PostWal" THEN "crashed" ELSE "meta"
  /\ UNCHANGED <<sync_seqn, panic_on_sync, seqn, rollback, ret, syncs,
                 meta_seqn, bitbox_seqn, meta_batch, bitbox_batch>>

\* Lines 63-68: beatree_sync.wait_pre_meta()?, then the post-WAL panic.
BeatreeWaitPreMeta ==
  /\ pc = "beatree_wait"
  /\ \/ /\ beatree_seqn' = seqn /\ beatree_batch' = syncs
        /\ pc' = IF panic_on_sync = "PostWal" THEN "crashed" ELSE "meta"
        /\ UNCHANGED ret
     \/ /\ ReturnErr
        /\ UNCHANGED <<beatree_seqn, beatree_batch>>
  /\ UNCHANGED <<sync_seqn, panic_on_sync, seqn, rollback, syncs,
                 meta_seqn, bitbox_seqn, meta_batch, bitbox_batch>>

\* Mutant: self.sync_seqn += 1 moved before Meta::write(..)?.
WriteMetaIncrementFirst ==
  /\ pc = "meta"
  /\ sync_seqn' = sync_seqn + 1
  /\ \/ /\ meta_seqn' = seqn /\ meta_batch' = syncs
        /\ pc' = IF panic_on_sync = "PostMeta" THEN "crashed" ELSE "post_meta"
        /\ UNCHANGED ret
     \/ /\ ReturnErr
        /\ UNCHANGED <<meta_seqn, meta_batch>>
  /\ UNCHANGED <<panic_on_sync, seqn, rollback, syncs, bitbox_seqn,
                 beatree_seqn, bitbox_batch, beatree_batch>>

(***************************************************************************)
(* Lines 71-91: the Meta carrying this call's sync_seqn and beatree meta,  *)
(* Meta::write(..)?, self.sync_seqn += 1, then the post-meta panic.  An    *)
(* Err leaves the old meta on disk or, with TornMetaWrite, the new one.    *)
(***************************************************************************)
WriteMeta ==
  /\ pc = "meta"
  /\ \/ /\ meta_seqn' = seqn /\ meta_batch' = syncs
        /\ sync_seqn' = sync_seqn + 1
        /\ pc' = IF panic_on_sync = "PostMeta" THEN "crashed" ELSE "post_meta"
        /\ UNCHANGED ret
     \/ /\ ReturnErr
        /\ \/ UNCHANGED <<meta_seqn, meta_batch>>
           \/ TornMetaWrite /\ meta_seqn' = seqn /\ meta_batch' = syncs
        /\ UNCHANGED sync_seqn
  /\ UNCHANGED <<panic_on_sync, seqn, rollback, syncs, bitbox_seqn,
                 beatree_seqn, bitbox_batch, beatree_batch>>

\* Lines 93-101: rollback post_meta, bitbox_sync.post_meta(..)?,
\* beatree_sync.post_meta().
PostMeta ==
  /\ pc = "post_meta"
  /\ \/ pc' = "post_wait" /\ UNCHANGED ret
     \/ ReturnErr
  /\ UNCHANGED <<sync_seqn, panic_on_sync, seqn, rollback, syncs, disk>>

\* Lines 103-107: rollback.wait_post_meta()? when there is a rollback; Ok.
WaitPostMeta ==
  /\ pc = "post_wait"
  /\ \/ pc' = "idle" /\ ret' = "Ok"
     \/ rollback /\ ReturnErr
  /\ UNCHANGED <<sync_seqn, panic_on_sync, seqn, rollback, syncs, disk>>

\* The process dies (a panic elsewhere, a kill): only the disk survives.
Crash ==
  /\ pc # "crashed"
  /\ pc' = "crashed"
  /\ UNCHANGED <<sync_seqn, panic_on_sync, seqn, rollback, ret, syncs, disk>>

\* Reopening: Sync::new (lines 17-29) with the sync_seqn read from the meta.
Recover ==
  /\ pc = "crashed"
  /\ sync_seqn' = meta_seqn
  /\ pc' = "idle"
  /\ ret' = "None"
  /\ UNCHANGED <<panic_on_sync, seqn, rollback, syncs, disk>>

Next ==
  \/ Begin \/ BitboxWaitPreMeta \/ BeatreeWaitPreMeta \/ WriteMeta
  \/ PostMeta \/ WaitPostMeta \/ Crash \/ Recover

Spec == Init /\ [][Next]_vars

-----------------------------------------------------------------------------
TypeOK ==
  /\ sync_seqn \in Nat
  /\ panic_on_sync \in PanicModes
  /\ pc \in PCs
  /\ seqn \in Nat
  /\ rollback \in BOOLEAN
  /\ ret \in {"None", "Ok", "Err"}
  /\ syncs \in 0 .. MaxSyncs
  /\ meta_seqn \in Nat
  /\ bitbox_seqn \in Nat
  /\ beatree_seqn \in Nat
  /\ meta_batch \in 0 .. MaxSyncs
  /\ bitbox_batch \in 0 .. MaxSyncs
  /\ beatree_batch \in 0 .. MaxSyncs

(***************************************************************************)
(* The meta commits only data that is on disk, and no store runs more than *)
(* one sync ahead of it: under any failing `?`, panic or kill, and across  *)
(* repeated syncs and reopenings, the bitbox and beatree data of the       *)
(* committed sync_seqn reached disk before the meta did (wait_pre_meta     *)
(* precedes Meta::write), and whatever is durable beyond the meta belongs  *)
(* to the single next seqn, which recovery can discard.                    *)
(***************************************************************************)
CommitCovered ==
  /\ bitbox_seqn \in {meta_seqn, meta_seqn + 1}
  /\ beatree_seqn \in {meta_seqn, meta_seqn + 1}

(***************************************************************************)
(* The in-memory sync_seqn always equals the meta's on disk: after an Ok,  *)
(* after an Err from any `?` (before the meta, or after it at post_meta)  *)
(* and after a reopening, so the next sync writes the next seqn.           *)
(***************************************************************************)
SeqnAgree == sync_seqn = meta_seqn

(***************************************************************************)
(* A store's sync_seqn identifies its data: a store whose durable data     *)
(* carries the meta's sync_seqn holds the data of the very call whose Meta *)
(* is on disk, so recovery can tell committed data (seqn of the meta) from *)
(* data to discard (the next seqn) by the seqn alone.  It fails if a       *)
(* sync_seqn is ever handed to a second call after its meta reached disk.  *)
(***************************************************************************)
SeqnIdentifiesData ==
  /\ bitbox_seqn = meta_seqn => bitbox_batch = meta_batch
  /\ beatree_seqn = meta_seqn => beatree_batch = meta_batch

(***************************************************************************)
(* Every meta write that changes the meta advances its sync_seqn by        *)
(* exactly one: a failed or crashed sync neither skips nor reuses a        *)
(* sequence number (self.sync_seqn += 1 only after Meta::write succeeds).  *)
(***************************************************************************)
SeqnStep == meta_seqn' # meta_seqn => meta_seqn' = meta_seqn + 1

SeqnStepProp == [][SeqnStep]_vars

(***************************************************************************)
(* Sync::sync implements the disk contract of DurableCommit: the meta's    *)
(* sync_seqn is the committed number, and the next number is staged when   *)
(* both bitbox and beatree hold its data on disk.                          *)
(***************************************************************************)
Staged == bitbox_seqn = meta_seqn + 1 /\ beatree_seqn = meta_seqn + 1

DC == INSTANCE DurableCommit WITH committed <- meta_seqn, staged <- Staged

DurableCommitSpec == DC!Spec

=============================================================================
