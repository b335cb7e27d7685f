------------------------- MODULE TortureConfigProofs -------------------------
(***************************************************************************)
(* Proofs about TortureConfig, for every set of features new_features_set  *)
(* may draw and every size the allocator may assign.                       *)
(***************************************************************************)
EXTENDS TortureConfig, TLAPS

TrickfsFeatures == {"TrickfsENOSPC", "TrickfsLatencyInjection"}

\* The fields of the modelled WorkloadConfiguration.
ConfigRec ==
  [read_existing_key : Nat, new_key : Nat, delete_key : Nat, update_key : Nat,
   overflow : Nat, rollback : Nat, commit_crash : Nat, rollback_crash : Nat,
   trickfs : BOOLEAN, enospc_on : Nat, enospc_off : Nat, latency_on : Nat,
   latency_off : Nat, ensure_changeset : BOOLEAN, ensure_snapshot : BOOLEAN,
   sample_snapshot : BOOLEAN, max_rollback_commits : Nat, reads : Nat,
   read_concurrency : Nat, warm_up : BOOLEAN, preallocate_ht : BOOLEAN,
   prepopulate_page_cache : BOOLEAN, hashtable_buckets : Nat]

TypeOK ==
  /\ features \subseteq Features
  /\ alloc \in {"none", "memory", "disk"}
  /\ config \in ConfigRec
  /\ phase \in {"start", "apply", "Ok", "ResourceExhaustion"}

(***************************************************************************)
(* The strengthening: while the loop of line 209 runs, a workload that is  *)
(* not on trickfs has no trickfs feature left to apply.  Without it a step *)
(* of ApplySwarmFeature could set an ENOSPC probability of a non-trickfs   *)
(* workload, as far as the invariant alone knows.                          *)
(***************************************************************************)
PendingConsistent ==
  phase = "apply" /\ ~config.trickfs => features \cap TrickfsFeatures = {}

IInv ==
  /\ TypeOK
  /\ TrickfsConsistent
  /\ PendingConsistent

-----------------------------------------------------------------------------
\* What apply_swarm_feature changes: the ENOSPC fields only for the ENOSPC
\* feature, the latency fields only for the latency feature, the rollback
\* fields only together, and never the trickfs flag.
AppliedProps(c, d, f, r, m) ==
  /\ d \in ConfigRec
  /\ d.trickfs = c.trickfs
  /\ f # "TrickfsENOSPC" =>
       d.enospc_on = c.enospc_on /\ d.enospc_off = c.enospc_off
  /\ f # "TrickfsLatencyInjection" =>
       d.latency_on = c.latency_on /\ d.latency_off = c.latency_off
  /\ \/ d.rollback = c.rollback /\ d.max_rollback_commits = c.max_rollback_commits
     \/ d.rollback = r /\ d.max_rollback_commits = m

LEMMA AppliedFacts ==
  ASSUME NEW c \in ConfigRec, NEW f \in SwarmFeatures,
         NEW a \in Nat, NEW b \in Nat, NEW r \in Nat, NEW s \in Nat,
         NEW n \in Nat, NEW m \in Nat
  PROVE  AppliedProps(c, Applied(c, f, a, b, r, s, n, m), f, r, m)
  <1>1. CASE f = "TrickfsENOSPC"
    BY <1>1 DEF Applied, ConfigRec, AppliedProps
  <1>2. CASE f = "TrickfsLatencyInjection"
    BY <1>2 DEF Applied, ConfigRec, AppliedProps
  <1>3. CASE f = "EnsureChangeset"
    BY <1>3 DEF Applied, ConfigRec, AppliedProps
  <1>4. CASE f = "SampleSnapshot"
    BY <1>4 DEF Applied, ConfigRec, AppliedProps
  <1>5. CASE f = "WarmUp"
    BY <1>5 DEF Applied, ConfigRec, AppliedProps
  <1>6. CASE f = "PreallocateHt"
    BY <1>6 DEF Applied, ConfigRec, AppliedProps
  <1>7. CASE f = "Read"
    BY <1>7 DEF Applied, ConfigRec, AppliedProps
  <1>8. CASE f = "Rollback"
    BY <1>8 DEF Applied, ConfigRec, AppliedProps
  <1>9. CASE f = "RollbackCrash"
    BY <1>9 DEF Applied, ConfigRec, AppliedProps
  <1>10. CASE f = "CommitCrash"
    BY <1>10 DEF Applied, ConfigRec, AppliedProps
  <1>11. CASE f = "PrepopulatePageCache"
    BY <1>11 DEF Applied, ConfigRec, AppliedProps
  <1>12. CASE f = "NewKeys"
    BY <1>12 DEF Applied, ConfigRec, AppliedProps
  <1>13. CASE f = "DeleteKeys"
    BY <1>13 DEF Applied, ConfigRec, AppliedProps
  <1>14. CASE f = "UpdateKeys"
    BY <1>14 DEF Applied, ConfigRec, AppliedProps
  <1>15. CASE f = "OverflowValues"
    BY <1>15 DEF Applied, ConfigRec, AppliedProps
  <1>16. QED
    BY <1>1, <1>2, <1>3, <1>4, <1>5, <1>6, <1>7, <1>8, <1>9, <1>10, <1>11, <1>12, <1>13, <1>14, <1>15 DEF SwarmFeatures

\* Every behaviour starts in IInv.
LEMMA InitIInv == Init => IInv
  BY DEF Init, IInv, TypeOK, ConfigRec, Defaults, HashtableBuckets, PAGE_SIZE,
         TrickfsConsistent, PendingConsistent

\* Every step keeps IInv.
LEMMA NextIInv == IInv /\ [Next]_vars => IInv'
  <1> SUFFICES ASSUME IInv, [Next]_vars PROVE IInv'
    OBVIOUS
  <1> USE FeaturesAssumption, AvailBytesAssumption
  <1>1. CASE New
    <2>1. PICK fs \in SUBSET Features :
            \/ /\ phase' = "ResourceExhaustion"
               /\ UNCHANGED <<features, alloc, config>>
            \/ \E avail \in AvailBytes :
                 /\ alloc' = IF IsTrickfs(fs) THEN "memory" ELSE "disk"
                 /\ features' = fs
                 /\ config' = Defaults(IsTrickfs(fs), avail)
                 /\ phase' = "apply"
      BY <1>1 DEF New
    <2>2. CASE phase' = "ResourceExhaustion" /\ UNCHANGED <<features, alloc, config>>
      BY <2>2 DEF IInv, TypeOK, TrickfsConsistent,
                  PendingConsistent
    <2>3. ASSUME NEW avail \in AvailBytes,
                 alloc' = IF IsTrickfs(fs) THEN "memory" ELSE "disk",
                 features' = fs,
                 config' = Defaults(IsTrickfs(fs), avail),
                 phase' = "apply"
          PROVE  IInv'
      <3>1. HashtableBuckets(IsTrickfs(fs), avail) \in Nat
        BY DEF HashtableBuckets, PAGE_SIZE
      <3>2. IsTrickfs(fs) \in BOOLEAN
        BY DEF IsTrickfs
      <3>3. config' \in ConfigRec
        BY <2>3, <3>1, <3>2 DEF Defaults, ConfigRec
      <3>4. TypeOK'
        BY <2>3, <3>3 DEF TypeOK
      <3>5. TrickfsConsistent'
        BY <2>3, <3>2 DEF TrickfsConsistent, Defaults
      <3>7. PendingConsistent'
        BY <2>3, <3>2 DEF PendingConsistent, Defaults, IsTrickfs, TrickfsFeatures
      <3>8. QED
        BY <3>4, <3>5, <3>7 DEF IInv
    <2>4. QED
      BY <2>1, <2>2, <2>3
  <1>2. CASE ApplySwarmFeature
    <2>1. PICK f \in features, a \in Incl(1, 100), b \in Incl(1, 100),
               r \in Excl(1, 100), s \in Excl(1, 100), n \in Incl(1, 64),
               m \in RollbackCommits :
            /\ config' = Applied(config, f, a, b, r, s, n, m)
            /\ features' = features \ {f}
      BY <1>2 DEF ApplySwarmFeature
    <2>2. /\ f \in SwarmFeatures
          /\ a \in Nat /\ b \in Nat /\ r \in Nat /\ s \in Nat
          /\ n \in Nat /\ m \in Nat
      BY DEF IInv, TypeOK, Incl, Excl, RollbackCommits
    <2>3. /\ phase' = "apply" /\ phase = "apply"
          /\ alloc' = alloc
      BY <1>2 DEF ApplySwarmFeature
    <2>4. config \in ConfigRec /\ features \subseteq Features
      BY DEF IInv, TypeOK
    <2> DEFINE d == Applied(config, f, a, b, r, s, n, m)
    <2>5. AppliedProps(config, d, f, r, m)
      BY <2>2, <2>4, AppliedFacts
    <2>6. TypeOK'
      BY <2>1, <2>3, <2>4, <2>5 DEF AppliedProps, IInv, TypeOK
    <2>7. PendingConsistent'
      BY <2>1, <2>3, <2>5 DEF AppliedProps, IInv, PendingConsistent
    <2>8. TrickfsConsistent'
      <3>1. config'.trickfs = (alloc' = "memory")
        BY <2>1, <2>3, <2>5 DEF AppliedProps, IInv, TrickfsConsistent
      <3>2. ~config'.trickfs => f \notin TrickfsFeatures
        BY <2>1, <2>3, <2>5 DEF AppliedProps, IInv, PendingConsistent, TrickfsFeatures
      <3>3. QED
        BY <2>1, <2>3, <2>5, <3>1, <3>2 DEF AppliedProps, IInv, TrickfsConsistent, TrickfsFeatures
    <2>10. QED
      BY <2>6, <2>7, <2>8 DEF IInv
  <1>3. CASE Finish
    BY <1>3 DEF Finish, IInv, TypeOK, TrickfsConsistent,
                PendingConsistent
  <1>4. CASE EnableEnsureSnapshot
    BY <1>4 DEF EnableEnsureSnapshot, IInv, TypeOK, ConfigRec, TrickfsConsistent,
                PendingConsistent
  <1>5. CASE UNCHANGED vars
    BY <1>5 DEF vars, IInv, TypeOK, TrickfsConsistent,
                PendingConsistent
  <1>6. QED
    BY <1>1, <1>2, <1>3, <1>4, <1>5 DEF Next

\* IInv holds in every state of every behaviour.
THEOREM IInvInvariant == Spec => []IInv
  BY InitIInv, NextIInv, PTL DEF Spec

(***************************************************************************)
(* The trickfs doc comment (lines 100-102) holds for every feature set:    *)
(* a workload is given memory exactly when it is flagged trickfs, and a    *)
(* workload not on trickfs never gets an ENOSPC or latency probability.    *)
(***************************************************************************)
THEOREM TrickfsConsistentInvariant == Spec => []TrickfsConsistent
  BY IInvInvariant, PTL DEF IInv

=============================================================================
