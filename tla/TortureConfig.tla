----------------------------- MODULE TortureConfig -----------------------------
(***************************************************************************)
(* torture/src/supervisor/config.rs: WorkloadConfiguration::new draws the  *)
(* swarm features of a workload, allocates its resources (memory when a    *)
(* trickfs feature is on, disk otherwise), sizes the hash table, fills in  *)
(* the defaults, then applies each feature in turn                         *)
(* (apply_swarm_feature); the supervisor may later call                    *)
(* enable_ensure_snapshot on it.                                           *)
(*                                                                         *)
(* A probability (an f64) is kept in hundredths and a random range is      *)
(* drawn at its two ends: the properties tell zero from non-zero and a     *)
(* bound from the next value.  The fields no feature changes and no        *)
(* property reads (iterations, the worker counts, cache sizes, seed) are   *)
(* left out.  swarm::new_features_set and the resource allocator are not   *)
(* under src/: the features are any set of Features, and an allocation     *)
(* either fails with ResourceExhaustion or assigns one of AvailBytes.      *)
(***************************************************************************)
EXTENDS Naturals

CONSTANTS
  Features,     \* the SwarmFeatures new_features_set may draw
  AvailBytes    \* the sizes the allocator may assign a workload

SwarmFeatures ==
  {"TrickfsENOSPC", "TrickfsLatencyInjection", "EnsureChangeset",
   "SampleSnapshot", "WarmUp", "PreallocateHt", "Read", "Rollback",
   "RollbackCrash", "CommitCrash", "PrepopulatePageCache", "NewKeys",
   "DeleteKeys", "UpdateKeys", "OverflowValues"}

ASSUME FeaturesAssumption == Features \subseteq SwarmFeatures
ASSUME AvailBytesAssumption == AvailBytes \subseteq Nat

PAGE_SIZE == 4096

\* rng.gen_range(lo..=hi) and rng.gen_range(lo..hi), drawn at their ends.
Incl(lo, hi) == {lo, hi}
Excl(lo, hi) == {lo, hi - 1}

VARIABLES
  features,   \* the features the loop of line 209 has not applied yet
  alloc,      \* what the allocator gave the workload: "none", "memory", "disk"
  config,     \* the WorkloadConfiguration (its defaults before new builds it)
  phase       \* "start", "apply" (the loop of line 209), then what new
              \* returns: "Ok" or "ResourceExhaustion"

vars == <<features, alloc, config, phase>>

\* Mutant: only the ENOSPC feature counts as trickfs.
IsTrickfsEnospcOnly(fs) == "TrickfsENOSPC" \in fs

\* Lines 126-134: a trickfs feature is among the drawn ones.
IsTrickfs(fs) == fs \cap {"TrickfsENOSPC", "TrickfsLatencyInjection"} # {}

\* Lines 150-156: the share of the space given to the hash table, in pages,
\* the f64 products truncated.  The cast to u32 is the identity below
\* 2^32 pages (16 TiB), far above the sizes the model draws.
HashtableBuckets(trickfs, avail) ==
  LET size == IF trickfs THEN (avail * 5) \div 10 ELSE (avail * 8) \div 10
  IN  size \div PAGE_SIZE

\* Line 255: rng.gen_range(2..100).
RollbackCommits == Excl(2, 100)

\* Lines 232-265: apply_swarm_feature, given the values the rng draws:
\* a, b from 0.01..=1.00, r, s from 0.01..1.00, n from 1..=64, m from 2..100.
Applied(c, f, a, b, r, s, n, m) ==
  CASE f = "TrickfsENOSPC" -> [c EXCEPT !.enospc_on = a, !.enospc_off = b]
    [] f = "TrickfsLatencyInjection" -> [c EXCEPT !.latency_on = a, !.latency_off = b]
    [] f = "EnsureChangeset" -> [c EXCEPT !.ensure_changeset = TRUE]
    [] f = "SampleSnapshot" -> [c EXCEPT !.sample_snapshot = TRUE]
    [] f = "WarmUp" -> [c EXCEPT !.warm_up = TRUE]
    [] f = "PreallocateHt" -> [c EXCEPT !.preallocate_ht = TRUE]
    [] f = "Read" -> [c EXCEPT !.reads = r, !.read_concurrency = n,
                               !.read_existing_key = s]
    [] f = "Rollback" -> [c EXCEPT !.rollback = r, !.max_rollback_commits = m]
    [] f = "RollbackCrash" -> [c EXCEPT !.rollback_crash = r]
    [] f = "CommitCrash" -> [c EXCEPT !.commit_crash = r]
    [] f = "PrepopulatePageCache" -> [c EXCEPT !.prepopulate_page_cache = TRUE]
    [] f = "NewKeys" -> [c EXCEPT !.new_key = a]
    [] f = "DeleteKeys" -> [c EXCEPT !.delete_key = a]
    [] f = "UpdateKeys" -> [c EXCEPT !.update_key = a]
    [] f = "OverflowValues" -> [c EXCEPT !.overflow = a]

\* Lines 174-206: the configuration before any feature is applied.
Defaults(trickfs, avail) ==
  [read_existing_key |-> 0, new_key |-> 0, delete_key |-> 0, update_key |-> 0,
   overflow |-> 0, rollback |-> 0, commit_crash |-> 0, rollback_crash |-> 0,
   trickfs |-> trickfs, enospc_on |-> 0, enospc_off |-> 0, latency_on |-> 0,
   latency_off |-> 0, ensure_changeset |-> FALSE, ensure_snapshot |-> FALSE,
   sample_snapshot |-> FALSE, max_rollback_commits |-> 0, reads |-> 0,
   read_concurrency |-> 1, warm_up |-> FALSE, preallocate_ht |-> FALSE,
   prepopulate_page_cache |-> FALSE,
   hashtable_buckets |-> HashtableBuckets(trickfs, avail)]

-----------------------------------------------------------------------------
Init ==
  /\ features = {}
  /\ alloc = "none"
  /\ config = Defaults(FALSE, 0)
  /\ phase = "start"

\* Lines 119-207: draw the features, allocate under the allocator's lock
\* (the ? returns ResourceExhaustion), size the hash table, fill in defaults.
New ==
  /\ phase = "start"
  /\ \E fs \in SUBSET Features :
       LET trickfs == IsTrickfs(fs)
       IN  \/ /\ phase' = "ResourceExhaustion"
              /\ UNCHANGED <<features, alloc, config>>
           \/ \E avail \in AvailBytes :
                /\ alloc' = IF trickfs THEN "memory" ELSE "disk"
                /\ features' = fs
                /\ config' = Defaults(trickfs, avail)
                /\ phase' = "apply"

\* Lines 209-211: one iteration of the loop applying the features.
ApplySwarmFeature ==
  /\ phase = "apply"
  /\ \E f \in features,
        a, b \in Incl(1, 100), r, s \in Excl(1, 100),
        n \in Incl(1, 64), m \in RollbackCommits :
       /\ config' = Applied(config, f, a, b, r, s, n, m)
       /\ features' = features \ {f}
  /\ UNCHANGED <<alloc, phase>>

\* Line 213: Ok(config) once every feature is applied.
Finish ==
  /\ phase = "apply"
  /\ features = {}
  /\ phase' = "Ok"
  /\ UNCHANGED <<features, alloc, config>>

\* Lines 224-226: enable_ensure_snapshot on a built configuration.
EnableEnsureSnapshot ==
  /\ phase = "Ok"
  /\ ~config.ensure_snapshot
  /\ config' = [config EXCEPT !.ensure_snapshot = TRUE]
  /\ UNCHANGED <<features, alloc, phase>>

Next == New \/ ApplySwarmFeature \/ Finish \/ EnableEnsureSnapshot

Spec == Init /\ [][Next]_vars

-----------------------------------------------------------------------------
(***************************************************************************)
(* The doc comment of the trickfs field (lines 100-102): a workload runs   *)
(* on trickfs, in memory, exactly when the field says so, and a workload   *)
(* not on trickfs has all four ENOSPC and latency probabilities 0, however *)
(* the features are drawn and in whatever order they are applied.          *)
(***************************************************************************)
TrickfsConsistent ==
  phase \in {"apply", "Ok"} =>
    /\ config.trickfs = (alloc = "memory")
    /\ ~config.trickfs =>
         config.enospc_on = 0 /\ config.enospc_off = 0
         /\ config.latency_on = 0 /\ config.latency_off = 0

-----------------------------------------------------------------------------
\* Line 172: the weights (1..33).map(|x| (32 * 32) / x); the weight of b
\* shared bytes is NewKeyWeight[b + 1].
NewKeyWeight == [x \in 1 .. 32 |-> (32 * 32) \div x]

WeightUpTo[n \in 0 .. 32] == IF n = 0 THEN 0 ELSE WeightUpTo[n - 1] + NewKeyWeight[n]

\* The percentage, rounded to the nearest, of keys sharing lo..hi bytes.
SharePercent(lo, hi) ==
  LET w == WeightUpTo[hi + 1] - WeightUpTo[lo]
  IN  (200 * w + WeightUpTo[32]) \div (2 * WeightUpTo[32])

(***************************************************************************)
(* The comment of lines 165-168 on new_key_distribution: in a workload    *)
(* that inserts new keys (the NewKeys feature), 25% of new keys share no   *)
(* byte with an existing key, 48% share 1 to 9 bytes and 27% share more    *)
(* than 10.                                                                *)
(***************************************************************************)
NewKeyDistributionAsDocumented ==
  config.new_key > 0 =>
     /\ SharePercent(0, 0) = 25
     /\ SharePercent(1, 9) = 48
     /\ SharePercent(11, 31) = 27

=============================================================================
