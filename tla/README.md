# TLA+ models of nomt: the proof core, the commit sync and the torture configuration

This directory holds TLA+ models of parts of the nomt repository:
- the model-checking configurations that run them;
- TLAPS proofs of their main invariants.

Every definition is written from the Rust source under `src/`. The exceptions are definitions marked `spec_modelled` in `PROJECT.json`. They stand for code outside `src/` (the hasher, `update::build_trie`, `update::leaf_ops_spliced`, the prover, `commit_batch`, `verify_multi_proof`, the torture `swarm` features and `ResourceAllocator`), and they are written from `spec.md` or from how `src/` uses them.

## 1. The system and its parts

| Part | Source | What it does | State |
|---|---|---|---|
| Hash oracle, sub-trie builder | outside `src/` (spec 4.1, 6) | `hash_leaf`, `hash_internal`, `NodeKind::of`; `build_trie` (singleton collapse) | none (pure) |
| Path proofs | `core/src/proof/path_proof.rs` 26-212, 379-381 | `PathProofTerminal` helpers, `hash_path`, `PathProof::verify`, `in_scope`, `confirm_value`, `confirm_nonexistence`, `shared_bits` | none (pure) |
| Batch update verifier | `path_proof.rs` 257-376 | `verify_update`: validate a batch, rebuild each touched sub-trie, stitch the sub-tries along a left frontier | loop indices, `pending_siblings`, `cur_node`, `cur_layer` |
| Commit sync | `nomt/src/store/sync.rs` | `Sync::sync`: begin_sync on bitbox, beatree and rollback; wait_pre_meta; `Meta::write` (the commit point); `sync_seqn += 1`; post_meta; wait_post_meta | `sync_seqn` in memory; the meta and the stores' data on disk |
| Witness example | `examples/witness_verification/src/main.rs` | verifies the witness as a multi-proof, checks each read against the path covering it, then `verify_update(prev_root, &[])` against `new_root` | loop index, reads iterator |
| Torture configuration | `torture/src/supervisor/config.rs` | `WorkloadConfiguration::new`: draws swarm features, allocates memory or disk, sizes the hash table, applies each feature; `enable_ensure_snapshot` | the configuration being built |

How the parts interact:
- `verify_update` consumes `VerifiedPathProof`s produced by `PathProof::verify`. It calls the builder on each spliced leaf set and the oracle at every compaction step.
- The witness example consumes the output of `commit_batch` (prev_root, new_root and a witness).
- The sync runs after a commit and persists the stores' new data. It is independent of the proof core.
- The torture supervisor builds one `WorkloadConfiguration` per workload; the trickfs flag decides whether the workload gets memory (trickfs) or disk from the shared allocator.

### Hard behaviours (where the code can go wrong)

Each one is listed with its line under `hazards` in `PROJECT.json`:
- **Usize underflow.** `up_layers = skip - (n + 1)` (line 316) relies on the comment "n always < skip". That holds only because validation (line 283) enforces a strict path order.
- **Stale sibling.** A proof-supplied sibling is stale when an earlier path rewrote that sub-trie. It must be replaced by the pending frontier node at the same layer (line 338).
- **Compaction.** When an update empties a sub-trie or leaves a single leaf, the leaf must float up (line 345).
- **Final unwrap.** The `pop().unwrap()` at line 375 needs exactly one frontier node at the end.
- **Sync failures and crashes.** Every `?` in `Sync::sync` is a partial failure. panic_on_sync can crash the process after the WAL (line 66) or after the meta (line 89). The in-memory `sync_seqn` must track the meta's.
- **A meta write that fails after writing.** `sync_seqn` is only bumped when `Meta::write` returns Ok (line 85). If the new meta reached disk before the error, the next sync reuses its seqn for other data.
- **Adversarial proofs.** `verify` never checks that the terminal leaf's key extends the proven prefix (line 89); the queries must still answer truthfully.
- **The witness read loop.** Reads are matched to paths by `skip_while`/`take_while` over a fresh iterator per path (line 58); a shared iterator would silently skip reads.
- **Torture configuration.** trickfs is derived from the features (line 126) before the features are applied.

## 2. Modules

| Module | Models | Notes |
|---|---|---|
| `Trie` | Key paths and bit slices; lexicographic `Ord` (`LexLess`); the hash oracle; the reference builder `BuildTrie` | A digest is a prefix-free serialisation of its hash term, so the oracle is collision-free and domain-separated by construction. `BuildTrie` is a recursive *function*, so that tlapm can reach the modules built on it. |
| `PathProof` | `hash_path`, `verify`, the verified-path queries, `shared_bits`; the honest prover | Pure operators. The prover (`HonestProof`) generates inputs for the runs. |
| `MCPathProof` | A light client calling `verify` on a proof from anyone, then querying the verified path | The adversary sends any terminal with up to KeyBits+1 siblings drawn from the trie's nodes; digests are collision free, so no other sibling can hash to the root. |
| `VerifyUpdate` | `verify_update` as a state machine | See below. |
| `MCVerifyUpdateHonest` | Input generation for `verify_update`: honest calls | The batches a witness builder produces from a small trie and change set. The proofs of one trie are built once for all its change sets. |
| `MCVerifyUpdate` | Input generation for `verify_update`: caller mistakes | The honest batches, and the same batches with one caller mistake each. It is a module of its own because TLC builds every constant definition at startup, and the mistakes are only checked at 2 bits. |
| `VerifyUpdateProofs` | TLAPS proofs about `VerifyUpdate` | |
| `VerifyUpdatePanicProofs` | TLAPS proof that `verify_update` never panics | |
| `VerifyUpdateFrontierProofs` | TLAPS proofs about the shape of the stitching frontier | |
| `Sync` | `Sync::sync` and `Sync::new` | See below. |
| `DurableCommit` | The abstract contract of the sync: a seqn is committed only after its data is durable everywhere, one at a time | Two variables, two actions. `Sync` refines it. |
| `SyncProofs` | TLAPS proofs about `Sync`, the refinement included | |
| `WitnessReads` | `main.rs` 7-75: multi-proof verification and the per-path read loop | `verify_multi_proof` answers a query from the verified path covering the key. The witness is a constant `Witnesses`; `WitnessesAssumption` states what the loop takes from `commit_batch`: at least one path, every read's `path_index` names a path, and reads grouped in path order. |
| `MCWitnessReads` | The witnesses an honest `commit_batch` returns for a small trie | Builds them with `SequencesExt`'s sorting. TLC evaluates `WitnessesAssumption` on them. |
| `WitnessReadsProofs` | TLAPS proof that the read loop checks every read | |
| `WitnessExample` | The example's closing `assert_eq!` | |
| `TortureConfig` | `WorkloadConfiguration::new`, `apply_swarm_feature`, `enable_ensure_snapshot` | See below. |
| `TortureConfigProofs` | TLAPS proofs of the torture configuration's two invariants | |

### VerifyUpdate

Variables:
- The arguments `prev_root` and `paths`, chosen by `Init` from `Batches`.
  The assumption `VerifiedPrefixFree` says of every batch: of two distinct verified paths on one root, neither path's key prefix extends the other's. The code justifies it. A `VerifiedPathProof` can only be built by `verify` (its fields are private, lines 156-161). The hash is collision-free, so one root proves one trie, in which no terminal node lies above another. Line 314's comment `n always < skip` relies on it. TLC evaluates the assumption on every batch of every run.
- A history variable `trie0`: the trie the proofs were made against, used by the properties only.
- The locals of the Rust function: `i`, `j`, `pending` (`pending_siblings`), `cur_node`, `cur_layer`, `end_layer` and `up_layers`.
- `step` (iterations of the zipped loop done so far), `pc`, and the returned `result`.

Actions:

| Action | Lines | What it does |
|---|---|---|
| `Entry` | 271-273 | An empty batch returns `prev_root`. |
| `CheckPath` | 276-290 | The root, path order and non-empty checks on one path (`PathCheck`). |
| `CheckOp` | 292-301 | The op order and scope checks on one op (`OpCheck`), then the next op, the next path, or the end of validation. |
| `BeginPath` | 304-325 | `up_layers`, with a negative value modelled as the usize underflow panic (`pc = "underflow"`). Then the spliced leaves and the sub-trie root. |
| `Climb` | 329-369 | One layer of the zipped loop: sibling replacement, compaction, `cur_layer -= 1`. |
| `EndPath` | 370 | Push `(cur_node, end_layer)` and move on. |
| `Finish` | 373-375 | Pop and return the last frontier node. An empty frontier is the unwrap panic (`pc = "unwrap"`). |

Each action models the whole statement group it names. Every early `return Err` is the `Fail` step.

Besides the per-state invariants, two properties describe the stitching frontier:
- `FrontierAtFinish`: when the loop ends, the frontier is exactly one node, at layer 0 (the root).
- `PendingIsLeftSibling` (an action property): the climb replaces a sibling by a pending node only where the current path has bit 1, so the pending node really is a left sibling.

### Sync

Sync has the in-memory `sync_seqn` and `panic_on_sync`, the running call's `seqn` and `rollback`, and `ret`. `syncs` numbers the calls, so that the model can tell the data of two calls apart. The disk is abstracted to:
- the meta's `sync_seqn`, and the call whose meta it is (`meta_batch`);
- for bitbox and for beatree, the seqn of the last sync whose pre-meta data reached disk, and that call (`*_batch`).

The constant `TornMetaWrite` is a fault model. When it is TRUE, a `Meta::write` that returns Err may already have put the new meta on disk (a failed fsync after the write).

Actions:

| Action | Lines | What it does |
|---|---|---|
| `Begin` | 41-58 | The local seqn, and begin_sync on every store. |
| `BitboxWaitPreMeta` | 61 | bitbox's wait_pre_meta. |
| `BeatreeWaitPreMeta` | 63-68 | beatree's wait_pre_meta, then the PostWal panic. |
| `WriteMeta` | 71-91 | `Meta::write`, `sync_seqn += 1`, then the PostMeta panic. The Err branch leaves the meta alone, or (torn) writes it. |
| `PostMeta` | 93-101 | The stores' post_meta. |
| `WaitPostMeta` | 103-107 | rollback's wait_post_meta. |
| `Crash` | none | The process is killed at any point. |
| `Recover` | 17-29 | Reopening with `Sync::new` and the meta's seqn. |

Every `?` is a disjunct that returns `Err` (`ReturnErr`).

**Refinement.** `DC == INSTANCE DurableCommit WITH committed <- meta_seqn, staged <- Staged`, where `Staged` says both stores hold `meta_seqn + 1`. The store waits map to `Stage` (or a stutter), a successful or torn meta write to `Commit`, everything else to a stutter. `DurableCommitSpec` is checked by TLC and proved by TLAPS.

### WitnessReads

Variables: the committed `trie`, the witness `paths` and `reads`, the verified multi-proof `vmp`, the loop index `i`, the reads iterator position `pos`, `taking` (skip_while is done), the set `checked` and `pc`.

| Action | Lines | What it does |
|---|---|---|
| `VerifyMulti` | 31-35 | `verify_multi_proof(..).unwrap()`; a failure is the panic. |
| `SkipRead` | 55-58 | `skip_while` passes over a read of another path. |
| `CheckRead` | 59-75 | `take_while` yields a read of path `i`; `confirm_nonexistence` or `confirm_value`, unwrapped and asserted. |
| `NextPath` | 41, 55-59 | The iterator of path `i` ends; the next path starts a fresh one. |

### TortureConfig

Variables: `features` (those the loop of line 209 has not applied), `alloc` (`"memory"` or `"disk"`), the `config` record, and `phase`. A probability is kept in hundredths, and each `gen_range` is drawn at its two ends. The fields no feature changes and no property reads are left out.

| Action | Lines | What it does |
|---|---|---|
| `New` | 119-207 | Draw the features, derive trickfs, allocate (or return ResourceExhaustion), size the hash table, fill in the defaults. |
| `ApplySwarmFeature` | 209-211, 232-265 | One iteration of the loop: `apply_swarm_feature` with fresh draws. |
| `Finish` | 213 | `Ok(config)`. |
| `EnableEnsureSnapshot` | 224-226 | Set `ensure_snapshot`. |

## 3. Runs

All runs are in `PROJECT.json`.

| Run | Configuration | Checks | What it shows |
|---|---|---|---|
| `path_proof_adversary` | 2-bit keys, 2 values, tries of at most 2 leaves, every key, every forged proof (81k states) | VerifiedAnswersTrue, HonestAccepted | Whatever proof passes `verify`, the verified path's answers to `confirm_value` and `confirm_nonexistence` are true of the trie behind the root (spec P2, P6). The honest proof always passes and covers the key (P1). |
| `verify_update_w2` | 2-bit keys, 2 values, tries of at most 2 leaves, batches touching 1-2 keys (50k states) | TypeOK, NoPanic, FrontierInv, RootCorrect, CheckSound, FrontierAtFinish, PendingIsLeftSibling | Every honest batch is accepted, never panics, and returns the root of the updated trie (spec P3). Every caller mistake is rejected with an error: a mismatched root, a duplicated path, a path without ops, swapped paths, swapped ops, or an op out of scope. |
| `verify_update_w3` | module `MCVerifyUpdateHonest`; 3-bit keys, 1 value, same bounds, honest batches only (48k states) | FrontierInv, RootCorrect, FrontierAtFinish, PendingIsLeftSibling | Deeper tries, where a climb spans several layers and compaction cascades. The caller mistakes are left to the 2-bit run: at 3 bits they would more than double the cost of building the initial states. |
| `sync_protocol` | 4 syncs, all three panic modes, every step may fail, kills anywhere, atomic meta writes (2.6k states) | CommitCovered, SeqnAgree, SeqnIdentifiesData, SeqnStepProp | The meta only commits data that is on disk. The in-memory seqn tracks the meta's. A store holding the meta's seqn holds the data of that very call. The committed seqn advances by exactly one. |
| `sync_torn_meta` | as above, with torn meta writes (3.9k states) | CommitCovered, SeqnStepProp, DurableCommitSpec | A torn meta write still commits only durable data, one seqn at a time, and the sync implements `DurableCommit`. A torn write is an extra choice of the Err branch, so this run's behaviours include every behaviour of `sync_protocol`, and the refinement is checked here only. |
| `sync_torn_reuse` | 2 syncs, no panics, torn meta writes | SeqnIdentifiesData (expected to be violated) | After a torn write the next sync reuses the seqn for other data; see Findings. |
| `witness_reads` | module `MCWitnessReads`; 2-bit keys, 2 values, tries of at most 2 leaves, 1-4 read keys (3.1k states) | ReadsAllChecked, ReadsVerified | The example's read loop checks every read of an honest witness, and no unwrap or assert of it panics. |
| `witness_example` | 1-bit keys, every trie, every single write | ExampleAssert (expected to be violated) | The example's final assert fails; see Findings. |
| `torture_config` | 6 features (both trickfs ones, Read, Rollback, a flag, a probability), 2 sizes (79k states) | TrickfsConsistent | Whatever features are drawn and in whatever order applied, a workload runs in memory exactly when it is flagged trickfs, and a non-trickfs workload injects no faults. |
| `torture_new_keys` | one feature | NewKeyDistributionAsDocumented (expected to be violated) | The key-sharing distribution differs from its comment; see Findings. |

Why these bounds are enough:
- **W=2.** This already has paths at depths 0, 1 and 2, sibling replacement, and both compaction cases. The input generator is slow in the key width, so the W=3 run uses one value instead.
- **Sync.** Four syncs are enough for an error or crash followed by two more commits. That is the shortest sequence that exposes a skipped or reused seqn. Two syncs suffice for the torn-write reuse.
- **Path proofs.** With 2-bit keys every proof an adversary can build from the trie's nodes is enumerated, including proofs one sibling too long.
- **Torture.** The property concerns the trickfs features; Rollback and Read draw ranges and stand for the features that set other fields; the other features differ only in which field they set, so two of them stand for the rest. Drawing each range at both ends keeps the boundary values (0.01, 2).

Every property has a mutant: a plausible bug in the mapped definition, which TLC must catch under the run's own configuration. Examples:
- a non-strict path comparison;
- a dropped scope check;
- a pending node compared one layer off;
- no leaf floating when the leaf is on the right;
- climbing to the divergence layer instead of one below it;
- the terminal leaf kept when an op rewrites it;
- a dropped error from `wait_pre_meta`;
- `sync_seqn += 1` moved before `Meta::write`;
- a sync that reuses the last seqn;
- `hash_path` walking the path from the front;
- a read iterator shared by all paths;
- trickfs derived from the ENOSPC feature only.

**Fairness.** No liveness property is checked. A call of `verify_update` has no unbounded loop: every step consumes a path, an op or a layer. So "every call returns" says nothing beyond `NoPanic`: a call stops short of `done` only in a panic state. Sync is driven by its caller, which may stop calling it, so no fairness is assumed there either.

**Deadlock.** It is not checked for `verify_update`, `MCPathProof`, `WitnessReads` or `TortureConfig`, because a finished call is a final state. Sync never deadlocks, since a kill is always possible.

## 4. Findings

`examples/witness_verification/src/main.rs:102` calls `verify_update(prev_root, &[])`: the code that would collect the writes into `PathUpdate`s is commented out. By lines 271-273, that call returns `prev_root`, so the `assert_eq!` against `new_root` fails for every batch that changes the root. TLC shows this with a single write into a one-bit trie.

`nomt/src/store/sync.rs:85` leaves `sync_seqn` unchanged whenever `Meta::write` returns Err. That is correct only if an Err means the old meta is still on disk. Nothing in the code or the spec says so. If the new meta reached disk before the error, the next sync writes other data under the same seqn (`sync_torn_reuse`). The commit contract itself still holds (`sync_torn_meta`).

`torture/src/supervisor/config.rs:168`: the comment says 27% of new keys share more than 10 bytes with an existing key. The weights of line 172 give 25.4%. 27.7% is the share of 10 or more.

## 5. Proofs (TLAPS)

### VerifyUpdateProofs

- `TypeCorrect`: `Spec => []TypeOK`.
- `CheckSoundness`: `Spec => []CheckSound`. verify_update returns Ok only for a batch that meets all of its documented preconditions.

Both follow from `IInvInvariant`: `Spec => []IInv`, where `IInv = TypeOK /\ InputsOK /\ ControlInv /\ CheckInv`.
- `InputsOK` types the arguments.
- `ControlInv` keeps the indices in range and ties the climb's counters together: `cur_layer = Len(path) - step`, `step <= ClimbLength`, and `end_layer = Len(path) - up_layers`. Without these, `cur_layer - 1` could leave its type.
- `CheckInv` records what validation has established at each point: paths before `i` passed, ops before `j` passed, and the whole batch is `WellFormed` from the stitching phase onwards.

IInv was checked with TLC on the W=2 instance before it was proved. The proof has one lemma per action, and lemmas for the operators:
- `SharedBitsType`, via `FS_Subset` and `FS_Interval`;
- `CompactType`;
- `PathCheckValue` and `OpCheckValue`;
- `WellFormedPathDone`;
- `SplicedLeaves`: the spliced leaves have distinct keys and lie under the path;
- `SubTrieType`;
- `PopType`.

The proofs rest on these assumptions, which TLC evaluates for every run:
- `KeyBitsAssumption`, `ValsAssumption` and `BatchesAssumption`: the types of the constants.
- `BuildTrieType`: the recursive builder returns a digest for leaves with distinct keys under one prefix. This is a fact about a recursive definition, which is induction over data and out of tlapm's reach.

### VerifyUpdatePanicProofs

- `NoPanicInvariant`: `Spec => []NoPanic`, for every key width and every set of batches meeting the assumptions. Neither the usize subtraction of line 316 nor the unwrap of line 375 panics.

It follows from `PInvInvariant`, with `PInv = IInv /\ PrefixFree /\ FrontierNonEmpty /\ NoPanic`.
- `PrefixFree` is `VerifiedPrefixFree` for the call's own arguments.
- `NoUnderflow` is the argument for line 316. Validation makes the paths strictly ascending on one root (`WellFormed`). If `shared_bits` of a path and the next reached the path's length, the path would be a prefix of the next (`SharedBitsPrefix`). The two paths differ (`LexLessIrreflexive`), so `PrefixFree` rules that out, and `up_layers >= 0`.
- `FrontierNonEmpty`: every path pushes a node at line 370, so the frontier is non-empty when the loop ends.

PInv was checked with TLC on the W=2 instance before it was proved.

### VerifyUpdateFrontierProofs

- `FrontierAtFinishInvariant`: `Spec => []FrontierAtFinish`.
- `PendingIsLeftSiblingProp`: `Spec => PendingIsLeftSibling`, the action property.

Both follow from `FInvInvariant`, with `FInv = PInv /\ Frontier`. `Frontier` describes the pending stack:
- `FrontierOrdered`: the pending layers strictly increase.
- `FrontierLeft`: while a path is processed, every pending layer is a layer of the current path where that path has bit 1.
- `FrontierBelow`: during the climb, every pending layer is at or above `cur_layer`.
- `FrontierEmptyBefore`: the stack is empty before stitching starts.
- `FrontierAtFinish` itself.

The argument: path `i` ends at layer `sb+1`, where `sb` is the bits it shares with path `i+1`. By `Divergence`, path `i` has bit 0 there and path `i+1` has bit 1. So the node pushed at line 370 is a left sibling of the next path, and no older entry sits at its layer. The last path climbs to layer 0, which empties everything below it, leaving the root alone.

The lemmas:
- `Divergence`: of two bit strings in strict order, neither a prefix of the other, the first `sb` bits agree and bit `sb+1` is 0 in the smaller and 1 in the larger.
- `SharedBitsSym` and `SharedBitsShared`.
- `SubSeqPrefix`: a prefix of a sequence keeps its elements.
- `ClimbEnd`: at the end of the climb, `cur_layer = end_layer`.

FInv was checked with TLC on both the W=2 and the W=3 instances before it was proved.

### SyncProofs

- `TypeCorrect`.
- `CommitCoveredInvariant`, for both values of `TornMetaWrite`.
- `SeqnAgreeInvariant` and `SeqnIdentifiesInvariant`, under `~TornMetaWrite`.
- `SeqnStepInvariant`, the action property `[][SeqnStep]_vars`.
- `Refinement`: `Spec => DurableCommitSpec`. Initial states map to `DC!Init`; under `IInv` every step maps to `DC!Next` or a stutter.

All follow from `IInvInvariant`, `Spec => []IInv`, with `IInv = TypeOK /\ CommitCovered /\ SeqnLag /\ StoresBound /\ PhaseInv /\ (~TornMetaWrite => SeqnAgree /\ SeqnIdentifiesData)`.
- `PhaseInv`: once the call has begun, its `seqn` is `sync_seqn + 1`, and every store past its wait holds that seqn and that call's data.
- `SeqnLag` (`sync_seqn <= meta_seqn <= sync_seqn + 1`) and `StoresBound` are needed because a torn write lets the meta run one ahead of memory.

The assumptions are `MaxSyncsAssumption`, the panic modes, and `TornMetaWriteAssumption \in BOOLEAN`.

### TortureConfigProofs

- `TrickfsConsistentInvariant`: `Spec => []TrickfsConsistent`, for every feature set and every assigned size.

It follows from `IInvInvariant`, with `IInv = TypeOK /\ TrickfsConsistent /\ PendingConsistent`.
- `PendingConsistent` is the strengthening. While the feature loop runs, a workload not flagged trickfs has no trickfs feature left to apply. Without it, the invariant alone cannot rule out a later ENOSPC feature setting a probability of a non-trickfs workload.
- The lemma `AppliedFacts` says what `apply_swarm_feature` can change. The ENOSPC fields change only for the ENOSPC feature and the latency fields only for the latency feature. The rollback fields change only together, with `max_rollback_commits` from the drawn range. The trickfs flag never changes. It is proved with one case per feature.
- The assumptions are `FeaturesAssumption` (the features are swarm features) and `AvailBytesAssumption`.

IInv was checked with TLC on the `torture_config` instance before it was proved.

### WitnessReadsProofs

- `ReadsAllCheckedInvariant`: `Spec => []ReadsAllChecked`. This holds for every witness that meets `WitnessesAssumption`, whatever its number of paths and reads.

It follows from `IInvInvariant`, with `IInv = WitnessOK /\ TypeOK /\ LoopInv /\ ReadsAllChecked`. `LoopInv` is the loop invariant of lines 41-59. While at path `i`:
- the checked reads are exactly those of the paths before `i` and those of path `i` before the iterator;
- once `take_while` has started, the read just consumed is of path `i`;
- before that, no read of path `i` has been passed.

When `take_while` stops on a read of another path, the grouping (non-decreasing `path_index`) puts every remaining read at a later path. So when `i` advances, every read of path `i` is checked. After the last path, every read is checked, because each `path_index` names a path.

The lemma `ReadsTyped` gives a sequence of reads its length and its indices as naturals. IInv was checked with TLC on the `witness_reads` instance first.

`WitnessesAssumption` is what `commit_batch` (not under `src/`) promises the example. Lines 48-51 rely on it. TLC checks it for every witness of the run. The proof module reaches no RECURSIVE operator: the sorting that builds the witnesses lives in `MCWitnessReads` only.

### What stays with TLC only

- `FrontierInv` (the node equalities), `RootCorrect` of `verify_update`, and `VerifiedAnswersTrue` and `HonestAccepted` of `MCPathProof`. They state what `BuildTrie` and `HashPath` compute. Those are recursive function definitions (`node[q] == ...`, `h[m] == ...`). Even the equation that unfolds one of them is derived through `RecursiveFcnOfNat` or `WFInductiveDef`, and both take an operator parameter `Def(_,_)` that the installed provers cannot instantiate. This is induction over data.
- `ReadsVerified`. It rests on the same builder, through `HonestProof` and `Verify`.

## 6. Not modelled

- **The rollback log's durability.** It is implemented outside `src/`; it is listed as a hazard without a property.
- **Key-order reads in the witness example.** The model checks the example with the witness an honest builder produces. What it does with reads in another order depends on `commit_batch`, which is not under `src/`.
- **The torture fields no feature changes** (iterations, worker counts, cache sizes, seed, the distribution object). They are fixed draws that nothing reads back. The hash-table size is modelled, but the sizes `ResourceAllocator` hands out are not under `src/`, so zero buckets and the u32 cast are a hazard without a property (TLC integers stop at 2^31).
- **u32 overflow of `sync_seqn`.** It needs 2^32 syncs, so it is not listed as a hazard.

## 7. Plan for further work

1. Derive `VerifiedPrefixFree` from `verify` and collision-freeness, once tlapm can reason about the recursive `HashPath` (today it is a checked assumption).
2. Add an abstract specification of `verify_update` (one step from `prev_root` to the root of the updated trie). Show the stepwise module refines it, with the refinement mapping `result` ↦ `TrieRoot(Applied)` at `done`.
3. Extend `Sync` with the rollback log's live range, to check the post-meta crash hazard.
4. Compose several torture workloads sharing one allocator, once `resource.rs` is in scope.
