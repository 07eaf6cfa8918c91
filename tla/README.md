# TLA+ models of TensHash

This directory holds TLA+ models of the TensHash proof-of-work code, checked with TLC.
The code lives in three places:

| Source | What it is |
|---|---|
| `src/unnamed/part_000` | The node's Mode A hash (byte matrices, mod-256, SHA-256 noise). It has row-pointer allocation and a single-slot **static cache** in `tens_hash(seed, input, output)`. |
| `src/src/crypto/tens_pow/tens_hash.cpp` | Mode B: ternary weights, a ±1 threshold cascade, and a `TensHashContext` (`tens_hash_init` / `tens_hash_precomputed` / `tens_hash_free`), plus a one-shot `tens_hash`. |
| `src/test_pow/tens_hash.c` | A C Mode A variant with contiguous allocation, a one-shot entry point, `parse_hex` and a CLI `main`. |
| `src/test_pow/Makefile` | Build rules. |

## System inventory

### Parts and how they interact

Both variants follow the same flow: seed → **SeedExpander** (ChaCha20 keystream) → **MatrixSet**. The MatrixSet and the **ScratchBuffers** are evaluated by the **CascadeEvaluator**.

- **PrecomputationCache.** In `part_000` the cache is the static state of `tens_hash`: `cacheInitialized`, `cachedSeed`, `cachedMatrices` and `cachedBuffers` (lines 263-267).
  - **Hit.** A call whose seed matches by `memcmp` reuses the slot.
  - **Miss.** Any other call frees the resident pair (277-285), records the new seed (287-288), then runs `precompute_matrices` and `init_hash_buffers`. If either pointer is then null, the call returns without output (294-298).
- **MatrixSet lifecycle.** `precompute_matrices` allocates about `2 + 2·HIDDEN + R·(1 + HIDDEN)` blocks in code order. Every failure path frees what was allocated so far, in four hand-written chains.
  - It then calls `generate_all_matrices`. That function allocates `all_data`, and then a `std::vector` that can throw. If the malloc fails, it returns silently.
- **Mode B context.** `tens_hash_init` allocates five buffers. If any is null, it frees the context and returns `nullptr`. Otherwise it reverses the seed and generates the ternary matrices, one ChaCha20 nonce per stage (counter 0 .. R+1).
  - `tens_hash_precomputed` runs these steps in order:
    1. reverse the input bytes and unpack them MSB first into `state`;
    2. the expansion layer;
    3. R hidden layers with a residual, swapping `state`/`next_state` after every layer;
    4. compression into `next_state`, then `pack_bits` and a reverse of the output.
  - The pointers are never reset, so the parity of `state`/`next_state` carries over between calls.

### Hard behaviours

- Allocation failure at each of many sites, followed by partial rollback.
- An exception escaping from the middle of a build.
- Cache state that is recorded before the build it describes.
- Sequences of calls over alternating seeds.
- Buffer parity that persists across calls.
- Byte and bit order conventions.
- Threshold ties.
- Failures that a `void` interface cannot report (Mode B's one-shot `tens_hash`).
- `exit(1)` on allocation failure inside the library (`layer_forward`, and `generate_matrices` of the C variant).
- Unsynchronised shared static state.

The code has no threads, callbacks or I/O of its own. Its concurrency hazard exists only if callers run in parallel.

### Properties per part

| Part | Properties |
|---|---|
| Cache | No leak and no double free. The cached pointers match the cached seed. Any call that returns no digest must have failed. Refinement of the single-slot cache. |
| MatrixSet | Every rollback frees exactly what it allocated. |
| Mode A evaluator | Refinement of the closed-form digest (keystream offsets, unsigned noise, mod 256), across repeated calls on the cached buffers. |
| Mode B | Refinement of the reference cascade with the spec's derivation of the weights, across repeated calls and one-shot calls. The stages never reuse a nonce. Type: buffers hold bits. The process never exits inside the hash. A returned one-shot call has written its output. |
| C one-shot evaluator | Refinement of the closed-form Mode A digest: row strides, the `pos` walk and the noise offsets. |
| C CLI | Exit code and stdout against a reference hex decoder. Every path out of `tens_hash` frees what it allocated. No double free. |
| Concurrent cache callers | With a mutex: memory safety, correct outputs, no leak. Without: a wrong digest. |

## Modules

| Module | Models | State ↔ code |
|---|---|---|
| `CacheSlot` | The abstract cache of spec §4.4. | `slot` is Empty or Populated(s). `answer` is the last call's (seed, input, digest or failure). |
| `TensCache` | `part_000`'s `tens_hash`, with `precompute_matrices`, `generate_all_matrices`, `init_hash_buffers`, `free_matrices` and `free_hash_buffers` as heap effects. | `cacheInitialized`, `cachedSeed`, `cachedMatrices` (Null or [seed, filled]) and `cachedBuffers` are the statics. `heap[b]` counts live allocations of block b. `result` is the last call's outcome. |
| `TensCacheMT` | Concurrent callers of `part_000`'s `tens_hash`, split at every access to the statics, with an optional external mutex (the one spec §4.4 and §5 ask callers to hold). | The statics; `heap` and `builtFor` for matrix-set and buffer objects named by the call that allocated them; `users[b]`, the callers evaluating on buffers `b`; per caller `pc`, `tmp` (the result of `precompute_matrices` before it is stored), `argM`/`argB` (the pointers passed to `tens_hash_precomputed`), `out`. |
| `TensDigestB` | The abstract Mode B evaluator. | A reference cascade over integers (little-endian input/output, MSB-first bits), with the context's seed and the last answer. |
| `TensSeedExpander` | Spec §4.1/§4.3's derivation of the ternary weights. | None (operators): the MSB-first key, one keystream per stage under `StageNonce(t)`, row-major, byte mod 4 → 0, 0, +1, −1. |
| `TensHashB` | `tens_hash.cpp`, one action per `generate_dense_matrix` call and per layer. | `ctx` is [key, buf[0..1], st, mats, nonce]: `key` the swapped seed, `mats[t]` and `nonce[t]` stage t's matrix and nonce. `stage` and `nonceCounter` are `generate_all_matrices`' loop. `st` says which buffer is `state`. `pc` and `round` are the position in `tens_hash_init` / `tens_hash_precomputed`. The history variable `caller` records the last one-shot call's seed and input, and whether it has returned. |
| `TensDigestA` | The abstract Mode A evaluator. | Closed-form keystream offsets, unsigned tiled noise, `(A·in + e) mod 256`. |
| `TensHashA` | `part_000`'s data path: `tens_hash` with its statics, and `tens_hash_precomputed` one `matrix_multiply` per step. Also `generate_all_matrices`' `curr_pos` walk, `generate_all_noise`'s `int8_t` store and `mod256`. | `cachedSeed`; `ok` (both cached pointers non-null); `buf[0..1]` and `st` (the cached `state`/`next_state`); `noise`; `pc` and `round`. |
| `TensHashC` | `tens_hash.c`'s one-shot data path: `precompute_matrices`' row pointers, `generate_matrices`, `init_hash_buffers`, `tens_hash_precomputed` one `matrix_multiply` per step, the frees. | `mats` holds the data block `[0]` of each matrix (rows read at `block + i·stride`); `buf[0..1]`, `st`, `noise`; `pc`, `round`; the call's `seed`, `input` and `answer`. |
| `TensCliC` | `tens_hash.c` built with `HASH_MAIN`: `main`, `parse_hex`, `hexchar_to_int`, and the one-shot `tens_hash` with the contiguous `precompute_matrices`, `init_hash_buffers` and the frees. | `pc` is the statement group of `main` or `tens_hash`. `heap` holds the blocks, `printed` is stdout, and `exitCode`/`exitAt` say how the process ended. |
| `TensArith` | A helper. | `SumRange`, a recursive sum. |
| `MCTensCache`, `MCTensCacheMT`, `MCTensHashA`, `MCTensHashB`, `MCTensHashC`, `MCTensCliC` | The model-checking instances. | |

### TensCache actions

Each call is one atomic action, because the code is sequential.

- **`TensHashHit(s, x)`** is the `seedMatches` path.
- **`TensHashMiss(s, x)`** is the eviction plus rebuild. It takes one nondeterministic outcome from each of two sets:
  - **`PrecomputeOutcomes`**: success; failure at the f-th malloc of the code's order (`MatAllocs`), with the exact blocks `Rollback` frees; `generate_all_matrices`'s silent malloc failure; or its `bad_alloc` throw.
  - **`BufferOutcomes`**: success; a failed struct allocation; or any nonempty set of failed arrays.

  Which outcomes are possible is controlled by the constant `FaultSites`.

`Rollback` has one branch per early return, which is what ties the model's frees to the code's free calls. Blocks are abstract names such as `MidRow(r, i)`, and their sizes are irrelevant.

### TensCacheMT actions

One action per shared access of `tens_hash`, in code order:
- `Call` (the caller sets out) and `Enter` (taking the mutex when `Locked`, waiting while another caller holds it), then `Check` (the `seedMatches` test);
- `FreeM`, `ClearM`, `FreeB` and `ClearB`: each `free` and each `= nullptr` is its own step;
- `SetSeed`; `Precompute` (the build) and `StoreM` (the assignment); `InitBuffers`;
- `NullCheck`, then `StartCompute`, which reads the two pointers again as arguments;
- `FinishCompute`, the end of `tens_hash_precomputed` (with `Release`).

An evaluation whose buffers another evaluation used meanwhile, or whose objects were freed under it, is undefined behaviour. Its output is then any value, the garbage or any seed's digest. `Finished` is the stutter once every caller has made its `Calls` calls, the model's bound.

### TensHashB actions

- `TensHashInit(s)` covers `alloc_context_buffers` and `tens_hash_init` up to the generation. Its outcome is success or nullptr.
- `GenerateStage` is one `generate_dense_matrix(rows, cols, seed, nonce_counter++, …)` call of `generate_all_matrices`: it writes stage `stage`'s matrix and records its nonce. `CounterAfter` is the `++`.
- `BeginHash(x)` covers the swap, memset and unpack; `OneShotBegin` is the same for the one-shot call's input.
- `ExpansionLayer`, `HiddenLayer` and `CompressionLayer` are the three loops.
- `TensHashFree` frees the context.
- `TensHashOneShot(s, x)` is the one-shot `tens_hash`: `tens_hash_init`, or a silent return when it fails. The same generation and layer steps follow, then `OneShotFree`.
- `LayerForwardExit` is `layer_forward`'s `exit(1)`, in any layer. After it only the stutter `Exited` is enabled: the process has ended.

### TensHashA actions

- `TensHash(s, x)` is the call up to the expansion: the seed check, the rebuild on a miss (a fresh calloc'd buffer pair), the null-pointer return, and `generate_all_noise`.
- `Expand`, `MiddleRound` (with the pointer swap) and `Compress` are the `matrix_multiply` calls.

### TensHashC actions

- `TensHash(s, x)` is `tens_hash` up to the expansion: `precompute_matrices` with `generate_matrices` (`GenerateMatrices`: one zero-nonce keystream copied into the blocks at `pos`), `init_hash_buffers`, and the noise fill.
- `Expand`, `MiddleRound` (with the swap) and `Compress` are the `matrix_multiply` calls. They read row i of a matrix at `block + i·stride`, with the strides `ExpStride`, `MidStride` and `CmpStride` that `precompute_matrices` sets.
- `Free` is `free_matrices` and `free_hash_buffers`.

Every allocation failure of this path is an `exit(1)`, and `TensCliC` models those.

### TensCliC actions

- One action per statement group of `main`: `MainStart` (sodium and argc), `MainSeed`, `MainInput`, `WriteOutput`.
- One per step of the one-shot `tens_hash`: `Precompute` (the failing malloc's index and its `Rollback`, or `generate_matrices`' exit), `InitBuffers`, `Hash` (evaluate and free both).
- `Done` is the ended process.

ChaCha20 is Bitcoin's (Mode B) or libsodium's (C) library, not this repository, so it is a constant operator `Keystream`. The MC modules give it a fixed mixing function of key, nonce and index. The references derive the matrices from that keystream themselves, as the spec states: `TensDigestA` by closed-form offsets, and `TensSeedExpander` for Mode B. Mode B's mixing multiplies key bytes and nonce by position terms. A swapped key or a repeated nonce therefore changes the residues mod 4, which a purely additive key term would not. The stand-ins only need that, not cryptographic strength.

## Runs

| Run | Config | Expect | Shows |
|---|---|---|---|
| `cache` | `MCTensCache.cfg` | pass | `TypeOK`, `HeapOwned` (the heap holds exactly the cached pair and nothing else, after any sequence of calls with any precompute or buffer malloc failing) and `CacheRefinesSlot`. The abstract slot may answer any call with an allocation failure, so this refinement does not see the sticky failure; `cache_sticky_failure` does. |
| `cache_sticky_failure` | `MCTensCache_sticky.cfg` | violation | `NoSilentFailure`: a failed build leaves the slot claiming the seed, and later calls with that seed return no digest without failing. |
| `cache_unfilled_matrices` | `MCTensCache_unfilled.cfg` | violation | `MatricesMatchSeed`: when `all_data`'s malloc fails, the never-filled matrices are cached as the seed's. |
| `cache_bad_alloc_leak` | `MCTensCache_leak.cfg` | violation | `HeapOwned`: `std::bad_alloc` from the keystream vector leaks the whole matrix set. |
| `cache_mt_locked` | `MCTensCacheMT.cfg` | pass | Two callers, two seeds, failing builds, and an external mutex around the whole of `tens_hash`. `TypeOK` (no double free), `MemorySafe` (no evaluation on a null or freed object), `CorrectOutput` (every output is the digest of its own call's seed and input) and `NoLeak` (when no call is running, only the cached pair is allocated). The mutex serialises the calls, so these properties say what the locked protocol keeps safe; the interleavings of the statics themselves are `cache_mt_race`'s subject. |
| `cache_mt_race` | `MCTensCacheMT_race.cfg` | violation | `CorrectOutput`, without the mutex, with one seed: both callers miss on the cold cache, the second frees the first's new matrices while it evaluates, and a wrong digest is written. |
| `mode_b` | `MCTensHashB.cfg` | pass | `TypeOK`, `NoKeystreamReuse` (the stages of a context were drawn under pairwise distinct nonces) and `DigestRefinement`: every call writes `Digest(seed, input)` of the reference, with the weights `TensSeedExpander` derives from the seed. That holds on a fresh or a reused context, with either buffer parity, and for one-shot calls. So the seed swap, the ternary mapping and the row-major slicing are also as the spec states. |
| `mode_b_silent_fail` | `MCTensHashB_silent.cfg` | violation | `OneShotOutputWritten`: once a one-shot `tens_hash(input, seed, output)` has returned, `output` holds that call's digest. When `tens_hash_init` fails, the call returns with `output` unwritten and no failure signal, where spec §7 asks for a failure result. With `CanFail = FALSE` the property holds. |
| `mode_b_exit` | `MCTensHashB_exit.cfg` | violation | `NeverExits`: a failed malloc of `x_mapped` in `layer_forward` ends the process during a hash. Spec §7 asks for a failure result instead. |
| `mode_a` | `MCTensHashA.cfg` | pass | `DigestRefinementA`: every cached call whose build returned its matrices writes the closed-form digest. A build that fails is one that returns NULL here. The unfilled set of line 32 is `cache_unfilled_matrices`' subject. So the `curr_pos` strides are right, negative noise reduced by the `(uint8_t)` cast gives the unsigned result, and the pointers reused across calls are right. |
| `mode_c` | `MCTensHashC.cfg` | pass | `DigestRefinementC`: every output of the C one-shot `tens_hash` is the closed-form digest of `TensDigestA`. So the row-pointer strides, the `pos` walk of `generate_matrices` and the noise offsets are right. |
| `cli_c` | `MCTensCliC.cfg` | pass | `TypeOK` (heap counts stay in {0,1}: no double free). `CliContract`: exit 0 exactly for two valid 2K-digit arguments and no library failure; stdout is then the lower-case digest, which the reference decoder maps back to `Digest` of the reference-decoded arguments; otherwise stdout is empty. `HeapReleased`: every path out of the one-shot `tens_hash` has freed everything, except `generate_matrices`' `exit(1)`. |

### Why the bounds are enough

**Cache runs.** `H = R = K = 2` gives two rows per matrix and two middle rounds. That exercises every rollback chain:
- the first round and a later round;
- the first row and a later row;
- the expansion, middle and compression stages.

Failures of the buffer arrays are enumerated as subsets. Four seeds and four inputs allow every hit/miss alternation, including re-requesting an evicted seed. The state space is finite without a call counter, because `result` only records the last call.

**Mode B runs.** The dimensions are scaled: K = 2 bytes (16 bits), HIDDEN = 32, LAYERS = 2. The layers are 16 → 32 → 32 → 32 → 16, as 256 → 1024 → … → 256 in the code. The scaling keeps every structural feature:
- the expansion is non-square, so it has no residual;
- the hidden layers are square, so they have a residual;
- compression writes only the first 16 of the 32 entries of `next_state`, and the rest keeps an earlier layer's bits;
- there are multiple bytes to reverse.

There are two seeds and five inputs, chosen to include single-bit inputs in each byte. The run reaches both buffer parities at call start, because each call makes 1 + LAYERS swaps, an odd number as in the code (65).

**Concurrency runs.** Two callers are enough for every pairwise interleaving of the accesses. Two calls each allow a caller to find the cache built by the other. Two seeds (locked run) give evictions, and one seed (race run) shows that even same-seed callers race. The locked run has 21k states. Three callers (2.5M states, close to five minutes) add no new order of accesses. Under the mutex the calls are serialised, and without it two callers already break `CorrectOutput`.

The generation runs one step per stage (4 stages). Two contexts per seed over a run reach it both from `tens_hash_init` and from the one-shot call.

**Mode A and C runs.** HIDDEN = 4, ROUNDS = 3, IN_SIZE = 2 and a 3-byte digest. ROUNDS is odd on purpose. With an even ROUNDS (64 in the code), `state` is back at the first buffer when the compression runs. A compression that read a fixed buffer instead of `state` would then still give the right digest. In the node's cached buffers, the parity would also never carry over from one call to the next. With ROUNDS = 3 the parity alternates per call, and reading `buf[0]` in the compression breaks both refinements. The mixing keystream and digest give bytes on both sides of 128, and 128 itself, so negative noise occurs.

In the code the digest length 32 divides HIDDEN = 1024. Every noise slice then starts at a multiple of 32 and holds the same bytes, so a wrong noise offset would not change any digest at the real sizes. The runs use a digest length that does not divide HIDDEN, so the slices differ and the offsets are checked as the spec states them. A middle round reading its noise at a fixed offset breaks `DigestRefinementA` and `DigestRefinementC`.

**CLI run.** IN_SIZE = 1 (two hex digits) and ROUNDS = 2. argv[1] ranges over all 1885 strings of length 0 to 3 over the characters '/', '0', '9', ':', '@', 'A', 'F', 'G', '`', 'a', 'f', 'g'. Those are each range's ends and the characters beside them, so every length check and every range bound of `hexchar_to_int` is met. argv[2] ranges over five strings. Each of the nine mallocs of `precompute_matrices` may fail, and so may every set of buffer arrays. With one byte per argument, the byte order of a multi-byte decode is not reached, nor is a `parse_hex` that fails after writing earlier bytes. Two bytes would need arguments of up to five characters, about 250k strings each, before the failure combinations.

### Fairness

None. The code has no waits, loops on shared state or threads of its own. Every operation is a call made by the environment (the miner or the node), and each call is a finite sequence of steps. The mutex of `TensCacheMT` is the caller's, not the code's, so a liveness property about it would only restate that model. The specifications are safety-only.

### Mutants

Each property of a passing run is shown to be sensitive to a plausible bug in the mapped code (see `PROJECT.json`):

| Mutant | Property it breaks |
|---|---|
| A rollback that frees the pointer arrays of every round | `TypeOK` (invalid free) |
| A row-failure rollback that leaks the current round's pointer array | `HeapOwned` |
| A seed match without the `memcmp` | `CacheRefinesSlot` |
| A layer writing −1/+1 instead of bits | Mode B `TypeOK` |
| A missing pointer swap | `DigestRefinement` (a seed passed without the byte swap also breaks it) |
| The expansion's `nonce_counter++` dropped (line 78) | `NoKeystreamReuse` |
| The compression rows laid out with the expansion's stride | `DigestRefinementC` |
| A missing swap after a middle round | `DigestRefinementA` |
| Rollback loops over earlier rounds running to `j <= r` | C `TypeOK` (free of an unallocated block) |
| A caller taking the mutex without waiting | `TensCacheMT` `TypeOK` (double free) |
| The null test left out | `MemorySafe` |
| The mutex released after the cache update, before the evaluation | `CorrectOutput` |
| An eviction not freeing the old buffers | `NoLeak` |
| `hexchar_to_int` stopping before 'f' | `CliContract` |
| The `middle_mats[r][0]` failure not freeing `middle_mats[r]` | `HeapReleased` |

## Not modelled (yet), and why

- **A torn `memcmp`/`memcpy` of `cachedSeed` under concurrent callers.** Each is taken as one atomic read or write. The races the model does show are enough to make the unsynchronised cache wrong.
- **SHA-256 and ChaCha20 themselves.** They are Bitcoin's and libsodium's code, and are constant operators here.
- **The evaluation inside `TensCliC`.** There it is the constant operator `Digest`. `TensHashC` checks the C evaluator itself.
- **The heap of a Mode B context.** `alloc_context_buffers` makes all five mallocs before it tests any. `tens_hash_free` frees each pointer (a null one is a no-op) after the `memset` to zero. So each path allocates everything or frees everything, and `TensHashB` leaves the heap out. The exception is a `std::bad_alloc` from `generate_dense_matrix`'s keystream vector, which escapes `tens_hash_init` and leaks the context. That is the escape `cache_bad_alloc_leak` shows for `part_000`'s vector, and it is listed as a hazard without a property. `x_mapped` lives inside one `layer_forward` call.
- **The Makefile, and the `printf`/`print_matrix` debug output.** These have no run-time state that affects results.
- **What is left of the sources.** The map covers every function of the three sources that changes state or computes a result. The unmapped lines are includes, macros, struct and prototype declarations, comments, `print_matrix`, the `printf` tracing, and `layer_forward`'s free of its own `x_mapped`. More TLA+ would restate the same code, not model more of it.
- **Spec §4.4 `Clear`.** No code implements it, so `CacheSlot` has no Clear either.
