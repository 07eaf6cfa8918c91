----------------------------- MODULE TensCache -----------------------------
(***************************************************************************)
(* The single-slot seed cache of tens_hash() in src/unnamed/part_000 (the *)
(* byte-matrix "Mode A" hash of the node), together with the heap blocks  *)
(* it owns.  One action is one whole call of tens_hash(seed, input):      *)
(* the seed comparison, the eviction of the old matrices and buffers,     *)
(* precompute_matrices() with its per-row allocations and rollback       *)
(* chains, generate_all_matrices(), init_hash_buffers(), and the          *)
(* evaluation.  Every malloc/calloc of an enabled fault site may fail.    *)
(*                                                                         *)
(* Matrix contents are abstracted to the seed they were generated from    *)
(* (or to "unfilled" when generate_all_matrices returned early); the      *)
(* digest computed from matrices filled from seed s on input x is the     *)
(* abstract value Hash(s, x).  H, R and K scale HIDDEN, ROUNDS and        *)
(* IN_SIZE: they give the number of row blocks precompute_matrices        *)
(* allocates, which is all the cache model needs of the dimensions.       *)
(***************************************************************************)
EXTENDS Integers, Sequences, SequencesExt, FiniteSets

CONSTANTS
  Seed,        \* seeds callers present (model values)
  Input,       \* inputs callers present (model values)
  ZeroSeed,    \* the value of the zero-initialised static cachedSeed
  H,           \* rows of expand_mat / row length of middle rows (HIDDEN)
  R,           \* number of middle matrices (ROUNDS)
  K,           \* rows of compress_mat (IN_SIZE)
  FaultSites,  \* subset of FaultSite: where an allocation may fail
  Null         \* the null pointer

FaultSite == {"precompute", "generate_malloc", "generate_vector", "buffers"}

ASSUME /\ ZeroSeed \in Seed
       /\ H \in Nat \ {0} /\ R \in Nat \ {0} /\ K \in Nat \ {0}
       /\ FaultSites \subseteq FaultSite

VARIABLES
  cacheInitialized, \* static bool cacheInitialized
  cachedSeed,       \* static uint8_t cachedSeed[IN_SIZE]
  cachedMatrices,   \* static PrecomputedMatrices* cachedMatrices
  cachedBuffers,    \* static HashBuffers* cachedBuffers (TRUE = non-null)
  heap,             \* heap[b]: number of live allocations of block b
  result            \* the last call: its arguments, what it wrote, faults

vars == <<cacheInitialized, cachedSeed, cachedMatrices, cachedBuffers,
          heap, result>>

(***************************************************************************)
(* Heap blocks.                                                            *)
(***************************************************************************)
MatsStruct   == <<"matrices">>
ExpPtrs      == <<"expand_mat">>
ExpRow(i)    == <<"expand_row", i>>
MidPtrs(r)   == <<"middle_mats", r>>
MidRow(r, i) == <<"middle_row", r, i>>
CmpPtrs      == <<"compress_mat">>
CmpRow(i)    == <<"compress_row", i>>
AllData      == <<"all_data">>
BufStruct    == <<"buffers">>
StateBuf     == <<"state">>
NextBuf      == <<"next_state">>
NoiseBuf     == <<"noise">>

\* The mallocs of precompute_matrices, in the order the code issues them.
MatAllocs ==
  <<MatsStruct, ExpPtrs>>
  \o [i \in 1..H |-> ExpRow(i - 1)]
  \o FlattenSeq([r \in 1..R |->
                   <<MidPtrs(r - 1)>> \o [i \in 1..H |-> MidRow(r - 1, i - 1)]])
  \o <<CmpPtrs>>
  \o [i \in 1..K |-> CmpRow(i - 1)]

MatBlocks == ToSet(MatAllocs)
BufArrays == {StateBuf, NextBuf, NoiseBuf}
BufBlocks == {BufStruct} \cup BufArrays
Block == MatBlocks \cup BufBlocks \cup {AllData}

\* Blocks of the expansion matrix, and of middle matrices 0 .. n-1.
ExpAll == {ExpPtrs} \cup {ExpRow(i) : i \in 0..H-1}
MidAll(n) == UNION {{MidPtrs(r)} \cup {MidRow(r, i) : i \in 0..H-1} : r \in 0..n-1}

(***************************************************************************)
(* The blocks precompute_matrices frees when the malloc of block b fails: *)
(* each branch is one of its early returns.  The two middle-matrix        *)
(* branches are named, as they are the deepest of the chains.             *)
(***************************************************************************)
\* Mutant: the rollback for a null middle_mats[r] frees every round.
FreeOnMidPtrsFailAllRounds(r) == ExpAll \cup MidAll(R) \cup {MatsStruct}

\* matrices->middle_mats[r] is null
FreeOnMidPtrsFail(r) == ExpAll \cup MidAll(r) \cup {MatsStruct}

\* Mutant: the rollback for a null row forgets free(middle_mats[r]).
FreeOnMidRowFailKeepPtrs(r, i) ==
  {MidRow(r, j) : j \in 0..i-1} \cup MidAll(r) \cup ExpAll \cup {MatsStruct}

\* row i of middle matrix r is null
FreeOnMidRowFail(r, i) ==
  {MidRow(r, j) : j \in 0..i-1} \cup {MidPtrs(r)} \cup MidAll(r) \cup ExpAll \cup {MatsStruct}

Rollback(b) ==
  CASE b = MatsStruct        -> {}
    [] b = ExpPtrs           -> {MatsStruct}
    [] b[1] = "expand_row"   -> {ExpRow(j) : j \in 0..b[2]-1} \cup {ExpPtrs, MatsStruct}
    [] b[1] = "middle_mats"  -> FreeOnMidPtrsFail(b[2])
    [] b[1] = "middle_row"   -> FreeOnMidRowFail(b[2], b[3])
    [] b = CmpPtrs           -> MidAll(R) \cup ExpAll \cup {MatsStruct}
    [] b[1] = "compress_row" -> {CmpRow(j) : j \in 0..b[2]-1} \cup {CmpPtrs}
                                  \cup MidAll(R) \cup ExpAll \cup {MatsStruct}

\* heap after allocating the blocks of A and freeing those of F
HeapAfter(h, A, F) ==
  [b \in Block |-> h[b] + (IF b \in A THEN 1 ELSE 0) - (IF b \in F THEN 1 ELSE 0)]

(***************************************************************************)
(* What one call of precompute_matrices(seed) can do.  "fail" is the      *)
(* index of the first malloc that fails (Len(MatAllocs)+1: none fails);   *)
(* "gen" is how generate_all_matrices ends: "ok", "malloc" (all_data      *)
(* malloc failed: it returns without filling anything) or "throw" (the    *)
(* std::vector of total_size bytes throws std::bad_alloc, which no frame  *)
(* catches).  The outcome records the pointer returned (Null or the new   *)
(* set), the blocks allocated and freed, and whether it threw.             *)
(***************************************************************************)
PrecomputeOutcomes(s) ==
  LET n == Len(MatAllocs)
      fails == IF "precompute" \in FaultSites THEN 1..n+1 ELSE {n+1}
      gens == {"ok"} \cup (IF "generate_malloc" \in FaultSites THEN {"malloc"} ELSE {})
                     \cup (IF "generate_vector" \in FaultSites THEN {"throw"} ELSE {})
  IN  {[ptr |-> Null, alloc |-> ToSet(SubSeq(MatAllocs, 1, f - 1)),
        free |-> Rollback(MatAllocs[f]), threw |-> FALSE, failed |-> TRUE] : f \in fails \ {n+1}}
      \cup
      {[ptr |-> IF g = "throw" THEN Null ELSE [seed |-> s, filled |-> g = "ok"],
        alloc |-> MatBlocks \cup {AllData},
        free |-> IF g = "throw" THEN {} ELSE {AllData},
        threw |-> g = "throw", failed |-> g # "ok"] : g \in gens}

(***************************************************************************)
(* init_hash_buffers(): the struct malloc may fail (nothing to free); the  *)
(* three arrays are all requested, and if any is null all of them and the  *)
(* struct are freed (free(NULL) is a no-op).                               *)
(***************************************************************************)
BufferOutcomes ==
  LET canFail == "buffers" \in FaultSites
  IN  {[ok |-> TRUE, alloc |-> BufBlocks, free |-> {}, failed |-> FALSE]}
      \cup
      (IF canFail
       THEN {[ok |-> FALSE, alloc |-> {}, free |-> {}, failed |-> TRUE]}
            \cup {[ok |-> FALSE, alloc |-> {BufStruct} \cup (BufArrays \ nulls),
                   free |-> {BufStruct} \cup (BufArrays \ nulls), failed |-> TRUE]
                  : nulls \in SUBSET BufArrays \ {{}}}
       ELSE {})

\* free_matrices() and free_hash_buffers() of a non-null pointer.
FreedOnEviction ==
  (IF cachedMatrices # Null THEN MatBlocks ELSE {})
  \cup (IF cachedBuffers THEN BufBlocks ELSE {})

Hash(s, x) == <<"hash", s, x>>
Garbage(x) == <<"garbage", x>>
NoOutput == <<"none">>
Thrown == <<"thrown">>

\* tens_hash_precomputed() over the cached matrices
Digest(m, x) == IF m.filled THEN Hash(m.seed, x) ELSE Garbage(x)

\* Mutant: the memcmp against cachedSeed is dropped.
SeedMatchesNoCompare(s) == cacheInitialized

SeedMatches(s) == cacheInitialized /\ cachedSeed = s

Init ==
  /\ cacheInitialized = FALSE
  /\ cachedSeed = ZeroSeed
  /\ cachedMatrices = Null
  /\ cachedBuffers = FALSE
  /\ heap = [b \in Block |-> 0]
  /\ result = Null

(***************************************************************************)
(* tens_hash(input, seed, output), the whole call.                         *)
(***************************************************************************)
\* The seed equals the cached one: reuse, or return early if a pointer is null.
TensHashHit(s, x) ==
  /\ SeedMatches(s)
  /\ result' = [seed |-> s, input |-> x, failed |-> FALSE,
                out |-> IF cachedMatrices = Null \/ ~cachedBuffers
                        THEN NoOutput ELSE Digest(cachedMatrices, x)]
  /\ UNCHANGED <<cacheInitialized, cachedSeed, cachedMatrices, cachedBuffers, heap>>

\* Cache miss: free the old pair, record the seed, then rebuild both.
TensHashMiss(s, x) ==
  /\ ~SeedMatches(s)
  /\ cachedSeed' = s
  /\ cacheInitialized' = TRUE
  /\ \E m \in PrecomputeOutcomes(s) :
       IF m.threw
       THEN /\ cachedMatrices' = Null
            /\ cachedBuffers' = FALSE
            /\ heap' = HeapAfter(HeapAfter(heap, {}, FreedOnEviction), m.alloc, m.free)
            /\ result' = [seed |-> s, input |-> x, failed |-> TRUE, out |-> Thrown]
       ELSE \E b \in BufferOutcomes :
            /\ cachedMatrices' = m.ptr
            /\ cachedBuffers' = b.ok
            /\ heap' = HeapAfter(HeapAfter(HeapAfter(heap, {}, FreedOnEviction),
                                           m.alloc, m.free), b.alloc, b.free)
            /\ result' = [seed |-> s, input |-> x, failed |-> m.failed \/ b.failed,
                          out |-> IF m.ptr = Null \/ ~b.ok
                                  THEN NoOutput ELSE Digest(m.ptr, x)]

TensHash(s, x) ==
  \/ TensHashHit(s, x)
  \/ TensHashMiss(s, x)

Next == \E s \in Seed, x \in Input : TensHash(s, x)

Spec == Init /\ [][Next]_vars

(***************************************************************************)
(* Properties.                                                             *)
(***************************************************************************)
Outcome == {Hash(s, x) : s \in Seed, x \in Input} \cup {Garbage(x) : x \in Input}
           \cup {NoOutput, Thrown}

TypeOK ==
  /\ cacheInitialized \in BOOLEAN
  /\ cachedSeed \in Seed
  /\ cachedMatrices \in {Null} \cup [seed : Seed, filled : BOOLEAN]
  /\ cachedBuffers \in BOOLEAN
  /\ heap \in [Block -> Nat]
  /\ result \in {Null} \cup [seed : Seed, input : Input, failed : BOOLEAN, out : Outcome]

\* Blocks the cache owns: the cached matrix set and buffers, if non-null.
OwnedBlocks == (IF cachedMatrices # Null THEN MatBlocks ELSE {})
               \cup (IF cachedBuffers THEN BufBlocks ELSE {})

(***************************************************************************)
(* No leak and no double free across any sequence of calls: after every   *)
(* tens_hash call (whatever malloc failed inside precompute_matrices's    *)
(* rollback chains or init_hash_buffers, and whatever was evicted), the   *)
(* live heap is exactly one copy of the blocks the static cache points at.*)
(***************************************************************************)
HeapOwned == heap = [b \in Block |-> IF b \in OwnedBlocks THEN 1 ELSE 0]

(***************************************************************************)
(* Spec 4.1: no partially built MatrixSet is ever handed out: a non-null  *)
(* cachedMatrices was filled, and from the seed now in cachedSeed.        *)
(***************************************************************************)
MatricesMatchSeed ==
  cachedMatrices # Null =>
    /\ cacheInitialized
    /\ cachedMatrices.seed = cachedSeed
    /\ cachedMatrices.filled

(***************************************************************************)
(* Spec 7: a call that writes no digest must be one in which an           *)
(* allocation failed; a failed attempt is re-driven by calling again.      *)
(* (tens_hash returns without writing output when a cached pointer is    *)
(* null.)                                                                  *)
(***************************************************************************)
NoSilentFailure ==
  result # Null /\ result.out = NoOutput => result.failed

(***************************************************************************)
(* Refinement: the cache implements the abstract slot of CacheSlot; the    *)
(* slot is the cached seed once initialised, and a call's answer is its   *)
(* digest, or AllocFailure when it wrote nothing or threw.                *)
(***************************************************************************)
AnswerOf(r) ==
  IF r = Null THEN <<"none">>
  ELSE [seed |-> r.seed, input |-> r.input,
        out |-> IF r.out \in {NoOutput, Thrown} THEN <<"failure">> ELSE r.out]

Slot == INSTANCE CacheSlot WITH
          slot <- IF cacheInitialized THEN cachedSeed ELSE Null,
          answer <- AnswerOf(result),
          EmptySlot <- Null

CacheRefinesSlot == Slot!Spec
=============================================================================
