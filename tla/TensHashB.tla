----------------------------- MODULE TensHashB -----------------------------
(***************************************************************************)
(* The ternary-weight TensHash of src/src/crypto/tens_pow/tens_hash.cpp   *)
(* ("Mode B"): a TensHashContext created by tens_hash_init(seed), driven  *)
(* by tens_hash_precomputed(input) any number of times, and released by   *)
(* tens_hash_free().  tens_hash_precomputed is modelled one layer per     *)
(* step, on the context's two HIDDEN-long buffers and the state /         *)
(* next_state pointers that are swapped after the expansion layer and     *)
(* after every hidden layer; the pointers stay swapped between calls.     *)
(*                                                                         *)
(* Dimensions are scaled: K bytes (TENS_IN_SIZE), HIDDEN neurons,          *)
(* LAYERS hidden layers, with 8*K <= HIDDEN as in the code.  ChaCha20     *)
(* (Bitcoin's crypto library, not part of this repository) is the        *)
(* constant operator Keystream(key, nonce, i): byte i of the stream for   *)
(* that key and 12-byte nonce.                                             *)
(***************************************************************************)
EXTENDS Integers, Sequences, SequencesExt, TensArith

CONSTANTS
  K, HIDDEN, LAYERS,
  Seed,            \* seeds, byte sequences of length K (LSB first)
  Input,           \* inputs, byte sequences of length K (LSB first)
  Keystream(_, _, _),
  CanFail,         \* whether the mallocs of alloc_context_buffers may fail
  CanExit,         \* whether layer_forward's malloc of x_mapped may fail
  Null

ASSUME /\ K \in Nat \ {0} /\ LAYERS \in Nat \ {0}
       /\ HIDDEN \in Nat /\ 8 * K <= HIDDEN
       /\ CanFail \in BOOLEAN /\ CanExit \in BOOLEAN

INPUT_BITS == 8 * K

VARIABLES
  ctx,      \* Null, or [key, buf, st, mats, nonce]: the TensHashContext;
            \* key is the swapped seed, mats[t] stage t's matrix (Null
            \* until generated), nonce[t] the nonce it was drawn under
  stage,    \* the next generate_dense_matrix call of generate_all_matrices
  nonceCounter,  \* its nonce_counter
  pc,       \* "idle" between calls; "generate" in generate_all_matrices;
            \* "begin" before a one-shot's first layer; else the next layer; "free"
            \* when a one-shot tens_hash is about to free its context;
            \* "exited" once the process has called exit(1)
  round,    \* r of the hidden-layer loop
  input,    \* the input of the call in progress or last made
  answer,   \* Null, or the last call's [input, out]: out is its output array
  ctxSeed,  \* auxiliary: the seed the context was built from
  oneshot,  \* the context is the local one of a tens_hash call
  caller    \* history: Null, or the last tens_hash(input, seed, output)
            \* call's [seed, input, returned]

vars == <<ctx, stage, nonceCounter, pc, round, input, answer, ctxSeed, oneshot, caller>>

(***************************************************************************)
(* Seed expansion.                                                         *)
(***************************************************************************)
\* to_big_endian(): the 8 bytes of a uint64, least significant first, reversed
ToBigEndian(v) == Reverse(v)

\* byte k (1 = least significant) of n; the uint64 counter n as 8 bytes
RECURSIVE ByteOf(_, _)
ByteOf(n, k) == IF k = 1 THEN n % 256 ELSE ByteOf(n \div 256, k - 1)

U64(n) == [k \in 1..8 |-> ByteOf(n, k)]

\* ChaCha20::Nonce96 = (0u, nonce_be): 4 zero bytes, then nonce_be's bytes
Nonce(ctr) == <<0, 0, 0, 0>> \o ToBigEndian(U64(ctr))

\* keystream byte -> ternary weight (bytes[i] % 4: 0,1 -> 0; 2 -> 1; 3 -> -1)
Ternary(b) == CASE b % 4 \in {0, 1} -> 0
                [] b % 4 = 2 -> 1
                [] b % 4 = 3 -> -1

\* generate_dense_matrix(rows, cols, seed, nonce_counter): row-major slicing
DenseMatrix(rows, cols, key, ctr) ==
  [j \in 1..rows |-> [i \in 1..cols |->
      Ternary(Keystream(key, Nonce(ctr), (j - 1) * cols + (i - 1)))]]

StageCount == LAYERS + 2

\* rows and cols of stage t: expansion, hidden layers, compression
StageDims(t) == CASE t = 1          -> <<HIDDEN, INPUT_BITS>>
                  [] t = StageCount -> <<INPUT_BITS, HIDDEN>>
                  [] OTHER          -> <<HIDDEN, HIDDEN>>

\* Mutant: the expansion call passes nonce_counter without the ++.
CounterAfterExpNoIncrement(t, c) == IF t = 1 THEN c ELSE c + 1

\* nonce_counter after the generate_dense_matrix call of stage t
CounterAfter(t, c) == c + 1

\* tens_hash_init swaps the seed bytes from LSB-first to MSB-first
SwappedSeedNone(s) == s

SwappedSeed(s) == Reverse(s)

(***************************************************************************)
(* layer_forward(matrix, in_dim, out_dim, input, output): reads           *)
(* input[1..in_dim], writes output[1..out_dim] and leaves the rest of the *)
(* output buffer as it was.  Sums stay below in_dim + 2 in magnitude, far *)
(* inside int32.                                                           *)
(***************************************************************************)
\* Mutant: the layer writes the -1/+1 value instead of the output bit.
LayerForwardSigned(W, inDim, outDim, in, out) ==
  LET xm == [i \in 1..inDim |-> 2 * in[i] - 1]
      sum(j) == SumRange([i \in 1..inDim |-> W[j][i] * xm[i]], 1, inDim)
                + (IF inDim = outDim THEN xm[j] ELSE 0)
  IN  [k \in 1..HIDDEN |-> IF k <= outDim THEN (IF sum(k) > 0 THEN 1 ELSE -1)
                                          ELSE out[k]]

LayerForward(W, inDim, outDim, in, out) ==
  LET xm == [i \in 1..inDim |-> 2 * in[i] - 1]
      sum(j) == SumRange([i \in 1..inDim |-> W[j][i] * xm[i]], 1, inDim)
                + (IF inDim = outDim THEN xm[j] ELSE 0)
  IN  [k \in 1..HIDDEN |-> IF k <= outDim THEN (IF sum(k) > 0 THEN 1 ELSE 0)
                                          ELSE out[k]]

\* the bits of the byte-swapped input, MSB first, over a zeroed state buffer
UnpackInput(x) ==
  LET sw == Reverse(x)
  IN  [k \in 1..HIDDEN |->
         IF k <= INPUT_BITS
         THEN (sw[(k - 1) \div 8 + 1] \div 2^(7 - ((k - 1) % 8))) % 2
         ELSE 0]

\* pack_bits(): bit i goes to byte i / 8 at position 7 - i % 8
PackBits(bits) ==
  [b \in 1..K |-> SumRange([j \in 1..8 |-> bits[(b - 1) * 8 + j] * 2^(8 - j)], 1, 8)]

\* the final output swap, LSB-first again
SwapOutput(o) == Reverse(o)

(***************************************************************************)
(* Actions.                                                                *)
(***************************************************************************)
Init ==
  /\ ctx = Null
  /\ stage = 1
  /\ nonceCounter = 0
  /\ pc = "idle"
  /\ round = 0
  /\ input = Null
  /\ answer = Null
  /\ ctxSeed = Null
  /\ oneshot = FALSE
  /\ caller = Null

\* a context after alloc_context_buffers (calloc'd state buffers, the
\* matrices not yet written) and the seed swap
NewCtx(s) == [key |-> SwappedSeed(s), buf |-> [b \in 0..1 |-> [k \in 1..HIDDEN |-> 0]], st |-> 0,
              mats |-> [t \in 1..StageCount |-> Null], nonce |-> [t \in 1..StageCount |-> Null]]

\* tens_hash_init(seed): any of the five buffers may be null, and then
\* tens_hash_free releases the others and the call returns nullptr; else
\* generate_all_matrices starts with nonce_counter = 0.
TensHashInit(s) ==
  /\ ctx = Null /\ pc = "idle"
  /\ \/ /\ ctx' = NewCtx(s) /\ ctxSeed' = s
        /\ pc' = "generate" /\ stage' = 1 /\ nonceCounter' = 0
     \/ /\ CanFail
        /\ UNCHANGED <<ctx, ctxSeed, pc, stage, nonceCounter>>
  /\ UNCHANGED <<round, input, answer, oneshot, caller>>

\* generate_dense_matrix(rows, cols, seed, nonce_counter++, matrix) of the
\* next stage; after the compression tens_hash_init returns the context
GenerateStage ==
  /\ pc = "generate"
  /\ ctx' = [ctx EXCEPT !.mats[stage] = DenseMatrix(StageDims(stage)[1], StageDims(stage)[2],
                                                    ctx.key, nonceCounter),
                        !.nonce[stage] = Nonce(nonceCounter)]
  /\ nonceCounter' = CounterAfter(stage, nonceCounter)
  /\ stage' = stage + 1
  /\ pc' = CASE stage < StageCount -> "generate"
             [] oneshot            -> "begin"
             [] OTHER              -> "idle"
  /\ UNCHANGED <<round, input, answer, ctxSeed, oneshot, caller>>

\* tens_hash_free(ctx)
TensHashFree ==
  /\ ctx # Null /\ pc = "idle"
  /\ ctx' = Null /\ ctxSeed' = Null
  /\ UNCHANGED <<stage, nonceCounter, pc, round, input, answer, oneshot, caller>>

\* tens_hash_precomputed, lines up to the expansion: swap, memset, unpack
Begin(x) ==
  /\ ctx' = [ctx EXCEPT !.buf[ctx.st] = UnpackInput(x)]
  /\ pc' = "expand"
  /\ input' = x
  /\ UNCHANGED <<stage, nonceCounter, round, answer, ctxSeed, oneshot>>

BeginHash(x) == ctx # Null /\ pc = "idle" /\ Begin(x) /\ caller' = Null

\* the one-shot tens_hash calls tens_hash_precomputed on its new context
OneShotBegin == pc = "begin" /\ Begin(input) /\ UNCHANGED caller

\* Mutant: the state/next_state pointers are not swapped after a layer.
StepNoSwap(W, inDim, outDim) ==
  ctx' = [ctx EXCEPT !.buf[1 - ctx.st] = LayerForward(W, inDim, outDim, ctx.buf[ctx.st], @)]

\* layer_forward(in -> out) on the current buffers, then swap the pointers
Step(W, inDim, outDim) ==
  ctx' = [ctx EXCEPT !.buf[1 - ctx.st] = LayerForward(W, inDim, outDim, ctx.buf[ctx.st], @),
                     !.st = 1 - ctx.st]

ExpansionLayer ==
  /\ pc = "expand"
  /\ Step(ctx.mats[1], INPUT_BITS, HIDDEN)
  /\ pc' = "hidden"
  /\ round' = 0
  /\ UNCHANGED <<stage, nonceCounter, input, answer, ctxSeed, oneshot, caller>>

HiddenLayer ==
  /\ pc = "hidden" /\ round < LAYERS
  /\ Step(ctx.mats[round + 2], HIDDEN, HIDDEN)
  /\ round' = round + 1
  /\ UNCHANGED <<stage, nonceCounter, pc, input, answer, ctxSeed, oneshot, caller>>

\* compression into next_state (no swap), copy, pack_bits, output swap
CompressionLayer ==
  /\ pc = "hidden" /\ round = LAYERS
  /\ LET next == LayerForward(ctx.mats[StageCount], HIDDEN, INPUT_BITS, ctx.buf[ctx.st], ctx.buf[1 - ctx.st])
     IN  /\ ctx' = [ctx EXCEPT !.buf[1 - ctx.st] = next]
         /\ answer' = [input |-> input,
                       out |-> SwapOutput(PackBits(SubSeq(next, 1, INPUT_BITS)))]
  /\ pc' = IF oneshot THEN "free" ELSE "idle"
  /\ UNCHANGED <<stage, nonceCounter, round, input, ctxSeed, oneshot, caller>>

\* tens_hash(input, seed, output): tens_hash_init, and if it returned a
\* context, tens_hash_precomputed on it; if it returned nullptr the call
\* returns and writes nothing.
TensHashOneShot(s, x) ==
  /\ ctx = Null /\ pc = "idle"
  /\ \/ /\ ctx' = NewCtx(s) /\ ctxSeed' = s
        /\ pc' = "generate" /\ stage' = 1 /\ nonceCounter' = 0
        /\ input' = x
        /\ oneshot' = TRUE
        /\ caller' = [seed |-> s, input |-> x, returned |-> FALSE]
     \/ /\ CanFail
        /\ caller' = [seed |-> s, input |-> x, returned |-> TRUE]
        /\ UNCHANGED <<ctx, ctxSeed, pc, stage, nonceCounter, input, oneshot>>
  /\ UNCHANGED <<round, answer>>

\* the tens_hash_free(ctx) that ends a one-shot call
OneShotFree ==
  /\ pc = "free"
  /\ ctx' = Null /\ ctxSeed' = Null
  /\ pc' = "idle" /\ oneshot' = FALSE
  /\ caller' = [caller EXCEPT !.returned = TRUE]
  /\ UNCHANGED <<stage, nonceCounter, round, input, answer>>

\* layer_forward: malloc of x_mapped fails and the process calls exit(1),
\* in any of the expansion, hidden and compression layers
LayerForwardExit ==
  /\ CanExit /\ pc \in {"expand", "hidden"}
  /\ pc' = "exited"
  /\ UNCHANGED <<stage, nonceCounter, ctx, round, input, answer, ctxSeed, oneshot, caller>>

\* the process has exited: nothing runs any more
Exited == pc = "exited" /\ UNCHANGED vars

Next ==
  \/ \E s \in Seed : TensHashInit(s)
  \/ GenerateStage
  \/ \E x \in Input : BeginHash(x)
  \/ OneShotBegin
  \/ ExpansionLayer
  \/ HiddenLayer
  \/ CompressionLayer
  \/ TensHashFree
  \/ \E s \in Seed, x \in Input : TensHashOneShot(s, x)
  \/ OneShotFree
  \/ LayerForwardExit
  \/ Exited

Spec == Init /\ [][Next]_vars

(***************************************************************************)
(* Properties.                                                             *)
(***************************************************************************)
Byte == 0..255
Bit == {0, 1}

TypeOK ==
  /\ ctx = Null \/ /\ ctx.buf \in [0..1 -> [1..HIDDEN -> Bit]]
                   /\ ctx.st \in 0..1
  /\ stage \in 1..StageCount + 1
  /\ nonceCounter \in Nat
  /\ pc \in {"idle", "generate", "begin", "expand", "hidden", "free", "exited"}
  /\ round \in 0..LAYERS
  /\ input \in Input \cup {Null}
  /\ answer \in {Null} \cup [input : Input, out : [1..K -> Byte]]
  /\ ctxSeed \in Seed \cup {Null}
  /\ oneshot \in BOOLEAN
  /\ caller \in {Null} \cup [seed : Seed, input : Input, returned : BOOLEAN]

(***************************************************************************)
(* Spec 7: a construction failure propagates to the caller as a failure   *)
(* result and never terminates the process.  layer_forward's exit(1)      *)
(* when the malloc of x_mapped fails is a termination inside the hash.    *)
(***************************************************************************)
NeverExits == pc # "exited"

(***************************************************************************)
(* Spec 11 and 4.1, SeedExpander: the stages of generate_all_matrices     *)
(* draw their keystreams under pairwise distinct nonces, so no two        *)
(* matrices of a context reuse keystream.  Each nonce is the 12-byte      *)
(* Nonce96 built from the nonce_counter the stage was passed.             *)
(***************************************************************************)
NoKeystreamReuse ==
  ctx # Null =>
    \A t1, t2 \in 1..StageCount :
      t1 # t2 /\ ctx.nonce[t1] # Null /\ ctx.nonce[t2] # Null => ctx.nonce[t1] # ctx.nonce[t2]

(***************************************************************************)
(* The context implements TensDigestB: every call of                      *)
(* tens_hash_precomputed on a context built from seed s, first or later,  *)
(* whatever the parity of the state/next_state pointers it starts with,   *)
(* writes Digest(s, input) with the weights TensSeedExpander derives from *)
(* s: the seed reversed to MSB first, stage t under its own nonce, bytes  *)
(* mod 4 read row-major.  The nonce of stage t, which the spec leaves     *)
(* open, is the one of counter t - 1.  The abstract Evaluate step is the  *)
(* compression step; the other steps are stutters.                        *)
(***************************************************************************)
StageNonceOf(t) == Nonce(t - 1)

Expander == INSTANCE TensSeedExpander WITH StageNonce <- StageNonceOf

\* the weights spec 4.1 derives from each seed of the model, once
SpecWeights == [s \in Seed |-> Expander!Weights(s)]
WeightsOf(s) == SpecWeights[s]

Ref == INSTANCE TensDigestB WITH
         Weights <- WeightsOf, NoCtx <- Null,
         ctxSeed <- ctxSeed, answer <- answer

DigestRefinement == Ref!Spec

(***************************************************************************)
(* Spec 7: a construction failure reaches the immediate caller as a       *)
(* failure result, and the caller never reads an output that was not      *)
(* written.  tens_hash(input, seed, output) is void: once it has          *)
(* returned, output must therefore hold Digest(seed, input) of that call. *)
(* When tens_hash_init returns nullptr, tens_hash returns at once and the *)
(* caller's output keeps what it held before.                             *)
(***************************************************************************)
SpecDigests == [s \in Seed, x \in Input |-> Ref!Digest(s, x)]

OneShotOutputWritten ==
  caller # Null /\ caller.returned =>
    answer # Null /\ answer.out = SpecDigests[caller.seed, caller.input]
=============================================================================
