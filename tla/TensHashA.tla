----------------------------- MODULE TensHashA -----------------------------
(***************************************************************************)
(* The data path of the node's Mode A hash, src/unnamed/part_000:         *)
(* tens_hash(input, seed, output) with its static cache, and              *)
(* tens_hash_precomputed modelled one matrix_multiply per step on the     *)
(* cached HashBuffers: state / next_state (swapped after every middle     *)
(* round, and left swapped between calls) and the int8_t noise buffer.    *)
(* The matrices are those generate_all_matrices copies out of one zero-   *)
(* nonce keystream by advancing curr_pos row by row.                       *)
(*                                                                         *)
(* Allocation failures are reduced to "the build failed" here; which      *)
(* blocks each failure frees is the subject of TensCache.  ChaCha20 and   *)
(* SHA-256 are Bitcoin library code, so they are constant operators.      *)
(***************************************************************************)
EXTENDS Integers, Sequences, TensArith

CONSTANTS
  H, R, K,            \* HIDDEN, ROUNDS, IN_SIZE
  D,                  \* CSHA256::OUTPUT_SIZE
  Seed, Input,        \* byte sequences of length K
  Keystream(_, _),    \* Keystream(seed, t): byte t (from 0) of the stream
  InputDigest(_),     \* CSHA256 of an input: a sequence of D bytes
  CanFail,            \* whether a rebuild may fail
  Null

ASSUME H \in Nat \ {0} /\ R \in Nat \ {0} /\ K \in Nat \ {0} /\ D \in Nat \ {0}

VARIABLES
  cachedSeed,   \* Null while !cacheInitialized, else cachedSeed
  ok,           \* cachedMatrices and cachedBuffers both non-null
  buf,          \* the two HIDDEN-byte state arrays of cachedBuffers
  st,           \* which of them buffers->state points to
  noise,        \* buffers->noise
  pc,           \* "idle" between calls, else the next matrix_multiply
  round,
  input,        \* the input of the call in progress or last made
  answer        \* Null, or [input, out]: the output of the last full call

vars == <<cachedSeed, ok, buf, st, noise, pc, round, input, answer>>

NoiseLen == H + R * H + K

(***************************************************************************)
(* generate_all_matrices: copy rows out of the keystream at curr_pos.      *)
(***************************************************************************)
KeystreamOf(s) == [t \in 1..(H * K + R * H * H + K * H) |-> Keystream(s, t - 1)]

\* n rows of w bytes from curr_pos = pos; returns the rows and the new curr_pos
RECURSIVE CopyRows(_, _, _, _)
CopyRows(data, pos, n, w) ==
  IF n = 0 THEN [rows |-> <<>>, pos |-> pos]
  ELSE LET rest == CopyRows(data, pos + w, n - 1, w)
       IN  [rows |-> <<SubSeq(data, pos + 1, pos + w)>> \o rest.rows, pos |-> rest.pos]

\* the middle_mats loop: n rounds of HIDDEN rows of HIDDEN bytes
RECURSIVE CopyMiddle(_, _, _)
CopyMiddle(data, pos, n) ==
  IF n = 0 THEN [mats |-> <<>>, pos |-> pos]
  ELSE LET m == CopyRows(data, pos, H, H)
           rest == CopyMiddle(data, m.pos, n - 1)
       IN  [mats |-> <<m.rows>> \o rest.mats, pos |-> rest.pos]

GenerateAllMatrices(s) ==
  LET data == KeystreamOf(s)
      e == CopyRows(data, 0, H, K)
      m == CopyMiddle(data, e.pos, R)
      c == CopyRows(data, m.pos, K, H)
  IN  [exp |-> e.rows, mid |-> m.mats, cmp |-> c.rows]

\* the matrices of each seed of the model, generated once
MatricesOf == [s \in Seed |-> GenerateAllMatrices(s)]

(***************************************************************************)
(* generate_all_noise, mod256 and matrix_multiply.                         *)
(***************************************************************************)
\* a digest byte stored into an int8_t (two's complement)
Int8(b) == IF b >= 128 THEN b - 256 ELSE b

GenerateAllNoise(x) == [t \in 1..NoiseLen |-> Int8(InputDigest(x)[((t - 1) % D) + 1])]

\* Mutant: the conversion saturates instead of wrapping.
Mod256Saturate(x) == IF x < 0 THEN 0 ELSE IF x > 255 THEN 255 ELSE x

\* (uint8_t)x of an int32: reduction modulo 2^8
Mod256(x) == x % 256

\* rows x cols matrix A times in, plus noise from offset off (int32 sums:
\* at most cols * 255 * 255 + 127, far inside int32 for cols <= 1024)
MatrixMultiply(A, in, e, off, rows, cols) ==
  [i \in 1..rows |-> Mod256(SumRange([j \in 1..cols |-> A[i][j] * in[j]], 1, cols) + e[off + i])]

(***************************************************************************)
(* Actions.                                                                *)
(***************************************************************************)
Zeros == [i \in 1..H |-> 0]

Init ==
  /\ cachedSeed = Null
  /\ ok = FALSE
  /\ buf = [b \in 0..1 |-> Zeros]
  /\ st = 0
  /\ noise = [t \in 1..NoiseLen |-> 0]
  /\ pc = "idle"
  /\ round = 0
  /\ input = Null
  /\ answer = Null

\* tens_hash(x, s): on a miss the pair is rebuilt (calloc'd state arrays);
\* if both pointers are non-null the call runs generate_all_noise and
\* goes on to the expansion, else it returns.
TensHash(s, x) ==
  /\ pc = "idle"
  /\ LET miss == cachedSeed # s
     IN  /\ cachedSeed' = s
         /\ IF miss THEN /\ ok' \in IF CanFail THEN BOOLEAN ELSE {TRUE}
                         /\ buf' = [b \in 0..1 |-> Zeros]
                         /\ st' = 0
                    ELSE UNCHANGED <<ok, buf, st>>
  /\ IF ok' THEN /\ noise' = GenerateAllNoise(x)
                 /\ pc' = "expand"
                 /\ input' = x
            ELSE UNCHANGED <<noise, pc, input>>
  /\ UNCHANGED <<round, answer>>

\* matrix_multiply(expand_mat, input, state, expand_noise, HIDDEN, IN_SIZE)
Expand ==
  /\ pc = "expand"
  /\ buf' = [buf EXCEPT ![st] = MatrixMultiply(MatricesOf[cachedSeed].exp, input, noise, 0, H, K)]
  /\ pc' = "middle"
  /\ round' = 0
  /\ UNCHANGED <<cachedSeed, ok, st, noise, input, answer>>

\* Mutant: the pointers are not swapped after a middle round.
MiddleRoundNoSwap ==
  /\ pc = "middle" /\ round < R
  /\ buf' = [buf EXCEPT ![1 - st] = MatrixMultiply(MatricesOf[cachedSeed].mid[round + 1],
                                                   buf[st], noise, H + round * H, H, H)]
  /\ round' = round + 1
  /\ UNCHANGED <<cachedSeed, ok, st, noise, pc, input, answer>>

\* middle round: state -> next_state with its noise slice, then swap
MiddleRound ==
  /\ pc = "middle" /\ round < R
  /\ buf' = [buf EXCEPT ![1 - st] = MatrixMultiply(MatricesOf[cachedSeed].mid[round + 1],
                                                   buf[st], noise, H + round * H, H, H)]
  /\ st' = 1 - st
  /\ round' = round + 1
  /\ UNCHANGED <<cachedSeed, ok, noise, pc, input, answer>>

\* matrix_multiply(compress_mat, state, output, compress_noise, IN_SIZE, HIDDEN)
Compress ==
  /\ pc = "middle" /\ round = R
  /\ answer' = [input |-> input,
                out |-> MatrixMultiply(MatricesOf[cachedSeed].cmp, buf[st], noise, H + R * H, K, H)]
  /\ pc' = "idle"
  /\ UNCHANGED <<cachedSeed, ok, buf, st, noise, round, input>>

Next ==
  \/ \E s \in Seed, x \in Input : TensHash(s, x)
  \/ Expand
  \/ MiddleRound
  \/ Compress

Spec == Init /\ [][Next]_vars

(***************************************************************************)
(* Properties.                                                             *)
(***************************************************************************)


(***************************************************************************)
(* The cached evaluation implements TensDigestA: every tens_hash call that *)
(* writes output writes Digest(seed, input), the closed-form slicing of   *)
(* the keystream with unsigned noise reduced mod 256.  So the curr_pos    *)
(* walk of generate_all_matrices, the signed int8_t noise, the noise      *)
(* offsets, and the ping-pong pointers (reused from call to call) are     *)
(* all as the specification says.  TensHashA models a build that fails  *)
(* as one that returns NULL; generate_all_matrices' silent return with   *)
(* the matrices unfilled (line 32) is TensCache's subject, where          *)
(* MatricesMatchSeed shows such a set being used.                         *)
(***************************************************************************)
Ref == INSTANCE TensDigestA WITH
         NoCtx <- Null,
         ctxSeed <- IF ok THEN cachedSeed ELSE Null,
         answer <- answer

DigestRefinementA == Ref!Spec
=============================================================================
