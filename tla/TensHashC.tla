----------------------------- MODULE TensHashC -----------------------------
(***************************************************************************)
(* The data path of the C variant's one-shot tens_hash(input, seed,       *)
(* output), src/test_pow/tens_hash.c: precompute_matrices allocates each  *)
(* matrix as one data block with row pointers into it (row i of a matrix  *)
(* of cols columns at block + i * stride), generate_matrices draws one    *)
(* zero-nonce keystream and memcpy's it into the blocks at a moving pos,  *)
(* init_hash_buffers calloc's the two state arrays, and                   *)
(* tens_hash_precomputed fills the int8_t noise from the input's digest   *)
(* and runs one matrix_multiply per step, swapping state and next_state   *)
(* after every middle round; tens_hash then frees matrices and buffers.   *)
(*                                                                         *)
(* Every allocation failure of this path ends the process (exit(1)); the  *)
(* exits and the rollbacks are TensCliC's subject.  The libsodium stream  *)
(* cipher and SHA-256 are constant operators.                             *)
(***************************************************************************)
EXTENDS Integers, Sequences, TensArith

CONSTANTS
  H, R, K,            \* HIDDEN, ROUNDS, IN_SIZE
  D,                  \* crypto_hash_sha256_BYTES
  Seed, Input,        \* byte sequences of length K
  Keystream(_, _),    \* crypto_stream_chacha20 with the zero nonce: byte t (from 0)
  InputDigest(_),     \* crypto_hash_sha256 of an input: D bytes
  Null

ASSUME H \in Nat \ {0} /\ R \in Nat \ {0} /\ K \in Nat \ {0} /\ D \in Nat \ {0}

VARIABLES
  mats,     \* Null, or [exp, mid, cmp]: the data blocks [0] of the matrices
  buf,      \* the two HIDDEN-byte state arrays
  st,       \* which of them buffers->state points to
  noise,    \* buffers->noise
  pc,       \* "idle" between calls, else the next step of tens_hash
  round,
  seed, input,   \* the call in progress or last made
  answer    \* Null, or [seed, input, out]: the output of the last call

vars == <<mats, buf, st, noise, pc, round, seed, input, answer>>

TotalNoise == H + R * H + K
TotalSize == H * K + R * H * H + K * H

(***************************************************************************)
(* precompute_matrices' row layout and generate_matrices.                  *)
(***************************************************************************)
\* the strides of the row pointers: expand_mat[i] = expand_mat[0] + i * IN_SIZE,
\* middle_mats[r][i] = middle_mats[r][0] + i * HIDDEN, and likewise compress_mat
ExpStride == K
MidStride == H

\* Mutant: the compression rows are laid out with the expansion's stride.
CmpStrideOfExp == K

CmpStride == H

\* Mutant: pos is not advanced after a middle matrix.
MiddleCopiesNoAdvance(data, pos, r) ==
  [blocks |-> [i \in 1..r |-> SubSeq(data, pos + 1, pos + H * H)], pos |-> pos + r * H * H]

\* the middle_mats loop from pos: r memcpy's of HIDDEN * HIDDEN bytes
RECURSIVE MiddleCopies(_, _, _)
MiddleCopies(data, pos, r) ==
  IF r = 0 THEN [blocks |-> <<>>, pos |-> pos]
  ELSE LET rest == MiddleCopies(data, pos + H * H, r - 1)
       IN  [blocks |-> <<SubSeq(data, pos + 1, pos + H * H)>> \o rest.blocks, pos |-> rest.pos]

GenerateMatrices(s) ==
  LET data == [t \in 1..TotalSize |-> Keystream(s, t - 1)]
      m == MiddleCopies(data, H * K, R)
  IN  [exp |-> SubSeq(data, 1, H * K),
       mid |-> m.blocks,
       cmp |-> SubSeq(data, m.pos + 1, m.pos + K * H)]

(***************************************************************************)
(* matrix_multiply and the noise.                                          *)
(***************************************************************************)
\* buffers->noise[i] = digest[i % 32]: an unsigned char stored into int8_t
Int8(b) == IF b >= 128 THEN b - 256 ELSE b

FillNoise(x) == [i \in 1..TotalNoise |-> Int8(InputDigest(x)[((i - 1) % D) + 1])]

\* matrix_multiply(A, in, out, e, rows, cols), A[i] = block + i * stride:
\* ((uint8_t)sum) & 0xFF is the int32 sum modulo 2^8
MatrixMultiply(block, stride, in, e, off, rows, cols) ==
  [i \in 1..rows |->
     (SumRange([j \in 1..cols |-> block[(i - 1) * stride + j] * in[j]], 1, cols) + e[off + i]) % 256]

(***************************************************************************)
(* Actions.                                                                *)
(***************************************************************************)
Zeros == [i \in 1..H |-> 0]

Init ==
  /\ mats = Null
  /\ buf = [b \in 0..1 |-> Zeros]
  /\ st = 0
  /\ noise = [i \in 1..TotalNoise |-> 0]
  /\ pc = "idle"
  /\ round = 0
  /\ seed = Null /\ input = Null
  /\ answer = Null

\* tens_hash: precompute_matrices (generate_matrices included), then
\* init_hash_buffers (fresh calloc'd state arrays), then the noise fill at
\* the start of tens_hash_precomputed
TensHash(s, x) ==
  /\ pc = "idle"
  /\ mats' = GenerateMatrices(s)
  /\ buf' = [b \in 0..1 |-> Zeros]
  /\ st' = 0
  /\ noise' = FillNoise(x)
  /\ pc' = "expand"
  /\ seed' = s /\ input' = x
  /\ UNCHANGED <<round, answer>>

\* matrix_multiply(expand_mat, input, state, expand_noise, HIDDEN, IN_SIZE)
Expand ==
  /\ pc = "expand"
  /\ buf' = [buf EXCEPT ![st] = MatrixMultiply(mats.exp, ExpStride, input, noise, 0, H, K)]
  /\ pc' = "middle"
  /\ round' = 0
  /\ UNCHANGED <<mats, st, noise, seed, input, answer>>

\* middle round: state -> next_state with noise at middle_noise + round * HIDDEN,
\* then the pointer swap
MiddleRound ==
  /\ pc = "middle" /\ round < R
  /\ buf' = [buf EXCEPT ![1 - st] = MatrixMultiply(mats.mid[round + 1], MidStride, buf[st],
                                                   noise, H + round * H, H, H)]
  /\ st' = 1 - st
  /\ round' = round + 1
  /\ UNCHANGED <<mats, noise, pc, seed, input, answer>>

\* matrix_multiply(compress_mat, state, output, compress_noise, IN_SIZE, HIDDEN)
Compress ==
  /\ pc = "middle" /\ round = R
  /\ answer' = [seed |-> seed, input |-> input,
                out |-> MatrixMultiply(mats.cmp, CmpStride, buf[st], noise, H + R * H, K, H)]
  /\ pc' = "free"
  /\ UNCHANGED <<mats, buf, st, noise, round, seed, input>>

\* free_matrices(matrices); free_hash_buffers(buffers);
Free ==
  /\ pc = "free"
  /\ mats' = Null
  /\ pc' = "idle"
  /\ UNCHANGED <<buf, st, noise, round, seed, input, answer>>

Next ==
  \/ \E s \in Seed, x \in Input : TensHash(s, x)
  \/ Expand
  \/ MiddleRound
  \/ Compress
  \/ Free

Spec == Init /\ [][Next]_vars

(***************************************************************************)
(* Properties.                                                             *)
(***************************************************************************)


(***************************************************************************)
(* The one-shot C evaluator implements TensDigestA: every output it       *)
(* writes is Digest(seed, input), the spec's slicing of one keystream     *)
(* into expansion, middle and compression matrices, read row-major, with  *)
(* the digest tiled into noise slices at offsets 0, HIDDEN + r * HIDDEN   *)
(* and HIDDEN + ROUNDS * HIDDEN.  So the row-pointer strides, the moving  *)
(* pos of generate_matrices, the noise offsets and the ping-pong of the   *)
(* C code agree with the specification, as TensHashA shows for the        *)
(* node's C++ code.  Building the matrices is a Load of the seed, freeing *)
(* them a Load that fails.                                                 *)
(***************************************************************************)
Ref == INSTANCE TensDigestA WITH
         NoCtx <- Null,
         ctxSeed <- IF mats # Null THEN seed ELSE Null,
         answer <- IF answer = Null THEN Null ELSE [input |-> answer.input, out |-> answer.out]

DigestRefinementC == Ref!Spec
=============================================================================
