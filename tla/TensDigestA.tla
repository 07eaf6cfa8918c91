---------------------------- MODULE TensDigestA ----------------------------
(***************************************************************************)
(* What the wrapping affine cascade ("Mode A", spec 4.1 and 4.2) promises, *)
(* stated with closed-form offsets instead of the code's moving pointers: *)
(*  - one keystream of the seed, byte t of it at offset t, is sliced into  *)
(*    the expansion matrix (H x K), the R middle matrices (H x H) and the  *)
(*    compression matrix (K x H), in that order, row-major;                *)
(*  - the noise is the input's digest repeated, read as unsigned bytes,    *)
(*    sliced into H, R*H and K entries;                                    *)
(*  - each layer outputs (A * in + e) mod 256.                             *)
(* A resident pair is built for one seed at a time and answers any number *)
(* of calls with Digest(seed, x).                                          *)
(***************************************************************************)
EXTENDS Integers, Sequences, TensArith

CONSTANTS
  H, R, K,            \* HIDDEN, ROUNDS, IN_SIZE
  D,                  \* bytes of the input's digest
  Seed, Input,
  Keystream(_, _),    \* Keystream(seed, t): byte t (from 0) of the stream
  InputDigest(_),     \* the digest of an input, a sequence of D bytes
  NoCtx

VARIABLES ctxSeed, answer

\* coefficient (i, j) of each stage, by its offset in the keystream
ExpAt(s, i, j) == Keystream(s, (i - 1) * K + (j - 1))
MidAt(s, r, i, j) == Keystream(s, H * K + (r - 1) * H * H + (i - 1) * H + (j - 1))
CmpAt(s, i, j) == Keystream(s, H * K + R * H * H + (i - 1) * H + (j - 1))

\* noise entry t (from 0) of the tiled digest
NoiseAt(x, t) == InputDigest(x)[(t % D) + 1]

\* one layer with noise starting at offset base
RefLayer(A(_, _), rows, cols, v, x, base) ==
  [i \in 1..rows |->
     (SumRange([j \in 1..cols |-> A(i, j) * v[j]], 1, cols) + NoiseAt(x, base + i - 1)) % 256]

RECURSIVE RefMiddle(_, _, _, _)
RefMiddle(s, x, r, v) ==
  IF r > R THEN v
  ELSE RefMiddle(s, x, r + 1,
         RefLayer(LAMBDA i, j : MidAt(s, r, i, j), H, H, v, x, H + (r - 1) * H))

Digest(s, x) ==
  LET e == RefLayer(LAMBDA i, j : ExpAt(s, i, j), H, K, x, x, 0)
      m == RefMiddle(s, x, 1, e)
  IN  RefLayer(LAMBDA i, j : CmpAt(s, i, j), K, H, m, x, H + R * H)

DigestOf == [s \in Seed, x \in Input |-> Digest(s, x)]

Init == ctxSeed = NoCtx /\ answer = NoCtx

\* the resident pair is rebuilt for seed s (or the build fails)
Load(s) == ctxSeed' \in {s, NoCtx} /\ UNCHANGED answer

Evaluate(x) == ctxSeed # NoCtx /\ answer' = [input |-> x, out |-> DigestOf[ctxSeed, x]]
               /\ UNCHANGED ctxSeed

Next == (\E s \in Seed : Load(s)) \/ (\E x \in Input : Evaluate(x))

Spec == Init /\ [][Next]_<<ctxSeed, answer>>
=============================================================================
