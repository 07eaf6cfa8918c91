---------------------------- MODULE TensDigestB ----------------------------
(***************************************************************************)
(* What the ternary-weight evaluator ("Mode B", spec 4.1 and 4.3)         *)
(* promises, stated with reference definitions independent of the code's  *)
(* buffers and loops:                                                      *)
(*  - the input is read as a little-endian integer and its bits, most     *)
(*    significant first, are mapped to -1/+1;                              *)
(*  - each layer outputs 1 where the ternary dot product (plus the        *)
(*    residual input when the dimensions agree) is positive;              *)
(*  - the 8K output bits, most significant first, form an integer that    *)
(*    is returned little-endian.                                           *)
(* The weights are SeedExpander's, TensSeedExpander.                     *)
(* A context is created for one seed, answers any number of calls with    *)
(* Digest(seed, x) and is then freed.                                      *)
(***************************************************************************)
EXTENDS Integers, Sequences, TensArith

CONSTANTS
  K,             \* TENS_IN_SIZE: bytes of seed, input and output
  HIDDEN,        \* TENS_HIDDEN
  LAYERS,        \* NUM_HIDDEN_LAYERS
  Seed, Input,   \* seeds and inputs, as byte sequences of length K
  Weights(_),    \* Weights(seed): [exp, hid, cmp] ternary matrices
  NoCtx

VARIABLES ctxSeed, answer

Bits == 8 * K

\* little-endian byte sequence <-> integer
LEValue(x) == SumRange([k \in 1..K |-> x[k] * 2^(8 * (k - 1))], 1, K)
LEBytes(n) == [k \in 1..K |-> (n \div 2^(8 * (k - 1))) % 256]

\* the Bits-bit value n as bits, most significant first, and back
MSBBits(n) == [i \in 1..Bits |-> (n \div 2^(Bits - i)) % 2]
MSBValue(b) == SumRange([i \in 1..Bits |-> b[i] * 2^(Bits - i)], 1, Bits)

Sign(b) == 2 * b - 1

\* one layer: W has outDim rows; residual iff square
RefLayer(W, v) ==
  LET outDim == Len(W)
      inDim == Len(v)
  IN  [j \in 1..outDim |->
         IF SumRange([i \in 1..inDim |-> W[j][i] * Sign(v[i])], 1, inDim)
            + (IF outDim = inDim THEN Sign(v[j]) ELSE 0) > 0
         THEN 1 ELSE 0]

RECURSIVE RefHidden(_, _, _)
RefHidden(hid, n, v) == IF n = 0 THEN v ELSE RefHidden(hid, n - 1, RefLayer(hid[LAYERS - n + 1], v))

Cascade(w, bits) == RefLayer(w.cmp, RefHidden(w.hid, LAYERS, RefLayer(w.exp, bits)))

Digest(s, x) == LEBytes(MSBValue(Cascade(Weights(s), MSBBits(LEValue(x)))))

\* the digests of the model's seeds and inputs, evaluated once
DigestOf == [s \in Seed, x \in Input |-> Digest(s, x)]

Init == ctxSeed = NoCtx /\ answer = NoCtx

Create(s) == ctxSeed = NoCtx /\ ctxSeed' \in {s, NoCtx} /\ UNCHANGED answer

Evaluate(x) == ctxSeed # NoCtx /\ answer' = [input |-> x, out |-> DigestOf[ctxSeed, x]]
               /\ UNCHANGED ctxSeed

Destroy == ctxSeed # NoCtx /\ ctxSeed' = NoCtx /\ UNCHANGED answer

Next == (\E s \in Seed : Create(s)) \/ (\E x \in Input : Evaluate(x)) \/ Destroy

Spec == Init /\ [][Next]_<<ctxSeed, answer>>
=============================================================================
