-------------------------- MODULE TensSeedExpander --------------------------
(***************************************************************************)
(* SeedExpander for the ternary mode, as spec 4.1 and 4.3 state it: the   *)
(* seed, byte-reversed to most significant byte first, keys a stream      *)
(* cipher; stage t (1 the expansion, 2..LAYERS+1 the hidden layers,       *)
(* LAYERS+2 the compression) draws its own keystream under nonce          *)
(* StageNonce(t) from block 0, read row-major, and each byte mod 4 gives  *)
(* the weight 0, 0, +1 or -1.                                              *)
(***************************************************************************)
EXTENDS Integers, Sequences

CONSTANTS
  K,                   \* bytes of the seed; 8 * K input and output bits
  HIDDEN, LAYERS,
  Keystream(_, _, _),  \* Keystream(key, nonce, i): byte i (from 0)
  StageNonce(_)        \* the nonce of stage t

Bits == 8 * K

\* weight of a keystream byte, by its residue mod 4
WeightOfResidue == <<0, 0, 1, -1>>

\* the MSB-first key of an LSB-first seed
KeyOf(s) == [i \in 1..K |-> s[K + 1 - i]]

StageMatrix(s, t, rows, cols) ==
  [j \in 1..rows |-> [i \in 1..cols |->
     WeightOfResidue[(Keystream(KeyOf(s), StageNonce(t), (j - 1) * cols + i - 1) % 4) + 1]]]

Weights(s) ==
  [exp |-> StageMatrix(s, 1, HIDDEN, Bits),
   hid |-> [r \in 1..LAYERS |-> StageMatrix(s, r + 1, HIDDEN, HIDDEN)],
   cmp |-> StageMatrix(s, LAYERS + 2, Bits, HIDDEN)]
=============================================================================
