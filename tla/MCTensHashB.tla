---------------------------- MODULE MCTensHashB ----------------------------
(***************************************************************************)
(* Model-checking instance of TensHashB: 2-byte seeds and inputs (so that *)
(* the byte swaps of seed, input and output are not the identity), 16     *)
(* neurons, 2 hidden layers (the pointer swaps per call are odd, 1 + 2,   *)
(* as with 1 + 64 in the code).                                            *)
(*                                                                         *)
(* MCKeystream stands in for ChaCha20: a fixed mixing of key, nonce and   *)
(* position into a byte.  Key bytes and nonce are multiplied by position  *)
(* terms, so that a swapped key or a repeated nonce changes the residues  *)
(* mod 4 that the ternary weights are made of.                            *)
(***************************************************************************)
EXTENDS TensHashB

MCSeed == {<<0, 0>>, <<7, 129>>}

\* zero, each byte alone, a high bit, both bytes
MCInput == {<<0, 0>>, <<1, 0>>, <<0, 1>>, <<128, 0>>, <<52, 18>>}

MCKeystream(key, nonce, i) ==
  LET n == SumRange([k \in 1..12 |-> nonce[k] * (31 * k + 1)], 1, 12)
  IN  (key[1] * (i + 3) * 167 + key[2] * (((i * i) % 13) + 1) * 59
       + n * (i + 7) + i * 73 + ((i * i) % 251) + 11) % 256
=============================================================================
