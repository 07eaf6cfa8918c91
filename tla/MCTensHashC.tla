---------------------------- MODULE MCTensHashC ----------------------------
(***************************************************************************)
(* TensHashC at HIDDEN = 4, ROUNDS = 3, IN_SIZE = 2 with a 3-byte digest. *)
(* ROUNDS is odd, unlike 64, so state ends in the other buffer and a     *)
(* compression reading a fixed buffer is seen.                           *)
(*                                                                         *)
(* In the code 32 divides 1024, so every noise slice starts at a multiple *)
(* of the digest length and all slices are equal; with 3 not dividing 4   *)
(* the slices differ, so the noise offsets are checked as the spec states *)
(* them.  Keystream and digest are fixed mixing functions whose bytes     *)
(* cover both halves of the int8_t range.                                  *)
(***************************************************************************)
EXTENDS TensHashC

MCSeed == {<<0, 0>>, <<9, 250>>}
MCInput == {<<0, 0>>, <<255, 255>>, <<1, 128>>, <<200, 7>>}

MCKeystream(s, t) == (s[1] * 101 + s[2] * 37 + t * 89 + ((t * t) % 97) + 3) % 256

MCInputDigest(x) ==
  <<(x[1] * 7 + x[2] * 13 + 128) % 256, (x[1] * x[2] + 201) % 256, (x[1] + 3 * x[2] + 64) % 256>>
=============================================================================
