----------------------------- MODULE CacheSlot -----------------------------
(***************************************************************************)
(* What the precomputation cache promises its callers (spec section 4.4): *)
(* a single slot that is Empty or Populated(seed); Evaluate(s, x) leaves   *)
(* the slot Populated(s) and answers the call (s, x) with the digest of   *)
(* (s, x), or with an allocation failure.  The digest of (s, x) is the    *)
(* abstract value <<"hash", s, x>>: the evaluator is a function of seed   *)
(* and input.                                                              *)
(* The code offers no Clear operation (see README), so none is stated.    *)
(***************************************************************************)
CONSTANTS Seed, Input, EmptySlot

VARIABLES slot, answer

Hash(s, x) == <<"hash", s, x>>
AllocFailure == <<"failure">>
NoAnswer == <<"none">>

Init ==
  /\ slot = EmptySlot
  /\ answer = NoAnswer

Evaluate(s, x) ==
  /\ slot' = s
  /\ answer' \in {[seed |-> s, input |-> x, out |-> o] : o \in {Hash(s, x), AllocFailure}}

Next == \E s \in Seed, x \in Input : Evaluate(s, x)

Spec == Init /\ [][Next]_<<slot, answer>>
=============================================================================
