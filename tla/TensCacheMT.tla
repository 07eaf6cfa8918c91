---------------------------- MODULE TensCacheMT ----------------------------
(***************************************************************************)
(* Several callers of part_000's tens_hash(input, seed, output) on the one *)
(* static cache.  Each call is split where it reads or writes the shared  *)
(* statics: the seedMatches test, the frees of the old pair and the       *)
(* nulling of each pointer, the seed update, precompute_matrices and the  *)
(* store of its result, init_hash_buffers, the null test, the reading of  *)
(* the pointers as arguments of tens_hash_precomputed, and the end of the *)
(* evaluation.  The code has no lock; Locked models the external mutex    *)
(* around tens_hash that spec 4.4 and 5 ask callers to hold.              *)
(*                                                                         *)
(* A MatrixSet or HashBuffers is an object named by the call that         *)
(* allocated it; which blocks a failed build frees is TensCache's         *)
(* subject, here a build succeeds or returns NULL with nothing held.      *)
(* Two evaluations on the same HashBuffers race on state, next_state and  *)
(* the noise (and swap the shared pointers): undefined behaviour, so      *)
(* their outputs are any value.                                            *)
(***************************************************************************)
EXTENDS Integers, FiniteSets

CONSTANTS
  Proc,        \* the callers
  Seed, Input,
  Calls,       \* calls each caller makes (a bound of the model)
  Locked,      \* callers hold an external mutex around tens_hash
  CanFail,     \* precompute_matrices / init_hash_buffers may return NULL
  Null

ASSUME Calls \in Nat /\ Locked \in BOOLEAN /\ CanFail \in BOOLEAN

MObj == {<<"matrices", p, n>> : p \in Proc, n \in 1..Calls}
BObj == {<<"buffers", p, n>> : p \in Proc, n \in 1..Calls}
Obj == MObj \cup BObj

Hash(s, x) == <<"hash", s, x>>
Garbage == <<"garbage">>
NoOutput == <<"none">>

VARIABLES
  cacheInitialized, cachedSeed, cachedMatrices, cachedBuffers,  \* the statics
  heap,      \* heap[o]: 1 while object o is allocated
  builtFor,  \* builtFor[m]: the seed matrix set m was generated from
  users,     \* users[b]: the callers evaluating on buffers b
  lock,      \* Null or the caller holding the external mutex
  pc, seed, input, calls,
  tmp,       \* precompute_matrices' result, before it is stored
  argM, argB,  \* the pointers passed to tens_hash_precomputed
  clobbered, \* another evaluation used the caller's buffers meanwhile
  out        \* the caller's last call: [seed, input, out]

shared == <<cacheInitialized, cachedSeed, cachedMatrices, cachedBuffers, heap, builtFor, users, lock>>
local == <<pc, seed, input, calls, tmp, argM, argB, clobbered, out>>
vars == <<shared, local>>

Init ==
  /\ cacheInitialized = FALSE /\ cachedSeed = Null
  /\ cachedMatrices = Null /\ cachedBuffers = Null
  /\ heap = [o \in Obj |-> 0]
  /\ builtFor = [m \in MObj |-> Null]
  /\ users = [b \in BObj |-> {}]
  /\ lock = Null
  /\ pc = [p \in Proc |-> "idle"]
  /\ seed = [p \in Proc |-> Null] /\ input = [p \in Proc |-> Null]
  /\ calls = [p \in Proc |-> 0]
  /\ tmp = [p \in Proc |-> Null]
  /\ argM = [p \in Proc |-> Null] /\ argB = [p \in Proc |-> Null]
  /\ clobbered = [p \in Proc |-> FALSE]
  /\ out = [p \in Proc |-> Null]

Goto(p, l) == pc' = [pc EXCEPT ![p] = l]

\* Mutant: the caller takes the mutex without waiting for it.
AcquireUnchecked(p) == lock' = p

\* the external mutex, taken when Locked
Acquire(p) == IF Locked THEN lock = Null /\ lock' = p ELSE UNCHANGED lock

Release == IF Locked THEN lock' = Null ELSE UNCHANGED lock

\* the caller sets out to call tens_hash(x, s), taking the mutex first
Call(p, s, x) ==
  /\ pc[p] = "idle" /\ calls[p] < Calls
  /\ Goto(p, "acquire")
  /\ seed' = [seed EXCEPT ![p] = s] /\ input' = [input EXCEPT ![p] = x]
  /\ calls' = [calls EXCEPT ![p] = @ + 1]
  /\ clobbered' = [clobbered EXCEPT ![p] = FALSE]
  /\ UNCHANGED <<cacheInitialized, cachedSeed, cachedMatrices, cachedBuffers,
                 heap, builtFor, users, lock, tmp, argM, argB, out>>

\* the mutex is taken (it may be waited for), and tens_hash is entered
Enter(p) ==
  /\ pc[p] = "acquire"
  /\ Acquire(p)
  /\ Goto(p, "check")
  /\ UNCHANGED <<cacheInitialized, cachedSeed, cachedMatrices, cachedBuffers,
                 heap, builtFor, users, seed, input, calls, tmp, argM, argB, clobbered, out>>

\* seedMatches = cacheInitialized && memcmp(cachedSeed, seed) == 0
Check(p) ==
  /\ pc[p] = "check"
  /\ Goto(p, IF cacheInitialized /\ cachedSeed = seed[p] THEN "nullcheck" ELSE "freeM")
  /\ UNCHANGED <<shared, seed, input, calls, tmp, argM, argB, clobbered, out>>

\* if (cachedMatrices) free_matrices(cachedMatrices); ...
FreeM(p) ==
  /\ pc[p] = "freeM"
  /\ IF cachedMatrices # Null
     THEN heap' = [heap EXCEPT ![cachedMatrices] = @ - 1] /\ Goto(p, "clearM")
     ELSE UNCHANGED heap /\ Goto(p, "freeB")
  /\ UNCHANGED <<cacheInitialized, cachedSeed, cachedMatrices, cachedBuffers,
                 builtFor, users, lock, seed, input, calls, tmp, argM, argB, clobbered, out>>

\* ... cachedMatrices = nullptr;
ClearM(p) ==
  /\ pc[p] = "clearM"
  /\ cachedMatrices' = Null
  /\ Goto(p, "freeB")
  /\ UNCHANGED <<cacheInitialized, cachedSeed, cachedBuffers, heap, builtFor, users, lock,
                 seed, input, calls, tmp, argM, argB, clobbered, out>>

\* Mutant: the old buffers are not freed.
FreeBSkipped(p) ==
  /\ pc[p] = "freeB"
  /\ UNCHANGED heap
  /\ Goto(p, IF cachedBuffers # Null THEN "clearB" ELSE "setSeed")
  /\ UNCHANGED <<cacheInitialized, cachedSeed, cachedMatrices, cachedBuffers,
                 builtFor, users, lock, seed, input, calls, tmp, argM, argB, clobbered, out>>

\* if (cachedBuffers) free_hash_buffers(cachedBuffers); ...
FreeB(p) ==
  /\ pc[p] = "freeB"
  /\ IF cachedBuffers # Null
     THEN heap' = [heap EXCEPT ![cachedBuffers] = @ - 1] /\ Goto(p, "clearB")
     ELSE UNCHANGED heap /\ Goto(p, "setSeed")
  /\ UNCHANGED <<cacheInitialized, cachedSeed, cachedMatrices, cachedBuffers,
                 builtFor, users, lock, seed, input, calls, tmp, argM, argB, clobbered, out>>

\* ... cachedBuffers = nullptr;
ClearB(p) ==
  /\ pc[p] = "clearB"
  /\ cachedBuffers' = Null
  /\ Goto(p, "setSeed")
  /\ UNCHANGED <<cacheInitialized, cachedSeed, cachedMatrices, heap, builtFor, users, lock,
                 seed, input, calls, tmp, argM, argB, clobbered, out>>

\* memcpy(cachedSeed, seed, IN_SIZE); cacheInitialized = true;
SetSeed(p) ==
  /\ pc[p] = "setSeed"
  /\ cachedSeed' = seed[p] /\ cacheInitialized' = TRUE
  /\ Goto(p, "precompute")
  /\ UNCHANGED <<cachedMatrices, cachedBuffers, heap, builtFor, users, lock,
                 seed, input, calls, tmp, argM, argB, clobbered, out>>

\* precompute_matrices(seed) runs, allocating a matrix set or returning NULL
Precompute(p) ==
  /\ pc[p] = "precompute"
  /\ LET m == <<"matrices", p, calls[p]>>
     IN  \/ /\ heap' = [heap EXCEPT ![m] = @ + 1]
            /\ builtFor' = [builtFor EXCEPT ![m] = seed[p]]
            /\ tmp' = [tmp EXCEPT ![p] = m]
         \/ /\ CanFail
            /\ tmp' = [tmp EXCEPT ![p] = Null]
            /\ UNCHANGED <<heap, builtFor>>
  /\ Goto(p, "storeM")
  /\ UNCHANGED <<cacheInitialized, cachedSeed, cachedMatrices, cachedBuffers, users, lock,
                 seed, input, calls, argM, argB, clobbered, out>>

\* cachedMatrices = <the result>; cachedBuffers = init_hash_buffers();
StoreM(p) ==
  /\ pc[p] = "storeM"
  /\ cachedMatrices' = tmp[p]
  /\ Goto(p, "buffers")
  /\ UNCHANGED <<cacheInitialized, cachedSeed, cachedBuffers, heap, builtFor, users, lock,
                 seed, input, calls, tmp, argM, argB, clobbered, out>>

InitBuffers(p) ==
  /\ pc[p] = "buffers"
  /\ LET b == <<"buffers", p, calls[p]>>
     IN  \/ /\ heap' = [heap EXCEPT ![b] = @ + 1]
            /\ cachedBuffers' = b
         \/ /\ CanFail
            /\ cachedBuffers' = Null
            /\ UNCHANGED heap
  /\ Goto(p, "nullcheck")
  /\ UNCHANGED <<cacheInitialized, cachedSeed, cachedMatrices, builtFor, users, lock,
                 seed, input, calls, tmp, argM, argB, clobbered, out>>

\* Mutant: the caller's mutex covers only the cache management and is
\* released before the evaluation.
NullCheckReleasing(p) ==
  /\ pc[p] = "nullcheck"
  /\ IF cachedMatrices = Null \/ cachedBuffers = Null
     THEN /\ out' = [out EXCEPT ![p] = [seed |-> seed[p], input |-> input[p], out |-> NoOutput]]
          /\ Goto(p, "idle")
     ELSE UNCHANGED out /\ Goto(p, "call")
  /\ Release
  /\ UNCHANGED <<cacheInitialized, cachedSeed, cachedMatrices, cachedBuffers, heap, builtFor, users,
                 seed, input, calls, tmp, argM, argB, clobbered>>

\* Mutant: the null test is left out.
NullCheckSkipped(p) ==
  /\ pc[p] = "nullcheck"
  /\ Goto(p, "call")
  /\ UNCHANGED <<shared, seed, input, calls, tmp, argM, argB, clobbered, out>>

\* if (!cachedMatrices || !cachedBuffers) return;
NullCheck(p) ==
  /\ pc[p] = "nullcheck"
  /\ IF cachedMatrices = Null \/ cachedBuffers = Null
     THEN /\ out' = [out EXCEPT ![p] = [seed |-> seed[p], input |-> input[p], out |-> NoOutput]]
          /\ Goto(p, "idle")
          /\ Release
     ELSE UNCHANGED <<out, lock>> /\ Goto(p, "call")
  /\ UNCHANGED <<cacheInitialized, cachedSeed, cachedMatrices, cachedBuffers, heap, builtFor, users,
                 seed, input, calls, tmp, argM, argB, clobbered>>

\* tens_hash_precomputed(input, cachedMatrices, cachedBuffers, output) reads
\* the pointers again and starts evaluating on the buffers
StartCompute(p) ==
  /\ pc[p] = "call"
  /\ argM' = [argM EXCEPT ![p] = cachedMatrices]
  /\ argB' = [argB EXCEPT ![p] = cachedBuffers]
  /\ IF cachedBuffers # Null
     THEN /\ users' = [users EXCEPT ![cachedBuffers] = @ \cup {p}]
          /\ clobbered' = [q \in Proc |->
                             clobbered[q] \/ (users[cachedBuffers] # {} /\ q \in users[cachedBuffers] \cup {p})]
     ELSE UNCHANGED <<users, clobbered>>
  /\ Goto(p, "compute")
  /\ UNCHANGED <<cacheInitialized, cachedSeed, cachedMatrices, cachedBuffers, heap, builtFor, lock,
                 seed, input, calls, tmp, out>>

\* the evaluation ends and writes output: the digest of the matrices it
\* read, unless its buffers were shared or an object was freed under it
FinishCompute(p) ==
  /\ pc[p] = "compute"
  /\ LET m == argM[p]
         b == argB[p]
         intact == m # Null /\ b # Null /\ heap[m] = 1 /\ heap[b] = 1 /\ ~clobbered[p]
     IN  /\ \E o \in IF intact THEN {Hash(builtFor[m], input[p])}
                     ELSE {Garbage} \cup {Hash(s, input[p]) : s \in Seed} :
              out' = [out EXCEPT ![p] = [seed |-> seed[p], input |-> input[p], out |-> o]]
         /\ users' = IF b # Null THEN [users EXCEPT ![b] = @ \ {p}] ELSE users
  /\ Release
  /\ Goto(p, "idle")
  /\ UNCHANGED <<cacheInitialized, cachedSeed, cachedMatrices, cachedBuffers, heap, builtFor,
                 seed, input, calls, tmp, argM, argB, clobbered>>

\* the steps of a call in progress
Work(p) ==
  \/ Enter(p) \/ Check(p) \/ FreeM(p) \/ ClearM(p) \/ FreeB(p) \/ ClearB(p) \/ SetSeed(p)
  \/ Precompute(p) \/ StoreM(p) \/ InitBuffers(p) \/ NullCheck(p)
  \/ StartCompute(p) \/ FinishCompute(p)

\* every caller has made its calls
Finished == \A p \in Proc : pc[p] = "idle" /\ calls[p] = Calls
            /\ UNCHANGED vars

Next ==
  \/ \E p \in Proc :
       \/ \E s \in Seed, x \in Input : Call(p, s, x)
       \/ Work(p)
  \/ Finished

Spec == Init /\ [][Next]_vars

(***************************************************************************)
(* Properties.                                                             *)
(***************************************************************************)
Label == {"idle", "acquire", "check", "freeM", "clearM", "freeB", "clearB", "setSeed",
          "precompute", "storeM", "buffers", "nullcheck", "call", "compute"}

\* heap counts in {0, 1}: no object is freed twice
TypeOK ==
  /\ cacheInitialized \in BOOLEAN
  /\ cachedSeed \in Seed \cup {Null}
  /\ cachedMatrices \in MObj \cup {Null} /\ cachedBuffers \in BObj \cup {Null}
  /\ heap \in [Obj -> {0, 1}]
  /\ users \in [BObj -> SUBSET Proc]
  /\ lock \in Proc \cup {Null}
  /\ pc \in [Proc -> Label]
  /\ calls \in [Proc -> 0..Calls]
  /\ tmp \in [Proc -> MObj \cup {Null}]

(***************************************************************************)
(* tens_hash_precomputed is only ever running on a matrix set and buffers *)
(* that are allocated: no evaluation starts on a null pointer read after  *)
(* the null test, or goes on after another caller's eviction freed what   *)
(* it is reading.                                                          *)
(***************************************************************************)
MemorySafe ==
  \A p \in Proc : pc[p] = "compute" =>
    /\ argM[p] # Null /\ argB[p] # Null
    /\ heap[argM[p]] = 1 /\ heap[argB[p]] = 1

(***************************************************************************)
(* Spec 7 (c): no output under the wrong matrices.  Every output a call   *)
(* of tens_hash writes is the digest of that call's own seed and input.   *)
(***************************************************************************)
CorrectOutput ==
  \A p \in Proc : out[p] # Null /\ out[p].out # NoOutput =>
    out[p].out = Hash(out[p].seed, out[p].input)

(***************************************************************************)
(* Whenever no call is in progress, the only allocated objects are the    *)
(* cached pair: each eviction freed what it replaced.                     *)
(***************************************************************************)
NoLeak ==
  (\A p \in Proc : pc[p] = "idle") =>
    \A o \in Obj : heap[o] = IF o \in {cachedMatrices, cachedBuffers} THEN 1 ELSE 0

=============================================================================
