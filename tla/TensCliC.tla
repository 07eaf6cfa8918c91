------------------------------ MODULE TensCliC ------------------------------
(***************************************************************************)
(* The standalone C variant, src/test_pow/tens_hash.c built with          *)
(* HASH_MAIN: main() checks sodium_init and its arguments, decodes seed   *)
(* and input with parse_hex / hexchar_to_int, calls the one-shot          *)
(* tens_hash() and prints the output with "%02x".  tens_hash allocates    *)
(* the matrices with one data block per matrix (precompute_matrices),     *)
(* the buffers (init_hash_buffers), evaluates, and frees both; any        *)
(* failure exits with status 1.                                            *)
(*                                                                         *)
(* Characters are ASCII codes, so hexchar_to_int's range tests are taken  *)
(* as written; strings are sequences of codes.  IN_SIZE is K bytes (2K    *)
(* hex digits), ROUNDS is R.  The evaluation itself (tens_hash_precomputed*)
(* , the same Mode A cascade TensHashA checks) is the constant operator   *)
(* Digest(seedBytes, inputBytes).  Blocks of the heap are abstract names. *)
(***************************************************************************)
EXTENDS Integers, Sequences, SequencesExt, FiniteSets

CONSTANTS
  K, R,
  SeedArgs,        \* the strings argv[1] may be
  InputArgs,       \* the strings argv[2] may be
  Digest(_, _),    \* tens_hash_precomputed's output for (seed, input)
  FaultSites       \* subset of {"sodium", "precompute", "generate", "buffers"}

ASSUME K \in Nat \ {0} /\ R \in Nat \ {0}

VARIABLES
  pc,        \* the next statement group of main / tens_hash, or "done"
  argc,
  arg1, arg2,
  seed, input,   \* the decoded byte arrays (<<>> until written)
  output,
  heap,      \* heap[b]: live allocations of block b
  printed,   \* the characters written to stdout
  exitCode,  \* main's return value or exit()'s status, once pc = "done"
  exitAt     \* which statement ended the process

vars == <<pc, argc, arg1, arg2, seed, input, output, heap, printed, exitCode, exitAt>>

(***************************************************************************)
(* hexchar_to_int and parse_hex.                                           *)
(***************************************************************************)
\* Mutant: the lower-case range stops one short of 'f'.
HexCharToIntShort(c) ==
  IF c >= 48 /\ c <= 57 THEN c - 48
  ELSE IF c >= 97 /\ c < 102 THEN c - 97 + 10
  ELSE IF c >= 65 /\ c <= 70 THEN c - 65 + 10
  ELSE -1

\* '0'..'9' = 48..57, 'a'..'f' = 97..102, 'A'..'F' = 65..70
HexCharToInt(c) ==
  IF c >= 48 /\ c <= 57 THEN c - 48
  ELSE IF c >= 97 /\ c <= 102 THEN c - 97 + 10
  ELSE IF c >= 65 /\ c <= 70 THEN c - 65 + 10
  ELSE -1

\* the loop of parse_hex from byte i: returns rc and the bytes written so far
RECURSIVE ParseFrom(_, _, _, _)
ParseFrom(hex, i, outLen, out) ==
  IF i = outLen THEN [rc |-> 0, out |-> out]
  ELSE LET hi == HexCharToInt(hex[2 * i + 1])
           lo == HexCharToInt(hex[2 * i + 2])
       IN  IF hi < 0 \/ lo < 0 THEN [rc |-> -1, out |-> out]
           ELSE ParseFrom(hex, i + 1, outLen, Append(out, hi * 16 + lo))

ParseHex(hex, hexLen, outLen) ==
  IF hexLen # outLen * 2 THEN [rc |-> -1, out |-> <<>>]
  ELSE ParseFrom(hex, 0, outLen, <<>>)

\* printf("%02x", b): two lower-case digits
HexDigitOut(v) == IF v < 10 THEN 48 + v ELSE 97 + v - 10
Hex02(b) == <<HexDigitOut(b \div 16), HexDigitOut(b % 16)>>

(***************************************************************************)
(* The heap of the one-shot call.                                         *)
(***************************************************************************)
Mats == <<"matrices">>
ExpPtrs == <<"expand_mat">>
ExpData == <<"expand_mat[0]">>
MidPtrs(r) == <<"middle_mats", r>>
MidData(r) == <<"middle_mats[0]", r>>
CmpPtrs == <<"compress_mat">>
CmpData == <<"compress_mat[0]">>
BufStruct == <<"buffers">>
BufArrays == {<<"state">>, <<"next_state">>, <<"noise">>}

\* the mallocs of precompute_matrices in program order
MatAllocs ==
  <<Mats, ExpPtrs, ExpData>>
  \o FlattenSeq([i \in 1..R |-> <<MidPtrs(i - 1), MidData(i - 1)>>])
  \o <<CmpPtrs, CmpData>>

MatBlocks == ToSet(MatAllocs)
BufBlocks == BufArrays \cup {BufStruct}
Block == MatBlocks \cup BufBlocks

\* Mutant: the loops over earlier rounds run to j <= r.
MidsBeforeInclusive(r) == UNION {{MidPtrs(j), MidData(j)} : j \in 0..r}

\* the rounds j < r that were fully allocated
MidsBefore(r) == UNION {{MidPtrs(j), MidData(j)} : j \in 0..r - 1}
ExpBlocks == {ExpData, ExpPtrs, Mats}

\* Mutant: the failure of middle_mats[r][0] does not free middle_mats[r].
FreeOnMidDataFailKeepPtrs(r) == MidsBefore(r) \cup ExpBlocks

\* lines 184-193
FreeOnMidDataFail(r) == MidsBefore(r) \cup {MidPtrs(r)} \cup ExpBlocks

\* what each early return of precompute_matrices frees when the malloc of
\* block b returns NULL
Rollback(b) ==
  CASE b = Mats    -> {}
    [] b = ExpPtrs -> {Mats}
    [] b = ExpData -> {ExpPtrs, Mats}
    [] b = CmpPtrs -> MidsBefore(R) \cup ExpBlocks
    [] b = CmpData -> MidsBefore(R) \cup {CmpPtrs} \cup ExpBlocks
    [] \E r \in 0..R - 1 : b = MidPtrs(r) ->
         MidsBefore(CHOOSE r \in 0..R - 1 : b = MidPtrs(r)) \cup ExpBlocks
    [] \E r \in 0..R - 1 : b = MidData(r) ->
         FreeOnMidDataFail(CHOOSE r \in 0..R - 1 : b = MidData(r))

\* free_matrices(m) of a fully built set; free_hash_buffers(b)
FreedByFreeMatrices == MatBlocks
FreedByFreeBuffers == BufBlocks

Plus(h, S) == [b \in Block |-> IF b \in S THEN h[b] + 1 ELSE h[b]]
Minus(h, S) == [b \in Block |-> IF b \in S THEN h[b] - 1 ELSE h[b]]

(***************************************************************************)
(* Actions: main's statements, then tens_hash's.                           *)
(***************************************************************************)
Init ==
  /\ pc = "sodium"
  /\ argc \in {1, 2, 3}
  /\ arg1 \in (IF argc >= 2 THEN SeedArgs ELSE {<<>>})
  /\ arg2 \in (IF argc >= 3 THEN InputArgs ELSE {<<>>})
  /\ seed = <<>> /\ input = <<>> /\ output = <<>>
  /\ heap = [b \in Block |-> 0]
  /\ printed = <<>>
  /\ exitCode = 0 /\ exitAt = "none"

Exit(code, at) == pc' = "done" /\ exitCode' = code /\ exitAt' = at

\* if (sodium_init() < 0) return 1; if (argc < 3) return 1;
MainStart ==
  /\ pc = "sodium"
  /\ \/ "sodium" \in FaultSites /\ Exit(1, "sodium_init")
     \/ argc < 3 /\ Exit(1, "argc")
     \/ argc >= 3 /\ pc' = "seed" /\ UNCHANGED <<exitCode, exitAt>>
  /\ UNCHANGED <<argc, arg1, arg2, seed, input, output, heap, printed>>

\* strlen(argv[i]) != 64 or parse_hex(...) != 0: return 1
ParseArg(arg, next, at) ==
  LET r == ParseHex(arg, Len(arg), K)
  IN  IF Len(arg) # 2 * K \/ r.rc # 0
      THEN Exit(1, at)
      ELSE pc' = next /\ UNCHANGED <<exitCode, exitAt>>

MainSeed ==
  /\ pc = "seed"
  /\ ParseArg(arg1, "input", "seed")
  /\ seed' = ParseHex(arg1, Len(arg1), K).out
  /\ UNCHANGED <<argc, arg1, arg2, input, output, heap, printed>>

MainInput ==
  /\ pc = "input"
  /\ ParseArg(arg2, "precompute", "input")
  /\ input' = ParseHex(arg2, Len(arg2), K).out
  /\ UNCHANGED <<argc, arg1, arg2, seed, output, heap, printed>>

\* precompute_matrices(seed): the f-th malloc fails and its early return
\* rolls back (then tens_hash exits), or all succeed and generate_matrices
\* runs: its malloc of data may fail and exit(1), else data is freed again
Precompute ==
  /\ pc = "precompute"
  /\ \/ /\ "precompute" \in FaultSites
        /\ \E f \in 1..Len(MatAllocs) :
             heap' = Minus(Plus(heap, ToSet(SubSeq(MatAllocs, 1, f - 1))), Rollback(MatAllocs[f]))
        /\ Exit(1, "precompute_matrices")
     \/ /\ heap' = Plus(heap, MatBlocks)
        /\ \/ "generate" \in FaultSites /\ Exit(1, "generate_matrices")
           \/ pc' = "buffers" /\ UNCHANGED <<exitCode, exitAt>>
  /\ UNCHANGED <<argc, arg1, arg2, seed, input, output, printed>>

\* init_hash_buffers(): NULL from the struct malloc, or from any nonempty
\* set of NULL arrays (the others and the struct freed); then tens_hash
\* frees the matrices and exits
InitBuffers ==
  /\ pc = "buffers"
  /\ \/ /\ "buffers" \in FaultSites
        /\ \/ heap' = Minus(heap, FreedByFreeMatrices)
           \/ \E nulls \in SUBSET BufArrays \ {{}} :
                heap' = Minus(Minus(Plus(heap, (BufArrays \ nulls) \cup {BufStruct}),
                                    (BufArrays \ nulls) \cup {BufStruct}),
                              FreedByFreeMatrices)
        /\ Exit(1, "init_hash_buffers")
     \/ /\ heap' = Plus(heap, BufBlocks)
        /\ pc' = "hash" /\ UNCHANGED <<exitCode, exitAt>>
  /\ UNCHANGED <<argc, arg1, arg2, seed, input, output, printed>>

\* tens_hash_precomputed, then free_matrices and free_hash_buffers
Hash ==
  /\ pc = "hash"
  /\ output' = Digest(seed, input)
  /\ heap' = Minus(Minus(heap, FreedByFreeMatrices), FreedByFreeBuffers)
  /\ pc' = "print"
  /\ UNCHANGED <<argc, arg1, arg2, seed, input, printed, exitCode, exitAt>>

\* the printf loop, the newline, return 0
WriteOutput ==
  /\ pc = "print"
  /\ printed' = FlattenSeq([i \in 1..K |-> Hex02(output[i])]) \o <<10>>
  /\ Exit(0, "return")
  /\ UNCHANGED <<argc, arg1, arg2, seed, input, output, heap>>

\* the process has ended
Done == pc = "done" /\ UNCHANGED vars

Next == MainStart \/ MainSeed \/ MainInput \/ Precompute \/ InitBuffers
        \/ Hash \/ WriteOutput \/ Done

Spec == Init /\ [][Next]_vars

(***************************************************************************)
(* Properties.                                                             *)
(***************************************************************************)
Byte == 0..255

TypeOK ==
  /\ pc \in {"sodium", "seed", "input", "precompute", "buffers", "hash", "print", "done"}
  /\ argc \in 1..3
  /\ seed \in Seq(Byte) /\ input \in Seq(Byte) /\ output \in Seq(Byte)
  /\ heap \in [Block -> {0, 1}]
  /\ exitCode \in {0, 1}

\* The hex digits of spec 6, written out: value v is digit v + 1.
LowerDigits == <<48, 49, 50, 51, 52, 53, 54, 55, 56, 57, 97, 98, 99, 100, 101, 102>>
UpperDigits == <<48, 49, 50, 51, 52, 53, 54, 55, 56, 57, 65, 66, 67, 68, 69, 70>>
IsDigit(c) == \E v \in 0..15 : LowerDigits[v + 1] = c \/ UpperDigits[v + 1] = c
DigitValue(c) == CHOOSE v \in 0..15 : LowerDigits[v + 1] = c \/ UpperDigits[v + 1] = c

\* a strict decode: exactly 2K digits, value of each pair high digit first
ValidHex(str) == Len(str) = 2 * K /\ \A i \in 1..Len(str) : IsDigit(str[i])
RefDecode(str) == [i \in 1..K |-> 16 * DigitValue(str[2 * i - 1]) + DigitValue(str[2 * i])]

(***************************************************************************)
(* Spec 6, the CLI contract, about main and parse_hex: when the process   *)
(* ends, it has exit code 0 exactly when both arguments are present and   *)
(* are 2K hex digits and nothing failed; then stdout is the 2K lower-case *)
(* hex digits of Digest(seed, input) of the decoded values and a newline, *)
(* which decode back to the digest; otherwise stdout is empty.            *)
(***************************************************************************)
LibraryFailures == {"sodium_init", "precompute_matrices", "generate_matrices", "init_hash_buffers"}

CliContract ==
  pc = "done" =>
    /\ (exitCode = 0) = (/\ argc >= 3 /\ ValidHex(arg1) /\ ValidHex(arg2)
                         /\ exitAt \notin LibraryFailures)
    /\ exitCode = 0 =>
         LET hex == SubSeq(printed, 1, 2 * K)
         IN  /\ printed = hex \o <<10>>
             /\ \A i \in 1..2 * K : hex[i] \in ToSet(LowerDigits)
             /\ RefDecode(hex) = Digest(RefDecode(arg1), RefDecode(arg2))
    /\ exitCode = 1 => printed = <<>>

(***************************************************************************)
(* tens_hash's rollbacks and frees: every path out of tens_hash other     *)
(* than generate_matrices' exit(1) (which leaves the matrices to the      *)
(* process teardown) has released every block it allocated, and no block  *)
(* is ever freed twice (TypeOK: counts stay in {0, 1}).                    *)
(***************************************************************************)
HeapReleased ==
  pc \in {"print", "done"} /\ exitAt # "generate_matrices" =>
    \A b \in Block : heap[b] = 0
=============================================================================
