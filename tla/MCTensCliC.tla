----------------------------- MODULE MCTensCliC -----------------------------
(***************************************************************************)
(* TensCliC with IN_SIZE = 1 byte (2 hex digits) and ROUNDS = 2.  argv[1] *)
(* is every string of up to 3 characters over an alphabet holding each    *)
(* hex range's ends and the characters just outside them; argv[2] is a    *)
(* few strings, valid and not.                                             *)
(***************************************************************************)
EXTENDS TensCliC

\* '/', '0', '9', ':', '@', 'A', 'F', 'G', '`', 'a', 'f', 'g'
Alphabet == {47, 48, 57, 58, 64, 65, 70, 71, 96, 97, 102, 103}

MCSeedArgs == SeqOf(Alphabet, 3)
MCInputArgs == {<<>>, <<57, 97>>, <<70, 48>>, <<48, 103>>, <<102, 65, 48>>}

MCDigest(s, x) == <<(s[1] * 31 + x[1] * 7 + 5) % 256>>
=============================================================================
