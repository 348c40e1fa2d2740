---------------------------- MODULE ParamFilter ----------------------------
(***************************************************************************)
(* The key-prefix filter of the watcher service (FilterParam in            *)
(* watcher_manager.cpp), translated over C strings.  A string is a         *)
(* sequence of characters; C indexes are 0-based and a read past the end   *)
(* of a string yields the terminating NUL.  size_t arithmetic is kept      *)
(* modulo SizeMax + 1, so that keyPrefix.length() - 1 on an empty prefix   *)
(* wraps to npos exactly as in the code.                                   *)
(***************************************************************************)
EXTENDS Integers, Sequences, SequencesExt

CONSTANT SizeMax   \* the largest size_t value (std::string::npos)

ASSUME SizeMax \in Nat /\ SizeMax > 8

NUL == "NUL"
NPOS == SizeMax

\* The character at 0-based index i of the C string s.
CharAt(s, i) == IF i < Len(s) THEN s[i + 1] ELSE NUL

\* size_t subtraction of one.
SizeDec(n) == (n - 1) % (SizeMax + 1)

\* std::string::rfind(ch): the 0-based index of the last ch, or npos.
RFind(s, ch) ==
    LET hits == {i \in 1..Len(s) : s[i] = ch}
    IN  IF hits = {} THEN NPOS ELSE Max(hits) - 1

\* strncmp(s, t, n) == 0: the strings agree on their first n characters,
\* the comparison ending at the first NUL both share.  Positions past both
\* terminators compare NUL with NUL, so the range can be cut there.
StrnEqual(s, t, n) ==
    \A i \in 0..(Min({n, Max({Len(s), Len(t)}) + 1}) - 1) :
        CharAt(s, i) = CharAt(t, i)

\* Mutant: strncmp over the whole keyPrefix, the '*' included.
FilterParam_FullLength(name, keyPrefix) ==
    IF RFind(keyPrefix, "*") = SizeDec(Len(keyPrefix))
    THEN StrnEqual(name, keyPrefix, Len(keyPrefix))
    ELSE name = keyPrefix

\* FilterParam(name, keyPrefix): a prefix whose last '*' is its last
\* character matches every name that starts with the characters before the
\* '*'; any other prefix matches only the equal name (strcmp).
FilterParam(name, keyPrefix) ==
    IF RFind(keyPrefix, "*") = SizeDec(Len(keyPrefix))
    THEN StrnEqual(name, keyPrefix, SizeDec(Len(keyPrefix)))
    ELSE name = keyPrefix
=============================================================================
