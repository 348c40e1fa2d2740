--------------------------- MODULE MCParamFilter ---------------------------
(***************************************************************************)
(* FilterParam checked against the documented prefix semantics: each      *)
(* state holds one (name, keyPrefix) input, and every input is reachable.  *)
(***************************************************************************)
EXTENDS ParamFilter

MCSizeMax == 2^16 - 1

\* Every name over {a, b} and every pattern over {a, b, *} of up to three
\* characters, the empty ones and "*" included.
FilterTestNames    == BoundedSeq({"a", "b"}, 3)
FilterTestPatterns == BoundedSeq({"a", "b", "*"}, 3)

VARIABLES name, keyPrefix

Init == name = <<>> /\ keyPrefix = <<>>

Choose(n, p) == name' = n /\ keyPrefix' = p

Next == \E n \in FilterTestNames, p \in FilterTestPatterns : Choose(n, p)

Spec == Init /\ [][Next]_<<name, keyPrefix>>

(***************************************************************************)
(* What the prefix matching of the watcher API promises: an exact string   *)
(* compares equal names; a pattern ending in * matches any name sharing    *)
(* its non-* prefix.                                                       *)
(***************************************************************************)
PrefixMatches(n, pattern) ==
    IF pattern # <<>> /\ Last(pattern) = "*"
    THEN IsPrefix(Front(pattern), n)
    ELSE n = pattern

(***************************************************************************)
(* FilterParam (watcher_manager.cpp) agrees with PrefixMatches on every    *)
(* input, including the empty pattern, where keyPrefix.length() - 1 wraps  *)
(* around to npos and the wildcard branch is taken with a huge strncmp     *)
(* length, and patterns with a '*' that is not last.                       *)
(***************************************************************************)
FilterParamMatchesSpec == FilterParam(name, keyPrefix) = PrefixMatches(name, keyPrefix)
=============================================================================
