----------------------------- MODULE ParamStub -----------------------------
(***************************************************************************)
(* The policy backend the unit tests install (param_stub.cpp,              *)
(* TestSetSelinuxOps): write and read checks and the name-to-label table.  *)
(* A parameter name is a sequence of its dot-separated segments; a         *)
(* pattern is [segs, dot]: dot = TRUE for a pattern with a trailing '.',   *)
(* which strncmp only matches against names with a further segment.        *)
(***************************************************************************)
EXTENDS Integers, Sequences, SequencesExt

\* strncmp(paraName, pattern, strlen(pattern)) == 0
StubPrefixMatch(pat, name) ==
    IF pat.dot THEN IsStrictPrefix(pat.segs, name) ELSE IsPrefix(pat.segs, name)

Pat(segs, dot) == [segs |-> segs, dot |-> dot]

\* selinuxLabels[][2]: parameter prefix -> label.
SelinuxLabels ==
    << <<Pat(<<"test", "permission", "read">>, FALSE), "test.persmission.read">>,
       <<Pat(<<"test", "permission", "write">>, FALSE), "test.persmission.write">>,
       <<Pat(<<"test", "permission", "watch">>, FALSE), "test.persmission.watch">> >>

\* forbitWriteParamName[] (the third entry is spelt "persmission").
ForbitWriteParamName ==
    { Pat(<<"ohos", "servicectrl">>, TRUE),
      Pat(<<"test", "permission", "read">>, FALSE),
      Pat(<<"test", "persmission", "watch">>, FALSE) }

\* forbitReadParamName[]
ForbitReadParamName == { Pat(<<"ohos", "servicectrl">>, TRUE) }

\* TestSetParamCheck(paraName, uc): 1 for a forbidden prefix, otherwise the
\* result the test last set with SetTestPermissionResult.
TestSetParamCheck(name, testResult) ==
    IF \E p \in ForbitWriteParamName : StubPrefixMatch(p, name) THEN 1 ELSE testResult

\* TestReadParamCheck(paraName)
TestReadParamCheck(name, testResult) ==
    IF \E p \in ForbitReadParamName : StubPrefixMatch(p, name) THEN 1 ELSE testResult

\* TestGetParamLabel(paraName): the label of the first matching prefix, else
\* selinuxLabels[TestGenHashCode(name) % 3]; hashIndex[name] is that index.
TestGetParamLabel(name, hashIndex) ==
    LET hits == {i \in 1..Len(SelinuxLabels) : StubPrefixMatch(SelinuxLabels[i][1], name)}
    IN  IF hits # {} THEN SelinuxLabels[Min(hits)][2]
        ELSE SelinuxLabels[hashIndex[name] + 1][2]

\* TestGetParamList(): the label contexts of the list it builds.
TestGetParamList == {SelinuxLabels[i][2] : i \in 1..Len(SelinuxLabels)}
=============================================================================
