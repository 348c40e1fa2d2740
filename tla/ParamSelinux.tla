---------------------------- MODULE ParamSelinux ----------------------------
(***************************************************************************)
(* The SELinux permission adapter of the parameter service                 *)
(* (src/services/param/adapter/param_selinux.c) as seen by one process:    *)
(* registration of the security ops, lazy loading of the checker library   *)
(* (dlopen + dlsym of each entry point, in order), opening the label       *)
(* workspaces, and the read and write permission checks.  testBuild marks *)
(* the STARTUP_INIT_TEST build, where the library is never loaded          *)
(* and the unit tests install the stub backend of ParamStub instead.       *)
(***************************************************************************)
EXTENDS Integers, Sequences, FiniteSets, ParamStub

CONSTANTS
    Names,          \* parameter names (segment sequences) that are checked
    Builds,         \* builds to check: TRUE is the STARTUP_INIT_TEST build
    PolicyWrite,    \* checker library: SetParamCheck verdict per name
    PolicyRead,     \* checker library: ReadParamCheck verdict per name
    PolicyLabel,    \* checker library: GetParamLabel per name (or NULL)
    PolicyList,     \* checker library: contexts returned by GetParamList
    StubHash,       \* TestGenHashCode(name) % 3 for the stub's fallback label
    ExportChoices,  \* sets of entry points a checker library may export
    WsFailures,     \* whether creating a workspace may fail (AddWorkSpace)
    NULL

\* WORKSPACE_NAME_DEF_SELINUX
DefLabel == "u:object_r:default_param:s0"

\* Entry points resolved by InitLocalSecurityLabel, in the order it resolves
\* them; ReadParamCheck is optional.
SymOrder == <<"SetParamCheck", "GetParamList", "GetParamLabel",
              "InitParamSelinux", "ReadParamCheck", "DestroyParamList">>
Symbols == {SymOrder[i] : i \in 1..Len(SymOrder)}
Optional == {"ReadParamCheck"}

\* The entry points TestSetSelinuxOps installs through SetSelinuxOps.
StubSymbols == {"SetParamCheck", "GetParamLabel", "ReadParamCheck",
                "GetParamList", "DestroyParamList"}

PERMIT == "permit"
FORBID == "forbid"
NoCheck == [name |-> NULL, mode |-> "none", result |-> NULL, verdict |-> NULL]

VARIABLES
    testBuild,    \* the STARTUP_INIT_TEST / LOCAL_TEST build (fixed)
    updater,      \* InUpdaterMode() == 1 (fixed for the process)
    isInit,       \* the process is init (the parameter server)
    libPresent,   \* the checker library can be opened (fixed)
    exported,     \* entry points the library exports (fixed)
    handle,       \* g_selinuxSpace.selinuxHandle != NULL
    resolved,     \* entry points of g_selinuxSpace that are non-NULL
    policyInit,   \* g_selinuxSpace.initParamSelinux() has run
    ops,          \* "none" | "selinux" | "updater": securityCheckParamPermission
    getLabel,     \* ops->securityGetLabel is set
    loaded,       \* the label workspaces have been opened once
    files,        \* workspace files that exist (created by init)
    workspaces,   \* workspaces mapped in this process
    testResult,   \* g_testPermissionResult of the stub
    last          \* the last permission check and its outcome

env == <<testBuild, updater, isInit, libPresent, exported>>
vars == <<testBuild, updater, isInit, libPresent, exported, handle, resolved, policyInit,
          ops, getLabel, loaded, files, workspaces, testResult, last>>

Labels == {PolicyLabel[n] : n \in Names} \cup PolicyList \cup TestGetParamList
              \cup {DefLabel}

Init ==
    /\ testBuild \in Builds
    /\ updater \in (IF testBuild THEN {FALSE} ELSE BOOLEAN)
    /\ isInit \in BOOLEAN
    /\ libPresent \in (IF testBuild THEN {FALSE} ELSE BOOLEAN)
    /\ exported \in (IF testBuild THEN {{}} ELSE ExportChoices)
    /\ handle = FALSE
    /\ resolved = {}
    /\ policyInit = FALSE
    /\ ops = "none"
    /\ getLabel = FALSE
    /\ loaded = FALSE
    \* A client maps files init created earlier, which may be any of them.
    /\ files \in (IF isInit THEN {{}} ELSE SUBSET Labels)
    /\ workspaces = {}
    /\ testResult = 0
    /\ last = NoCheck

(***************************************************************************)
(* Backend entry points: the stub in the test build, the library otherwise *)
(***************************************************************************)
SetParamCheck(n) == IF testBuild THEN TestSetParamCheck(n, testResult) ELSE PolicyWrite[n]
ReadParamCheck(n) == IF testBuild THEN TestReadParamCheck(n, testResult) ELSE PolicyRead[n]
GetParamLabel(n) ==
    IF testBuild THEN TestGetParamLabel(n, StubHash) ELSE PolicyLabel[n]
GetParamList == IF testBuild THEN TestGetParamList ELSE PolicyList

\* AddWorkSpace(name, readOnly, ...) of the workspace layer, as the adapter
\* sees it: an already mapped workspace succeeds; a read-only open succeeds
\* when init created the file; a creation may fail (WsFailures).
CanOpenRO(l) == l \in workspaces \/ l \in files

\* GetSelinuxContent(name)
GetSelinuxContent(n) == IF "GetParamLabel" \in resolved THEN GetParamLabel(n) ELSE DefLabel

(***************************************************************************)
(* Actions                                                                 *)
(***************************************************************************)

\* RegisterSecuritySelinuxOps(ops, isInit)
RegisterSecuritySelinuxOps ==
    /\ ops = "none"
    /\ ops' = IF updater THEN "updater" ELSE "selinux"
    /\ getLabel' = isInit
    /\ UNCHANGED <<env, handle, resolved, policyInit, loaded, files, workspaces,
                   testResult, last>>

\* TestSetSelinuxOps() / SetSelinuxOps(space): done by the unit-test set-up
\* before the parameter service registers its ops.
SetSelinuxOps ==
    /\ testBuild
    /\ ops = "none" /\ resolved = {}
    /\ resolved' = StubSymbols
    /\ UNCHANGED <<env, handle, policyInit, ops, getLabel, loaded, files,
                   workspaces, testResult, last>>

\* The first required entry point InitLocalSecurityLabel fails to resolve.
FirstMissing ==
    LET miss == {i \in 1..Len(SymOrder) :
                   SymOrder[i] \notin exported /\ SymOrder[i] \notin Optional}
    IN  IF miss = {} THEN Len(SymOrder) + 1 ELSE Min(miss)

\* Mutant: every entry point before the first missing one is taken as
\* resolved, the optional ReadParamCheck included.
InitLocalSecurityLabel_NoNullCheck ==
    /\ ops # "none"
    /\ ~testBuild
    /\ handle \/ libPresent
    /\ handle' = TRUE
    /\ resolved' = resolved \cup {SymOrder[i] : i \in 1..(FirstMissing - 1)}
    /\ policyInit' = (policyInit \/ FirstMissing > Len(SymOrder))
    /\ UNCHANGED <<env, ops, getLabel, loaded, files, workspaces, testResult, last>>

\* InitLocalSecurityLabel(security, isInit): in the test build it only fills
\* in the credentials.  Otherwise dlopen once (a failure returns 0), then
\* dlsym every entry point still NULL in order, returning -1 at the first
\* required one missing, and call initParamSelinux() when all are there.
InitLocalSecurityLabel ==
    /\ ops # "none"
    /\ ~testBuild
    /\ handle \/ libPresent
    /\ handle' = TRUE
    /\ resolved' = resolved \cup {SymOrder[i] : i \in {j \in 1..(FirstMissing - 1) :
                                                       SymOrder[j] \in exported}}
    /\ policyInit' = (policyInit \/ FirstMissing > Len(SymOrder))
    /\ UNCHANGED <<env, ops, getLabel, loaded, files, workspaces, testResult, last>>

\* SelinuxGetAllLabel(readOnly): for every context of GetParamList() open
\* (readOnly = 1, OpenPermissionWorkSpace of a client) or create and label
\* (readOnly = 0, SelinuxGetParamSecurityLabel of init) its workspace,
\* skipping those that fail; then the default workspace.
SelinuxGetAllLabel(readOnly) ==
    /\ ops # "none" /\ ~loaded
    /\ IF readOnly = 0 THEN getLabel ELSE ~isInit
    /\ loaded' = TRUE
    /\ IF "GetParamList" \notin resolved
         THEN UNCHANGED <<files, workspaces>>
         ELSE \E failed \in (IF WsFailures /\ readOnly = 0
                               THEN SUBSET (GetParamList \cup {DefLabel}) ELSE {{}}) :
                LET opened == IF readOnly = 0
                                THEN (GetParamList \cup {DefLabel}) \ failed
                                ELSE {l \in GetParamList \cup {DefLabel} : CanOpenRO(l)}
                IN  /\ workspaces' = workspaces \cup opened
                    /\ files' = IF readOnly = 0 THEN files \cup opened ELSE files
    /\ UNCHANGED <<env, handle, resolved, policyInit, ops, getLabel, testResult, last>>

\* SelinuxReadParamCheck(name): the readParamCheck verdict is computed, then
\* ret is overwritten by opening the name's label workspace read-only.
SelinuxReadParamCheck(n) ==
    LET label == GetSelinuxContent(n)
        target == IF label = NULL THEN DefLabel ELSE label
        ok == CanOpenRO(target)
    IN  /\ workspaces' = IF ok THEN workspaces \cup {target} ELSE workspaces
        /\ last' = [name |-> n, mode |-> "read", result |-> IF ok THEN PERMIT ELSE FORBID,
                    verdict |-> IF "ReadParamCheck" \in resolved
                                  THEN ReadParamCheck(n) ELSE NULL]

\* securityCheckParamPermission: UpdaterCheckParamPermission permits all;
\* SelinuxCheckParamPermission forbids while setParamCheck is NULL, asks
\* setParamCheck for a write, and for a read calls readParamCheck directly in
\* the test build and SelinuxReadParamCheck otherwise.
CheckParamPermission(n, mode) ==
    /\ ops # "none"
    /\ \/ /\ ops = "updater"
          /\ last' = [name |-> n, mode |-> mode, result |-> PERMIT, verdict |-> NULL]
          /\ UNCHANGED workspaces
       \/ /\ ops = "selinux" /\ "SetParamCheck" \notin resolved
          /\ last' = [name |-> n, mode |-> mode, result |-> FORBID, verdict |-> NULL]
          /\ UNCHANGED workspaces
       \/ /\ ops = "selinux" /\ "SetParamCheck" \in resolved
          /\ \/ /\ mode = "write"
                /\ last' = [name |-> n, mode |-> mode, verdict |-> SetParamCheck(n),
                            result |-> IF SetParamCheck(n) = 0 THEN PERMIT ELSE FORBID]
                /\ UNCHANGED workspaces
             \/ /\ mode = "read" /\ testBuild
                /\ last' = [name |-> n, mode |-> mode, verdict |-> ReadParamCheck(n),
                            result |-> IF ReadParamCheck(n) = 0 THEN PERMIT ELSE FORBID]
                /\ UNCHANGED workspaces
             \/ /\ mode = "read" /\ ~testBuild
                /\ SelinuxReadParamCheck(n)
    /\ UNCHANGED <<env, handle, resolved, policyInit, ops, getLabel, loaded, files,
                   testResult>>

\* SetTestPermissionResult(result) called by a unit test.
SetTestPermissionResult(r) ==
    /\ testBuild
    /\ testResult' = r
    /\ UNCHANGED <<env, handle, resolved, policyInit, ops, getLabel, loaded, files,
                   workspaces, last>>

Next ==
    \/ RegisterSecuritySelinuxOps
    \/ SetSelinuxOps
    \/ InitLocalSecurityLabel
    \/ \E ro \in {0, 1} : SelinuxGetAllLabel(ro)
    \/ \E n \in Names, mode \in {"read", "write"} : CheckParamPermission(n, mode)
    \/ \E r \in {0, 1} : SetTestPermissionResult(r)

Spec == Init /\ [][Next]_vars

(***************************************************************************)
(* Properties                                                              *)
(***************************************************************************)

TypeOK ==
    /\ testBuild \in BOOLEAN /\ updater \in BOOLEAN
    /\ isInit \in BOOLEAN /\ libPresent \in BOOLEAN
    /\ exported \subseteq Symbols
    \* dlsym only yields entry points the library exports
    /\ resolved \subseteq (IF testBuild THEN StubSymbols ELSE exported)
    /\ handle \in BOOLEAN /\ policyInit \in BOOLEAN /\ loaded \in BOOLEAN
    /\ ops \in {"none", "selinux", "updater"} /\ getLabel \in BOOLEAN
    /\ files \subseteq Labels /\ workspaces \subseteq Labels
    /\ testResult \in {0, 1}
    /\ last.mode \in {"none", "read", "write"}

\* Every PERMIT, read or write, is given in updater mode or on the verdict 0
\* of a checker that is fully set up (initParamSelinux has run, or the test
\* stub is installed): SelinuxCheckParamPermission fails closed whatever
\* InitLocalSecurityLabel managed to load and whatever SelinuxReadParamCheck
\* does after asking the policy.
PermitNeedsPolicy ==
    last.result = PERMIT =>
        \/ updater
        \/ last.verdict = 0 /\ (policyInit \/ testBuild)
=============================================================================
