--------------------------- MODULE MCParamSelinux ---------------------------
(* Instantiation of ParamSelinux for TLC: the names the unit tests check,  *)
(* a small checker-library policy, and the library variants of a device.  *)
EXTENDS ParamSelinux

N_ctrl  == <<"ohos", "servicectrl", "a">>
N_read  == <<"test", "permission", "read">>
N_write == <<"test", "permission", "write">>
N_other == <<"test", "other">>

MCNames == {N_ctrl, N_read, N_write, N_other}

\* TestGenHashCode(name) % 3 of the names that fall through to the hash.
MCStubHash == [n \in MCNames |-> IF n = N_other THEN 0 ELSE 2]

\* A library policy: ohos.servicectrl.* is unreadable and unwritable and has
\* no label of its own; test.permission.read is read-only; the others are open.
MCPolicyWrite == [n \in MCNames |-> IF n \in {N_ctrl, N_read} THEN 1 ELSE 0]
MCPolicyRead  == [n \in MCNames |-> IF n = N_ctrl THEN 1 ELSE 0]
MCPolicyLabel == [n \in MCNames |->
                    IF n = N_ctrl THEN NULL
                    ELSE IF n = N_other THEN "u:object_r:other_param:s0"
                    ELSE "u:object_r:test_param:s0"]
MCPolicyList == {"u:object_r:test_param:s0", "u:object_r:other_param:s0"}

AllSymbols == {"SetParamCheck", "GetParamList", "GetParamLabel",
               "InitParamSelinux", "ReadParamCheck", "DestroyParamList"}
\* A complete library, one without the optional ReadParamCheck, and none.
MCCompleteExports == {AllSymbols, AllSymbols \ {"ReadParamCheck"}, {}}
\* Libraries that export SetParamCheck but miss a later required entry point.
MCPartialExports == {AllSymbols \ {"GetParamList"}, AllSymbols \ {"InitParamSelinux"}}\* The complete library and the partial ones.
MCFailOpenExports == {AllSymbols} \cup MCPartialExports
=============================================================================
