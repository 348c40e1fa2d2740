-------------------------- MODULE WatcherRegistry ---------------------------
(***************************************************************************)
(* What the watcher service promises its callers (spec.md, sections 3 and  *)
(* 6): AddWatcher(keyPrefix) registers one new watcher under a fresh id,   *)
(* larger than every id handed out before; DelWatcher(keyPrefix, id)       *)
(* removes that watcher.  Each call takes effect at one instant between    *)
(* its invocation and its return, and nothing else changes the set of      *)
(* registered watchers.  AddWatcher takes effect as it returns; DelWatcher *)
(* takes effect and then still tears down an emptied group before it       *)
(* returns.                                                                *)
(***************************************************************************)
EXTENDS Naturals

CONSTANTS
    Clients,      \* callers (the IPC threads)
    KeyPrefixes,  \* prefix patterns
    Ids           \* watcher ids

VARIABLES
    subs,    \* registered watchers, as <<id, keyPrefix>> pairs
    lastId,  \* the largest id handed out by a completed AddWatcher (0: none)
    req      \* per caller: Idle or the call in progress

vars == <<subs, lastId, req>>

Idle == [op |-> "idle"]

Requests ==
    {Idle} \cup [op : {"add"}, prefix : KeyPrefixes]
             \cup [op : {"del"}, id : Ids, done : BOOLEAN]

TypeOK ==
    /\ subs \subseteq Ids \X KeyPrefixes
    /\ lastId \in {0} \cup Ids
    /\ req \in [Clients -> Requests]

Init ==
    /\ subs = {}
    /\ lastId = 0
    /\ req = [c \in Clients |-> Idle]

InvokeAdd(c, p) ==
    /\ req[c] = Idle
    /\ req' = [req EXCEPT ![c] = [op |-> "add", prefix |-> p]]
    /\ UNCHANGED <<subs, lastId>>

\* The new watcher is registered and its id returned in one instant.
AddWatcher(c) ==
    /\ req[c].op = "add"
    /\ \E w \in Ids :
          /\ w > lastId
          /\ subs' = subs \cup {<<w, req[c].prefix>>}
          /\ lastId' = w
    /\ req' = [req EXCEPT ![c] = Idle]

InvokeDel(c, w) ==
    /\ req[c] = Idle
    /\ req' = [req EXCEPT ![c] = [op |-> "del", id |-> w, done |-> FALSE]]
    /\ UNCHANGED <<subs, lastId>>

DelWatcher(c) ==
    /\ req[c].op = "del" /\ ~req[c].done
    /\ subs' = {s \in subs : s[1] # req[c].id}
    /\ req' = [req EXCEPT ![c].done = TRUE]
    /\ UNCHANGED lastId

ReturnDel(c) ==
    /\ req[c].op = "del" /\ req[c].done
    /\ req' = [req EXCEPT ![c] = Idle]
    /\ UNCHANGED <<subs, lastId>>

Next ==
    \E c \in Clients :
        \/ \E p \in KeyPrefixes : InvokeAdd(c, p)
        \/ AddWatcher(c)
        \/ \E w \in Ids : InvokeDel(c, w)
        \/ DelWatcher(c)
        \/ ReturnDel(c)

Spec == Init /\ [][Next]_vars
=============================================================================
