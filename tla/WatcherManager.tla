--------------------------- MODULE WatcherManager ---------------------------
(***************************************************************************)
(* The parameter watcher service (WatcherManager, watcher_manager.cpp) and *)
(* the parameter server it talks to over a local stream socket.            *)
(*                                                                         *)
(* Actors:                                                                 *)
(*  - client threads (the IPC threads of the system ability) executing     *)
(*    AddWatcher and DelWatcher, one program counter each;                 *)
(*  - receive-loop threads running RunLoop (started by StartLoop);         *)
(*  - the OnStop caller running StopLoop;                                  *)
(*  - the parameter server (init), whose side of the protocol is not under *)
(*    src/ and is modelled from the spec: it keeps the ADD_WATCHER         *)
(*    registrations of each connection and, on every parameter write,     *)
(*    sends NOTIFY_PARAM with the group id to each matching registration.  *)
(*                                                                         *)
(* Sections under one lock (watcherMutex_ or mutex_) are single steps; the *)
(* unlocked reads and writes between them (watcherId_++, ++groupId_,       *)
(* group->Emptry(), group->AddWatcher, send on serverFd_) are steps of     *)
(* their own.  Objects held through shared_ptr (groups, watchers) live in  *)
(* object stores indexed by creation order, so that a group that has left *)
(* the maps but is still held by a thread keeps existing.                  *)
(***************************************************************************)
EXTENDS Integers, Sequences, FiniteSets, SequencesExt, ParamFilter

CONSTANTS
    Clients,      \* IPC threads that call AddWatcher / DelWatcher
    KeyPrefixes,  \* keyPrefix arguments (C strings as sequences)
    Names,        \* parameter names (C strings as sequences)
    Values,       \* parameter values
    InitValue,    \* the value every parameter has at start
    NoValue,      \* model value: a watcher has not been told of a name
    MaxAdds,      \* bound: AddWatcher calls in a behaviour
    MaxWrites,    \* bound: parameter writes in a behaviour
    MaxConns,     \* bound: connections opened to the server
    Failures,     \* TRUE: connects may fail and the server may drop a connection
    Coalesce,     \* TRUE: one recv on the stream may return several messages
    EnableStop    \* TRUE: OnStop / StopLoop may run

ASSUME /\ MaxAdds \in Nat \ {0} /\ MaxWrites \in Nat /\ MaxConns \in Nat \ {0}
       /\ InitValue \in Values /\ NoValue \notin Values
       /\ Failures \in BOOLEAN /\ Coalesce \in BOOLEAN /\ EnableStop \in BOOLEAN

INVALID_SOCKET == -1
Ids     == 1..MaxAdds       \* watcher ids and group ids both start at 1
Conns   == 1..MaxConns
Loops   == 1..MaxAdds       \* each AddWatcher starts at most one thread
Errnos  == {"NONE", "EAGAIN", "EBADF", "ECONNREFUSED"}
MsgTypes == {"ADD_WATCHER", "DEL_WATCHER", "NOTIFY_PARAM"}
Msgs    == [type : MsgTypes, gid : Ids, key : KeyPrefixes \cup Names,
            value : Values \cup {NoValue}]

VARIABLES
    params,         \* the parameter store: name -> value
    writes,         \* number of parameter writes so far
    watcherId,      \* WatcherManager::watcherId_
    groupId,        \* WatcherManager::groupId_
    groupMap,       \* groupMap_: keyPrefix -> group id (0: absent)
    watcherGroups,  \* watcherGroups_: group id -> group object (0: absent)
    groupObjs,      \* WatcherGroup objects [gid, prefix, watchers]
    watcherObjs,    \* ParamWatcher objects [id, prefix, view]
    subscribed,     \* watcher objects whose AddWatcher returned, not deleted
    adds,           \* AddWatcher calls so far
    cpc, cPrefix, cTmp, cObj, cGrp, cDelId,   \* client threads
    pRecvThread,    \* pRecvThread_ (0: nullptr)
    loopPc, loopFd, loopErrno,                \* receive-loop threads
    stop,           \* stop_
    stopPc,         \* the StopLoop caller
    serverFd,       \* serverFd_
    connState,      \* connection -> "none" | "open" | "peer_closed" | "closed"
    toServer,       \* bytes queued client -> server, per connection
    toClient,       \* bytes queued server -> client, per connection
    regs            \* server side: [conn, gid, prefix] registrations

store   == <<params, writes>>
mgr     == <<watcherId, groupId, groupMap, watcherGroups, groupObjs,
             watcherObjs, subscribed, adds>>
client  == <<cpc, cPrefix, cTmp, cObj, cGrp, cDelId>>
loop    == <<pRecvThread, loopPc, loopFd, loopErrno, stop, stopPc>>
sock    == <<serverFd, connState, toServer, toClient, regs>>
vars    == <<store, mgr, client, loop, sock>>

-----------------------------------------------------------------------------
(* std::map<uint32_t, ParamWatcherPtr> as a set of <<id, object>> pairs.   *)
MapPut(m, k, v) == {e \in m : e[1] # k} \cup {<<k, v>>}
MapDel(m, k)    == {e \in m : e[1] # k}

\* GetWatcherGroup(keyPrefix), under watcherMutex_: groupMap_ gives the id,
\* watcherGroups_ the group; 0 (nullptr) when either misses.
GetWatcherGroup(p) ==
    IF groupMap[p] # 0 THEN watcherGroups[groupMap[p]] ELSE 0

Msg(t, g, k, v) == [type |-> t, gid |-> g, key |-> k, value |-> v]

\* Connections are numbered in the order they are opened.
NextConn == Cardinality({k \in Conns : connState[k] # "none"}) + 1

(***************************************************************************)
(* GetServerFd(retry), under mutex_: with retry, close the current socket; *)
(* return the open socket if there is one, otherwise try up to maxRetry    *)
(* times to connect.  The ten attempts are one outcome: a new connection,  *)
(* or (when Failures) every attempt refused and serverFd_ left invalid.    *)
(***************************************************************************)
GetServerFd(retry) ==
    LET closeOld == retry /\ serverFd # INVALID_SOCKET
        cs       == IF closeOld THEN [connState EXCEPT ![serverFd] = "closed"]
                    ELSE connState
        fd       == IF closeOld THEN INVALID_SOCKET ELSE serverFd
    IN  IF fd # INVALID_SOCKET
        THEN /\ serverFd' = fd
             /\ connState' = cs
        ELSE \/ /\ NextConn <= MaxConns
                /\ serverFd' = NextConn
                /\ connState' = [cs EXCEPT ![NextConn] = "open"]
             \/ /\ Failures
                /\ serverFd' = INVALID_SOCKET
                /\ connState' = cs

\* send(serverFd_, ...): lost when the socket is invalid or the peer is gone.
SendOnServerFd(m) ==
    IF serverFd # INVALID_SOCKET /\ connState[serverFd] = "open"
    THEN toServer' = [toServer EXCEPT ![serverFd] = Append(@, m)]
    ELSE UNCHANGED toServer

-----------------------------------------------------------------------------
(***************************************************************************)
(* AddWatcher(keyPrefix, watcher)                                          *)
(***************************************************************************)

\* watcherId_++ : the load.
AddWatcherCall(c, p) ==
    /\ cpc[c] = "idle"
    /\ adds < MaxAdds
    /\ adds' = adds + 1
    /\ cpc' = [cpc EXCEPT ![c] = "add_store"]
    /\ cPrefix' = [cPrefix EXCEPT ![c] = p]
    /\ cTmp' = [cTmp EXCEPT ![c] = watcherId]
    /\ UNCHANGED <<store, watcherId, groupId, groupMap, watcherGroups,
                   groupObjs, watcherObjs, subscribed, cObj, cGrp, cDelId,
                   loop, sock>>

\* watcherId_++ : the store.
AddWatcherStore(c) ==
    /\ cpc[c] = "add_store"
    /\ watcherId' = cTmp[c] + 1
    /\ cpc' = [cpc EXCEPT ![c] = "add_make"]
    /\ UNCHANGED <<store, groupId, groupMap, watcherGroups, groupObjs,
                   watcherObjs, subscribed, adds, cPrefix, cTmp, cObj, cGrp,
                   cDelId, loop, sock>>

\* make_shared<ParamWatcher>(watcherId_, ...) re-reads watcherId_; then
\* GetWatcherGroup(keyPrefix) under watcherMutex_.
AddWatcherLookup(c) ==
    LET p   == cPrefix[c]
        obj == GetWatcherGroup(p)
    IN  /\ cpc[c] = "add_make"
        /\ watcherObjs' = Append(watcherObjs,
               [id |-> watcherId, prefix |-> p, view |-> [n \in Names |-> NoValue]])
        /\ cObj' = [cObj EXCEPT ![c] = Len(watcherObjs) + 1]
        /\ cGrp' = [cGrp EXCEPT ![c] = obj]
        /\ cpc' = [cpc EXCEPT ![c] = IF obj = 0 THEN "add_gload" ELSE "add_group"]
        /\ UNCHANGED <<store, watcherId, groupId, groupMap, watcherGroups,
                       groupObjs, subscribed, adds, cPrefix, cTmp, cDelId,
                       loop, sock>>

\* ++groupId_ : the load.
AddGroupIdLoad(c) ==
    /\ cpc[c] = "add_gload"
    /\ cTmp' = [cTmp EXCEPT ![c] = groupId]
    /\ cpc' = [cpc EXCEPT ![c] = "add_gstore"]
    /\ UNCHANGED <<store, mgr, cPrefix, cObj, cGrp, cDelId, loop, sock>>

\* Mutant: groupId_++ instead of ++groupId_, so the first group gets id 0.
AddGroupIdStore_PostIncrement(c) ==
    /\ cpc[c] = "add_gstore"
    /\ groupId' = cTmp[c] + 1
    /\ groupObjs' = Append(groupObjs,
           [gid |-> cTmp[c], prefix |-> cPrefix[c], watchers |-> {}])
    /\ cGrp' = [cGrp EXCEPT ![c] = Len(groupObjs) + 1]
    /\ cpc' = [cpc EXCEPT ![c] = "add_group"]
    /\ UNCHANGED <<store, watcherId, groupMap, watcherGroups, watcherObjs,
                   subscribed, adds, cPrefix, cTmp, cObj, cDelId, loop, sock>>

\* ++groupId_ : the store, and make_shared<WatcherGroup>(id, keyPrefix).
AddGroupIdStore(c) ==
    /\ cpc[c] = "add_gstore"
    /\ groupId' = cTmp[c] + 1
    /\ groupObjs' = Append(groupObjs,
           [gid |-> cTmp[c] + 1, prefix |-> cPrefix[c], watchers |-> {}])
    /\ cGrp' = [cGrp EXCEPT ![c] = Len(groupObjs) + 1]
    /\ cpc' = [cpc EXCEPT ![c] = "add_group"]
    /\ UNCHANGED <<store, watcherId, groupMap, watcherGroups, watcherObjs,
                   subscribed, adds, cPrefix, cTmp, cObj, cDelId, loop, sock>>

\* AddWatcherGroup(keyPrefix, group), under watcherMutex_.
AddWatcherGroup(c) ==
    LET gid == groupObjs[cGrp[c]].gid
    IN  /\ cpc[c] = "add_group"
        /\ groupMap' = [groupMap EXCEPT ![cPrefix[c]] = gid]
        /\ watcherGroups' = IF watcherGroups[gid] # 0 THEN watcherGroups
                            ELSE [watcherGroups EXCEPT ![gid] = cGrp[c]]
        /\ cpc' = [cpc EXCEPT ![c] = "add_empty"]
        /\ UNCHANGED <<store, watcherId, groupId, groupObjs, watcherObjs,
                       subscribed, adds, cPrefix, cTmp, cObj, cGrp, cDelId,
                       loop, sock>>

\* if (group->Emptry()), read without a lock.
AddCheckEmpty(c) ==
    /\ cpc[c] = "add_empty"
    /\ cpc' = [cpc EXCEPT ![c] =
                 IF groupObjs[cGrp[c]].watchers = {} THEN "add_start" ELSE "add_local"]
    /\ UNCHANGED <<store, mgr, cPrefix, cTmp, cObj, cGrp, cDelId, loop, sock>>

\* StartLoop(): if (pRecvThread_ == nullptr) ...
AddStartLoop(c) ==
    /\ cpc[c] = "add_start"
    /\ cpc' = [cpc EXCEPT ![c] = IF pRecvThread = 0 THEN "add_spawn" ELSE "add_getfd"]
    /\ UNCHANGED <<store, mgr, cPrefix, cTmp, cObj, cGrp, cDelId, loop, sock>>

\* ... pRecvThread_ = new std::thread(&WatcherManager::RunLoop, this).
AddSpawnLoop(c) ==
    \E t \in Loops :
        /\ cpc[c] = "add_spawn"
        /\ loopPc[t] = "none"
        /\ \A u \in Loops : u < t => loopPc[u] # "none"
        /\ pRecvThread' = t
        /\ loopPc' = [loopPc EXCEPT ![t] = "top"]
        /\ cpc' = [cpc EXCEPT ![c] = "add_getfd"]
        /\ UNCHANGED <<store, mgr, cPrefix, cTmp, cObj, cGrp, cDelId,
                       loopFd, loopErrno, stop, stopPc, sock>>

\* SendMessage(group, MSG_ADD_WATCHER): GetServerFd(false) ...
AddGetFd(c) ==
    /\ cpc[c] = "add_getfd"
    /\ GetServerFd(FALSE)
    /\ cpc' = [cpc EXCEPT ![c] = "add_send"]
    /\ UNCHANGED <<store, mgr, cPrefix, cTmp, cObj, cGrp, cDelId, loop,
                   toServer, toClient, regs>>

\* ... send(serverFd_, request), serverFd_ re-read outside mutex_.
AddSend(c) ==
    LET g == groupObjs[cGrp[c]]
    IN  /\ cpc[c] = "add_send"
        /\ SendOnServerFd(Msg("ADD_WATCHER", g.gid, g.prefix, NoValue))
        /\ cpc' = [cpc EXCEPT ![c] = "add_local"]
        /\ UNCHANGED <<store, mgr, cPrefix, cTmp, cObj, cGrp, cDelId, loop,
                       serverFd, connState, toClient, regs>>

\* Mutant: the replay sends every parameter, without FilterParam.
AddLocalChange_Unfiltered(c) ==
    LET o == cObj[c]
    IN  /\ cpc[c] = "add_local"
        /\ watcherObjs' = [watcherObjs EXCEPT ![o].view = [n \in Names |-> params[n]]]
        /\ cpc' = [cpc EXCEPT ![c] = "add_insert"]
        /\ UNCHANGED <<store, watcherId, groupId, groupMap, watcherGroups,
                       groupObjs, subscribed, adds, cPrefix, cTmp, cObj, cGrp,
                       cDelId, loop, sock>>

\* SendLocalChange(keyPrefix, watcher): replay every current parameter that
\* passes FilterParam to the new watcher.
AddLocalChange(c) ==
    LET o == cObj[c]
    IN  /\ cpc[c] = "add_local"
        /\ watcherObjs' = [watcherObjs EXCEPT ![o].view =
               [n \in Names |-> IF FilterParam(n, cPrefix[c]) THEN params[n] ELSE @[n]]]
        /\ cpc' = [cpc EXCEPT ![c] = "add_insert"]
        /\ UNCHANGED <<store, watcherId, groupId, groupMap, watcherGroups,
                       groupObjs, subscribed, adds, cPrefix, cTmp, cObj, cGrp,
                       cDelId, loop, sock>>

\* group->AddWatcher(paramWather); return its id.
AddInsert(c) ==
    LET o == cObj[c]
    IN  /\ cpc[c] = "add_insert"
        /\ groupObjs' = [groupObjs EXCEPT ![cGrp[c]].watchers =
                            MapPut(@, watcherObjs[o].id, o)]
        /\ subscribed' = subscribed \cup {o}
        /\ cpc' = [cpc EXCEPT ![c] = "idle"]
        /\ UNCHANGED <<store, watcherId, groupId, groupMap, watcherGroups,
                       watcherObjs, adds, cPrefix, cTmp, cObj, cGrp, cDelId,
                       loop, sock>>

-----------------------------------------------------------------------------
(***************************************************************************)
(* DelWatcher(keyPrefix, watcherId), called with the prefix and id that    *)
(* AddWatcher returned for a subscribed watcher.                           *)
(***************************************************************************)

\* GetWatcherGroup(keyPrefix) under watcherMutex_; no group: return 0.
DelWatcherCall(c, o) ==
    LET p   == watcherObjs[o].prefix
        obj == GetWatcherGroup(p)
    IN  /\ cpc[c] = "idle"
        /\ o \in subscribed
        /\ subscribed' = subscribed \ {o}
        /\ cPrefix' = [cPrefix EXCEPT ![c] = p]
        /\ cDelId' = [cDelId EXCEPT ![c] = watcherObjs[o].id]
        /\ cGrp' = [cGrp EXCEPT ![c] = obj]
        /\ cpc' = [cpc EXCEPT ![c] = IF obj = 0 THEN "idle" ELSE "del_remove"]
        /\ UNCHANGED <<store, watcherId, groupId, groupMap, watcherGroups,
                       groupObjs, watcherObjs, adds, cTmp, cObj, loop, sock>>

\* group->DelWatcher(watcherId)
DelRemove(c) ==
    /\ cpc[c] = "del_remove"
    /\ groupObjs' = [groupObjs EXCEPT ![cGrp[c]].watchers = MapDel(@, cDelId[c])]
    /\ cpc' = [cpc EXCEPT ![c] = "del_empty"]
    /\ UNCHANGED <<store, watcherId, groupId, groupMap, watcherGroups,
                   watcherObjs, subscribed, adds, cPrefix, cTmp, cObj, cGrp,
                   cDelId, loop, sock>>

\* Mutant: the group is torn down without checking that it is empty.
DelCheckEmpty_NoCheck(c) ==
    /\ cpc[c] = "del_empty"
    /\ cpc' = [cpc EXCEPT ![c] = "del_getfd"]
    /\ UNCHANGED <<store, mgr, cPrefix, cTmp, cObj, cGrp, cDelId, loop, sock>>

\* if (group->Emptry()) ... else return 0.
DelCheckEmpty(c) ==
    /\ cpc[c] = "del_empty"
    /\ cpc' = [cpc EXCEPT ![c] =
                 IF groupObjs[cGrp[c]].watchers = {} THEN "del_getfd" ELSE "idle"]
    /\ UNCHANGED <<store, mgr, cPrefix, cTmp, cObj, cGrp, cDelId, loop, sock>>

\* SendMessage(group, MSG_DEL_WATCHER): GetServerFd(false) ...
DelGetFd(c) ==
    /\ cpc[c] = "del_getfd"
    /\ GetServerFd(FALSE)
    /\ cpc' = [cpc EXCEPT ![c] = "del_send"]
    /\ UNCHANGED <<store, mgr, cPrefix, cTmp, cObj, cGrp, cDelId, loop,
                   toServer, toClient, regs>>

\* ... send(serverFd_, request).
DelSend(c) ==
    LET g == groupObjs[cGrp[c]]
    IN  /\ cpc[c] = "del_send"
        /\ SendOnServerFd(Msg("DEL_WATCHER", g.gid, g.prefix, NoValue))
        /\ cpc' = [cpc EXCEPT ![c] = "del_group"]
        /\ UNCHANGED <<store, mgr, cPrefix, cTmp, cObj, cGrp, cDelId, loop,
                       serverFd, connState, toClient, regs>>

\* Mutant: watcherGroups_.erase is forgotten; only groupMap_ is cleared.
DelWatcherGroup_KeepId(c) ==
    LET g == groupObjs[cGrp[c]]
    IN  /\ cpc[c] = "del_group"
        /\ groupMap' = [groupMap EXCEPT ![g.prefix] = 0]
        /\ cpc' = [cpc EXCEPT ![c] = "idle"]
        /\ UNCHANGED <<store, watcherId, groupId, groupObjs, watcherObjs,
                       watcherGroups, subscribed, adds, cPrefix, cTmp, cObj,
                       cGrp, cDelId, loop, sock>>

\* DelWatcherGroup(group), under watcherMutex_: both erasures are by key.
DelWatcherGroup(c) ==
    LET g == groupObjs[cGrp[c]]
    IN  /\ cpc[c] = "del_group"
        /\ groupMap' = [groupMap EXCEPT ![g.prefix] = 0]
        /\ watcherGroups' = [watcherGroups EXCEPT ![g.gid] = 0]
        /\ cpc' = [cpc EXCEPT ![c] = "idle"]
        /\ UNCHANGED <<store, watcherId, groupId, groupObjs, watcherObjs,
                       subscribed, adds, cPrefix, cTmp, cObj, cGrp, cDelId,
                       loop, sock>>

-----------------------------------------------------------------------------
(***************************************************************************)
(* RunLoop(), one step per pass through the recv.                          *)
(***************************************************************************)

\* while (!stop_) { int fd = GetServerFd(false); ...
LoopTop(t) ==
    /\ loopPc[t] = "top"
    /\ \/ /\ stop
          /\ loopPc' = [loopPc EXCEPT ![t] = "exited"]
          /\ UNCHANGED <<loopFd, sock>>
       \/ /\ ~stop
          /\ GetServerFd(FALSE)
          /\ loopFd' = [loopFd EXCEPT ![t] = serverFd']
          /\ loopPc' = [loopPc EXCEPT ![t] = "recv"]
          /\ UNCHANGED <<toServer, toClient, regs>>
    /\ UNCHANGED <<store, mgr, client, pRecvThread, loopErrno, stop, stopPc>>

\* WatcherGroup::ProcessParameterChange walks watchers_: the watcher objects
\* of group object obj (0: no group) it calls.
GroupWatchers(obj) == IF obj = 0 THEN {} ELSE {e[2] : e \in groupObjs[obj].watchers}

\* ProcessWatcherMessage(m): only NOTIFY_PARAM; the group is looked up by the
\* id in the message and every watcher of it is called.
ProcessWatcherMessage(m) ==
    LET ws == GroupWatchers(watcherGroups[m.gid])
    IN  IF m.type = "NOTIFY_PARAM"
        THEN watcherObjs' = [o \in DOMAIN watcherObjs |->
                 IF o \in ws THEN [watcherObjs[o] EXCEPT !.view[m.key] = m.value]
                 ELSE watcherObjs[o]]
        ELSE UNCHANGED watcherObjs

\* recv() returned data: one message, or with Coalesce several messages of
\* the stream in one buffer, of which ProcessWatcherMessage reads the first.
\* if (stop_) break; comes before the processing.
LoopReceive(t) ==
    LET fd == loopFd[t]
    IN  /\ loopPc[t] = "recv"
        /\ fd # INVALID_SOCKET
        /\ connState[fd] \in {"open", "peer_closed"}
        /\ toClient[fd] # <<>>
        /\ \E k \in 1..Len(toClient[fd]) :
              /\ k = 1 \/ Coalesce
              /\ toClient' = [toClient EXCEPT ![fd] = SubSeq(@, k + 1, Len(@))]
              /\ IF stop
                 THEN /\ loopPc' = [loopPc EXCEPT ![t] = "exited"]
                      /\ UNCHANGED watcherObjs
                 ELSE /\ ProcessWatcherMessage(Head(toClient[fd]))
                      /\ loopPc' = [loopPc EXCEPT ![t] = "top"]
        /\ UNCHANGED <<store, watcherId, groupId, groupMap, watcherGroups,
                       groupObjs, subscribed, adds, client, pRecvThread, loopFd,
                       loopErrno, stop, stopPc, serverFd, connState, toServer, regs>>

\* recv() timed out (SO_RCVTIMEO): errno == EAGAIN, continue.
LoopTimeout(t) ==
    LET fd == loopFd[t]
    IN  /\ loopPc[t] = "recv"
        /\ fd # INVALID_SOCKET
        /\ connState[fd] = "open"
        /\ toClient[fd] = <<>>
        /\ loopErrno' = [loopErrno EXCEPT ![t] = "EAGAIN"]
        /\ loopPc' = [loopPc EXCEPT ![t] = "top"]
        /\ UNCHANGED <<store, mgr, client, pRecvThread, loopFd, stop, stopPc, sock>>

\* recv() returned <= 0 and errno is not EAGAIN: GetServerFd(true), then
\* if (stop_) break.  recv() at end of stream returns 0 and leaves errno as
\* it was; on a bad descriptor it fails with EBADF.
LoopRecvFailed(t) ==
    LET fd    == loopFd[t]
        eof   == fd # INVALID_SOCKET /\ connState[fd] = "peer_closed"
                 /\ toClient[fd] = <<>>
        badfd == IF fd = INVALID_SOCKET THEN TRUE ELSE connState[fd] = "closed"
        err   == IF badfd THEN "EBADF" ELSE loopErrno[t]
    IN  /\ loopPc[t] = "recv"
        /\ eof \/ badfd
        /\ IF err = "EAGAIN"
           THEN /\ loopErrno' = loopErrno
                /\ loopPc' = [loopPc EXCEPT ![t] = "top"]
                /\ UNCHANGED <<serverFd, connState>>
           ELSE /\ GetServerFd(TRUE)
                /\ loopErrno' = [loopErrno EXCEPT ![t] =
                       IF serverFd' = INVALID_SOCKET THEN "ECONNREFUSED" ELSE err]
                /\ loopPc' = [loopPc EXCEPT ![t] = IF stop THEN "exited" ELSE "top"]
        /\ UNCHANGED <<store, mgr, client, pRecvThread, loopFd, stop, stopPc,
                       toServer, toClient, regs>>

-----------------------------------------------------------------------------
(***************************************************************************)
(* OnStop() -> StopLoop()                                                  *)
(***************************************************************************)

\* Mutant: stop_ is never set (or its store is never seen by the loop).
StopSetFlag_NoFlag ==
    /\ EnableStop
    /\ stopPc = "idle"
    /\ stopPc' = "close"
    /\ UNCHANGED <<store, mgr, client, pRecvThread, loopPc, loopFd, loopErrno, stop, sock>>

StopSetFlag ==
    /\ EnableStop
    /\ stopPc = "idle"
    /\ stop' = TRUE
    /\ stopPc' = "close"
    /\ UNCHANGED <<store, mgr, client, pRecvThread, loopPc, loopFd, loopErrno, sock>>

\* close(serverFd_); serverFd_ = INVALID_SOCKET, under mutex_.
StopClose ==
    /\ stopPc = "close"
    /\ connState' = IF serverFd # INVALID_SOCKET
                    THEN [connState EXCEPT ![serverFd] = "closed"] ELSE connState
    /\ serverFd' = INVALID_SOCKET
    /\ stopPc' = "join"
    /\ UNCHANGED <<store, mgr, client, pRecvThread, loopPc, loopFd, loopErrno,
                   stop, toServer, toClient, regs>>

\* pRecvThread_->join(); delete; pRecvThread_ = nullptr.
StopJoin ==
    /\ stopPc = "join"
    /\ pRecvThread # 0 => loopPc[pRecvThread] = "exited"
    /\ pRecvThread' = 0
    /\ stopPc' = "done"
    /\ UNCHANGED <<store, mgr, client, loopPc, loopFd, loopErrno, stop, sock>>

-----------------------------------------------------------------------------
(***************************************************************************)
(* The parameter server (spec, section 4.5 and 6; not under src/).         *)
(***************************************************************************)

\* Receive one control message of a connection.
ServerReceive(k) ==
    /\ toServer[k] # <<>>
    /\ LET m == Head(toServer[k])
       IN  regs' = IF m.type = "ADD_WATCHER"
                   THEN regs \cup {[conn |-> k, gid |-> m.gid, prefix |-> m.key]}
                   ELSE {r \in regs : ~(r.conn = k /\ r.gid = m.gid)}
    /\ toServer' = [toServer EXCEPT ![k] = Tail(@)]
    /\ UNCHANGED <<store, mgr, client, loop, serverFd, connState, toClient>>

\* A parameter write by some process: store it and notify every matching
\* registration of every open connection.
ServerWrite(n, v) ==
    /\ writes < MaxWrites
    /\ writes' = writes + 1
    /\ params' = [params EXCEPT ![n] = v]
    /\ toClient' = [k \in Conns |->
           IF connState[k] = "open"
           THEN toClient[k] \o SetToSeq({Msg("NOTIFY_PARAM", r.gid, n, v) :
                                  r \in {r \in regs : r.conn = k /\ FilterParam(n, r.prefix)}})
           ELSE toClient[k]]
    /\ UNCHANGED <<mgr, client, loop, serverFd, connState, toServer, regs>>

\* The server ends a connection; its registrations go with it.
ServerDrop(k) ==
    /\ Failures
    /\ connState[k] = "open"
    /\ connState' = [connState EXCEPT ![k] = "peer_closed"]
    /\ regs' = {r \in regs : r.conn # k}
    /\ UNCHANGED <<store, mgr, client, loop, serverFd, toServer, toClient>>

-----------------------------------------------------------------------------
Init ==
    /\ params = [n \in Names |-> InitValue]
    /\ writes = 0
    /\ watcherId = 0
    /\ groupId = 0
    /\ groupMap = [p \in KeyPrefixes |-> 0]
    /\ watcherGroups = [g \in Ids |-> 0]
    /\ groupObjs = <<>>
    /\ watcherObjs = <<>>
    /\ subscribed = {}
    /\ adds = 0
    /\ cpc = [c \in Clients |-> "idle"]
    /\ cPrefix = [c \in Clients |-> CHOOSE p \in KeyPrefixes : TRUE]
    /\ cTmp = [c \in Clients |-> 0]
    /\ cObj = [c \in Clients |-> 0]
    /\ cGrp = [c \in Clients |-> 0]
    /\ cDelId = [c \in Clients |-> 0]
    /\ pRecvThread = 0
    /\ loopPc = [t \in Loops |-> "none"]
    /\ loopFd = [t \in Loops |-> INVALID_SOCKET]
    /\ loopErrno = [t \in Loops |-> "NONE"]
    /\ stop = FALSE
    /\ stopPc = "idle"
    /\ serverFd = INVALID_SOCKET
    /\ connState = [k \in Conns |-> "none"]
    /\ toServer = [k \in Conns |-> <<>>]
    /\ toClient = [k \in Conns |-> <<>>]
    /\ regs = {}

ClientStep(c) ==
    \/ AddWatcherStore(c) \/ AddWatcherLookup(c) \/ AddGroupIdLoad(c)
    \/ AddGroupIdStore(c) \/ AddWatcherGroup(c) \/ AddCheckEmpty(c)
    \/ AddStartLoop(c) \/ AddSpawnLoop(c) \/ AddGetFd(c) \/ AddSend(c)
    \/ AddLocalChange(c) \/ AddInsert(c)
    \/ DelRemove(c) \/ DelCheckEmpty(c) \/ DelGetFd(c) \/ DelSend(c)
    \/ DelWatcherGroup(c)

LoopStep(t) == LoopTop(t) \/ LoopReceive(t) \/ LoopTimeout(t) \/ LoopRecvFailed(t)

StopStep == StopClose \/ StopJoin

Next ==
    \/ \E c \in Clients, p \in KeyPrefixes : AddWatcherCall(c, p)
    \/ \E c \in Clients, o \in DOMAIN watcherObjs : DelWatcherCall(c, o)
    \/ \E c \in Clients : ClientStep(c)
    \/ \E t \in Loops : LoopStep(t)
    \/ StopSetFlag \/ StopStep
    \/ \E k \in Conns : ServerReceive(k)
    \/ \E n \in Names, v \in Values : ServerWrite(n, v)
    \/ \E k \in Conns : ServerDrop(k)

(***************************************************************************)
(* Fairness: a call that has begun runs to its end, the receive loop keeps *)
(* running, the server keeps reading its sockets, and a started StopLoop   *)
(* finishes.  New calls, writes and connection drops are the environment   *)
(* and need not happen.                                                    *)
(***************************************************************************)
Fairness ==
    /\ \A c \in Clients : WF_vars(ClientStep(c))
    /\ \A t \in Loops : WF_vars(LoopStep(t))
    /\ \A k \in Conns : WF_vars(ServerReceive(k))
    /\ WF_vars(StopStep)

Spec == Init /\ [][Next]_vars /\ Fairness

-----------------------------------------------------------------------------
TypeOK ==
    /\ params \in [Names -> Values]
    /\ writes \in 0..MaxWrites
    /\ watcherId \in 0..MaxAdds /\ groupId \in 0..MaxAdds
    /\ groupMap \in [KeyPrefixes -> 0..MaxAdds]
    /\ watcherGroups \in [Ids -> 0..Len(groupObjs)]
    /\ \A i \in DOMAIN groupObjs :
          /\ groupObjs[i].gid \in Ids /\ groupObjs[i].prefix \in KeyPrefixes
          /\ groupObjs[i].watchers \subseteq Ids \X DOMAIN watcherObjs
    /\ \A o \in DOMAIN watcherObjs :
          /\ watcherObjs[o].id \in Ids /\ watcherObjs[o].prefix \in KeyPrefixes
          /\ watcherObjs[o].view \in [Names -> Values \cup {NoValue}]
    /\ subscribed \subseteq DOMAIN watcherObjs
    /\ pRecvThread \in 0..MaxAdds
    /\ loopPc \in [Loops -> {"none", "top", "recv", "exited"}]
    /\ loopErrno \in [Loops -> Errnos]
    /\ serverFd \in Conns \cup {INVALID_SOCKET}
    /\ connState \in [Conns -> {"none", "open", "peer_closed", "closed"}]
    /\ \A k \in Conns : toServer[k] \in Seq(Msgs) /\ toClient[k] \in Seq(Msgs)
    /\ regs \subseteq [conn : Conns, gid : Ids, prefix : KeyPrefixes]

(***************************************************************************)
(* Every watcher whose AddWatcher has returned, and that has not been      *)
(* deleted, can still be found by DelWatcher(keyPrefix, id) and by the     *)
(* notification path: groupMap_ maps its prefix to a group id, that id is  *)
(* in watcherGroups_, and that group holds it under its id.  Broken when   *)
(* two AddWatcher calls for one prefix both create a group, when two       *)
(* watchers get one id, or when a group is erased while it still holds     *)
(* watchers.                                                               *)
(***************************************************************************)
SubscribedWatcherReachable ==
    \A o \in subscribed :
        LET g == groupMap[watcherObjs[o].prefix]
        IN  /\ g # 0
            /\ watcherGroups[g] # 0
            /\ <<watcherObjs[o].id, o>> \in groupObjs[watcherGroups[g]].watchers

(***************************************************************************)
(* A watcher is only ever told about parameters its keyPrefix matches, by  *)
(* the local replay (SendLocalChange) and by NOTIFY_PARAM messages, which  *)
(* the loop routes by the group id in the message.                         *)
(***************************************************************************)
OnlyMatching ==
    \A o \in DOMAIN watcherObjs, n \in Names :
        watcherObjs[o].view[n] # NoValue => FilterParam(n, watcherObjs[o].prefix)

(***************************************************************************)
(* When no call is in progress and the server has read everything sent to  *)
(* it, the server's registrations on the current connection are exactly    *)
(* the groups in watcherGroups_: ADD_WATCHER was sent for each group that  *)
(* became non-empty and DEL_WATCHER for each one that became empty.        *)
(***************************************************************************)
Quiescent ==
    /\ \A c \in Clients : cpc[c] = "idle"
    /\ ~stop
    /\ serverFd # INVALID_SOCKET
    /\ toServer[serverFd] = <<>>

RegistrationAgreement ==
    Quiescent =>
        {r.gid : r \in {r \in regs : r.conn = serverFd}}
            = {g \in Ids : watcherGroups[g] # 0}

(***************************************************************************)
(* No update window is missed between registration and the first live     *)
(* notification (spec, section 4.5): once every call has returned and      *)
(* every message has been read, each subscribed watcher has been told the  *)
(* current value of every parameter its prefix matches.  SendLocalChange   *)
(* runs after MSG_ADD_WATCHER is sent but before group->AddWatcher, and    *)
(* the server registers the group only when it reads the message, so a     *)
(* write in between reaches neither the replay nor the watcher.            *)
(***************************************************************************)
AllDelivered ==
    /\ \A c \in Clients : cpc[c] = "idle"
    /\ \A k \in Conns : toServer[k] = <<>> /\ toClient[k] = <<>>

ReplayNoGap ==
    AllDelivered =>
        \A o \in subscribed, n \in Names :
            FilterParam(n, watcherObjs[o].prefix) => watcherObjs[o].view[n] = params[n]

(***************************************************************************)
(* After StopLoop has joined the receive thread, the watcher service holds *)
(* no connection to the server (spec, section 5: shutdown closes the       *)
(* socket and joins the receive thread).  The loop may reconnect between   *)
(* StopLoop's close and its own check of stop_.                            *)
(***************************************************************************)
StopReleasesConnection ==
    stopPc = "done" => serverFd = INVALID_SOCKET

(***************************************************************************)
(* When the server ends the connection the receive loop eventually leaves *)
(* it and reconnects (spec, section 4.5: "on hard error it reconnects").  *)
(* recv() at end of stream returns 0 without setting errno, so an EAGAIN   *)
(* left by an earlier timeout makes the loop continue on the dead socket.  *)
(***************************************************************************)
DroppedConnectionLeft ==
    \A k \in Conns :
        (serverFd = k /\ connState[k] = "peer_closed") ~> (serverFd # k)

(***************************************************************************)
(* OnStop returns, and leaves no receive loop behind: StopLoop sets stop_,  *)
(* closes serverFd_ and joins pRecvThread_, which waits until the loop,    *)
(* wherever it is (at the recv timeout, on the closed descriptor or        *)
(* reconnecting), reads stop_ and exits; a loop an AddWatcher racing       *)
(* OnStop starts must also see stop_ and end.                              *)
(***************************************************************************)
StopLoopReturns ==
    (stopPc # "idle") ~>
        (stopPc = "done" /\ \A t \in Loops : loopPc[t] \in {"none", "exited"})

(***************************************************************************)
(* Refinement of WatcherRegistry.  A watcher is registered when DelWatcher *)
(* and the notification path can find it: groupMap_ maps its prefix to a  *)
(* group id, watcherGroups_ maps that id to a group, and the group holds  *)
(* the watcher under its id.  An AddWatcher call is in progress from its   *)
(* first step until group->AddWatcher returns; a DelWatcher call that      *)
(* found a group takes effect at group->DelWatcher and returns after the   *)
(* group teardown.  lastId is the largest id of a watcher whose AddWatcher *)
(* has completed.                                                          *)
(***************************************************************************)
AddPcs   == {"add_store", "add_make", "add_gload", "add_gstore", "add_group",
             "add_empty", "add_start", "add_spawn", "add_getfd", "add_send",
             "add_local", "add_insert"}
\* The AddWatcher steps at which cObj is the new watcher object.
AddPcsWithObj == AddPcs \ {"add_store", "add_make"}
DelPcs   == {"del_remove", "del_empty", "del_getfd", "del_send", "del_group"}

\* GetWatcherGroup(keyPrefix) and GetWatcherGroup(groupId) both find o.
Reachable ==
    {o \in DOMAIN watcherObjs :
        LET g == groupMap[watcherObjs[o].prefix]
        IN  /\ g # 0
            /\ watcherGroups[g] # 0
            /\ <<watcherObjs[o].id, o>> \in groupObjs[watcherGroups[g]].watchers}

\* The watcher objects of AddWatcher calls that have returned.
Completed ==
    {o \in DOMAIN watcherObjs :
        \A c \in Clients : ~(cpc[c] \in AddPcsWithObj /\ cObj[c] = o)}

RegistryReq(c) ==
    CASE cpc[c] \in AddPcs      -> [op |-> "add", prefix |-> cPrefix[c]]
      [] cpc[c] = "del_remove"  -> [op |-> "del", id |-> cDelId[c], done |-> FALSE]
      [] cpc[c] \in DelPcs      -> [op |-> "del", id |-> cDelId[c], done |-> TRUE]
      [] OTHER                  -> [op |-> "idle"]

Registry == INSTANCE WatcherRegistry WITH
    subs   <- {<<watcherObjs[o].id, watcherObjs[o].prefix>> : o \in Reachable},
    lastId <- Max({0} \cup {watcherObjs[o].id : o \in Completed}),
    req    <- [c \in Clients |-> RegistryReq(c)]

(***************************************************************************)
(* WatcherManager implements WatcherRegistry: the many unlocked steps of   *)
(* AddWatcher and DelWatcher, interleaved with the receive loop, the       *)
(* server and OnStop, add each watcher at one instant under an id larger   *)
(* than every earlier one, remove exactly the watcher asked for, and       *)
(* never make a registered watcher unreachable otherwise.  A group torn    *)
(* down while it still holds a watcher, an id handed out twice, or a       *)
(* group map entry overwritten all break it.                               *)
(***************************************************************************)
\* Registry!Spec, with the stuttering disjunct tried first: most steps of
\* WatcherManager leave the registry as it is.
RegistryRefinement ==
    Registry!Init /\ [][UNCHANGED Registry!vars \/ Registry!Next]_Registry!vars

=============================================================================
