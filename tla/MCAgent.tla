------------------------------ MODULE MCAgent ------------------------------
(***************************************************************************)
(* Small agent services for TLC. They share nothing that one of them could *)
(* disturb, so each behaviour runs one of them, and a session's or a       *)
(* memory's store with one mix of callers: service names it.               *)
(***************************************************************************)
EXTENDS TaskQueue, Sessions, Permissions, Coordinator, Memory, TLC

CONSTANT Services    \* the services to run

VARIABLE service

agentVars == <<service, queueVars, sessionVars, adminVars, roomVars, memoryVars>>

\* Tasks are numbered; the first two are equally urgent.
TaskPriority == [t \in Task |-> IF t = 1 THEN 2 ELSE t]

\* Both sessions are the same agent's.
SessionOwner == [s \in Session |-> 1]

\* Both roles are built in.
FullAccess == {[resource |-> "*", action |-> "admin", scope |-> << >>]}
RoomWriter == {[resource |-> "room", action |-> "write", scope |-> <<"a", "*">>]}
RoleDefinitions == {FullAccess, RoomWriter}
BuiltinRoles == (1 :> FullAccess) @@ (2 :> RoomWriter)
AllWants == [resource : {"room", "task"}, action : {"read", "write"}, scope : {<< >>, <<"a">>, <<"a", "b">>, <<"b">>}]

-----------------------------------------------------------------------------
(* One service at a time.                                                  *)

Tasks(A) ==
    service = "tasks" /\ A /\ UNCHANGED <<service, sessionVars, adminVars, roomVars, memoryVars>>

SessionsOf(callers, A) ==
    service = callers /\ A /\ UNCHANGED <<service, queueVars, adminVars, roomVars, memoryVars>>

Roles(A) ==
    service = "roles" /\ A /\ UNCHANGED <<service, queueVars, sessionVars, roomVars, memoryVars>>

\* A client that leaves its session's state alone.
BriefNext(c, s, ops) ==
    StartCreate(c, s) \/ (\E op \in ops : StartCall(c, s, op, "active")) \/ SessionAccess(c)

\* Both administrators narrow and delete the first role, and give and take both.
RolesNext ==
    \/ \E c \in Admin : \/ \E d \in {RoomWriter, NoRole} : PutRole(c, 1, d)
                        \/ \E a \in Subject, r \in Role : FindRole(c, a, r) \/ Revoke(c, a, r)
                        \/ RememberRole(c) \/ Assign(c) \/ PersistList(c) \/ FailPersist(c)
    \/ Reload

\* A room that a restart left on disk is loaded by one call alone.
Rooms(A) ==
    /\ service = "room" /\ A /\ LoadedAlone'
    /\ UNCHANGED <<service, queueVars, sessionVars, adminVars, memoryVars>>

\* The second memory is stored when the call that stored the first is through.
Memories(callers, A) ==
    /\ service = callers /\ A
    /\ storing[2] # "new" \/ storing'[2] = "new" \/ Quiet
    /\ UNCHANGED <<service, queueVars, sessionVars, adminVars, roomVars>>

StoreNext(items) == \E m \in items : StoreMemory(m) \/ IndexMemory(m) \/ CacheMemory(m)

CallNext(ops) ==
    \/ \E c \in MemoryClient, m \in Item, op \in ops : StartMemoryCall(c, op, m)
    \/ \E c \in MemoryClient : MemoryAccess(c)

EvictNext(items) == \E m \in items : MemoryAccess(m)

DecayNext == StartDecay \/ MemoryAccess(Decayer)

AgentNext ==
    \/ Tasks(QueueNext)
    \/ SessionsOf("sessions", ClientNext(1, {1}) \/ BriefNext(2, 1, {"delete", "beat"}) \/ SessionCrash)
    \/ SessionsOf("quota", ClientNext(1, {1}) \/ BriefNext(2, 2, {"delete"}) \/ SessionCrash)
    \/ SessionsOf("clean-up", ClientNext(1, {1}) \/ CleanupNext)
    \/ Roles(RolesNext)
    \/ Rooms(RoomNext)
    \/ Memories("evict", StoreNext(Item) \/ EvictNext(Item))
    \/ Memories("recall", StoreNext({1, 2}) \/ EvictNext({1, 2}) \/ CallNext({"access", "delete"}))
    \/ Memories("decay", StoreNext({1}) \/ CallNext({"get"}) \/ HourPasses \/ DecayNext)
    \/ Memories("fade", StoreNext({1}) \/ HourPasses \/ DecayNext)

AgentInit ==
    /\ service \in Services
    /\ QueueInit /\ SessionInit /\ AdminInit /\ RoomInit /\ MemoryInit

\* The fairness of TaskQueue. The clean-up goroutine runs, and its ticker fires, for as long
\* as the process lives; a call that has begun goes on.
AgentFairness ==
    /\ \A t \in Task : WF_agentVars(Tasks(Enqueue(t) /\ enqueue[t] # "new"))
    /\ \A c \in Consumer : WF_agentVars(Tasks(Dequeue(c)))
    /\ WF_agentVars(SessionsOf("clean-up", StartCleanup \/ SessionAccess(Cleaner)))
    /\ WF_agentVars(SessionsOf("clean-up", SessionAccess(1)))

AgentSpec == AgentInit /\ [][AgentNext]_agentVars /\ AgentFairness

\* The decay comes back for ever.
FadeSpec == AgentInit /\ [][AgentNext]_agentVars /\ WF_agentVars(Memories("fade", DecayNext))

-----------------------------------------------------------------------------
\* cleanupExpired fails session 1, the one that has a client beside the goroutine, when it has
\* expired, although the goroutine judges it by the store and changes it through the cache.
ClientsExpire == FailedInTime(1)
=============================================================================
