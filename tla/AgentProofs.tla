---------------------------- MODULE AgentProofs ----------------------------
(***************************************************************************)
(* Proofs about the agent services: the task queue, and those that hold    *)
(* copies of what is stored: the rooms of the coordinator, the cache of    *)
(* the sessions and that of the memories.                                  *)
(***************************************************************************)
EXTENDS TaskQueue, Coordinator, Sessions, Memory, WellFoundedInduction, FiniteSetTheorems, SequenceTheorems, TLAPS

-----------------------------------------------------------------------------
(* The queue, for any tasks, consumers, updaters and priorities.           *)
(* NoLostWakeUp is inductive by itself; HandedOutOnce needs to know that a *)
(* task enters the heap only before it was handed out.                     *)

\* A task that has not been pushed is not in the heap and was never handed out; an
\* enqueuer that has saved its task finds a record.
Unpushed ==
    \A t \in Task :
        /\ enqueue[t] \in {"new", "saved", "indexed"} => t \notin heap /\ handed[t] = 0
        /\ enqueue[t] # "new" => record[t] # NoTask
        /\ enqueue[t] = "new" => record[t] = NoTask
        /\ record[t] = NoTask => handed[t] = 0
        /\ handed[t] > 0 => t \notin heap /\ handed[t] = 1

\* Every update in progress names a stored task.
UpdatesStored == \A u \in Updater : update[u] # NoTask => record[update[u].task] # NoTask

QueueInv == QueueTypeOK /\ Unpushed /\ UpdatesStored

LEMMA StatusFacts == /\ "pending" \in Status /\ "running" \in Status
                     /\ Ended \subseteq Status
                     /\ \A s \in Status : s # NoTask
  BY NoTaskAssumption DEF Status, Ended

LEMMA QueueInvInit == QueueInit => QueueInv
<1> SUFFICES ASSUME QueueInit PROVE QueueInv
    OBVIOUS
<1>1. QueueTypeOK
  <2>1. notify \in BOOLEAN
      BY Zenon DEF QueueInit
  <2> QED BY <2>1, QueueBound DEF QueueInit, QueueTypeOK
<1>2. Unpushed
    BY DEF QueueInit, Unpushed
<1>3. UpdatesStored
    BY DEF QueueInit, UpdatesStored
<1> QED BY <1>1, <1>2, <1>3 DEF QueueInv

LEMMA QueueInvStep == QueueInv /\ [QueueNext]_queueVars => QueueInv'
<1> SUFFICES ASSUME QueueInv, [QueueNext]_queueVars PROVE QueueInv'
    OBVIOUS
<1> USE DEF QueueInv
<1>1. ASSUME NEW t \in Task, SaveTask(t) PROVE QueueInv'
    BY <1>1, StatusFacts DEF SaveTask, QueueTypeOK, Unpushed, UpdatesStored
<1>2. ASSUME NEW t \in Task, IndexTask(t) PROVE QueueInv'
    BY <1>2 DEF IndexTask, QueueTypeOK, Unpushed, UpdatesStored
<1>3. ASSUME NEW t \in Task, Push(t) PROVE QueueInv'
    BY <1>3 DEF Push, MayPush, QueueTypeOK, Unpushed, UpdatesStored
<1>4. ASSUME NEW t \in Task, Notify(t) PROVE QueueInv'
    BY <1>4 DEF Notify, Token, QueueTypeOK, Unpushed, UpdatesStored
<1>5. ASSUME NEW c \in Consumer, CallDequeue(c) PROVE QueueInv'
    BY <1>5 DEF CallDequeue, QueueTypeOK, Unpushed, UpdatesStored
<1>6. ASSUME NEW c \in Consumer, Take(c) PROVE QueueInv'
    BY <1>6, StatusFacts DEF Take, Popped, QueueTypeOK, Unpushed, UpdatesStored
<1>7. ASSUME NEW c \in Consumer, Block(c) PROVE QueueInv'
    BY <1>7 DEF Block, QueueTypeOK, Unpushed, UpdatesStored
<1>8. ASSUME NEW c \in Consumer, Wake(c) PROVE QueueInv'
    BY <1>8 DEF Wake, QueueTypeOK, Unpushed, UpdatesStored
<1>9. ASSUME NEW c \in Consumer, Expire(c) PROVE QueueInv'
    BY <1>9 DEF Expire, QueueTypeOK, Unpushed, UpdatesStored
<1>10. ASSUME NEW u \in Updater, NEW t \in Task, NEW s \in Ended, ReadTask(u, t, s)
       PROVE  QueueInv'
    BY <1>10 DEF ReadTask, Updates, QueueTypeOK, Unpushed, UpdatesStored
<1>11. ASSUME NEW u \in Updater, WriteTask(u) PROVE QueueInv'
  <2>1. /\ update[u].task \in Task /\ update[u].status \in Status
        /\ update[u].status # NoTask
        /\ record[update[u].task] # NoTask
      BY <1>11, StatusFacts DEF WriteTask, Updates, QueueTypeOK, UpdatesStored
  <2>2. /\ record' = [record EXCEPT ![update[u].task] = update[u].status]
        /\ agentTasks' = agentTasks \cup {update[u].task}
        /\ update' = [update EXCEPT ![u] = NoTask]
        /\ UNCHANGED <<heap, notify, enqueue, consumer, handed, queueCrashes>>
      BY <1>11 DEF WriteTask
  <2>3. QueueTypeOK'
      BY <2>1, <2>2 DEF QueueTypeOK
  <2>4. Unpushed'
      BY <2>1, <2>2 DEF QueueTypeOK, Unpushed
  <2>5. UpdatesStored'
      BY <2>1, <2>2 DEF QueueTypeOK, UpdatesStored
  <2> QED BY <2>3, <2>4, <2>5
<1>12. ASSUME QueueCrash PROVE QueueInv'
  <2>1. notify' \in BOOLEAN
      BY <1>12, Zenon DEF QueueCrash
  <2>2. QueueTypeOK'
      BY <1>12, <2>1, QueueBound DEF QueueCrash, QueueTypeOK
  <2>3. Unpushed'
      BY <1>12 DEF QueueCrash, QueueTypeOK, Unpushed
  <2>4. UpdatesStored'
      BY <1>12 DEF QueueCrash, QueueTypeOK, UpdatesStored
  <2> QED BY <2>2, <2>3, <2>4
<1>13. ASSUME UNCHANGED queueVars PROVE QueueInv'
    BY <1>13 DEF queueVars, QueueTypeOK, Unpushed, UpdatesStored
<1> QED
    BY <1>1, <1>2, <1>3, <1>4, <1>5, <1>6, <1>7, <1>8, <1>9, <1>10, <1>11, <1>12, <1>13
    DEF QueueNext, Enqueue, Dequeue

\* Every variable of the queue keeps its type, and the heap names only stored tasks
\* (taskqueue.go:47 saves before taskqueue.go:52 pushes).
THEOREM QueueTypeCorrect == QueueSpec => []QueueTypeOK
<1>1. QueueInv => QueueTypeOK
    BY DEF QueueInv
<1> QED BY <1>1, QueueInvInit, QueueInvStep, PTL DEF QueueSpec

\* However enqueuers, consumers, updaters and crashes interleave, Dequeue hands out no
\* task twice.
THEOREM NoTaskTwice == QueueSpec => []HandedOutOnce
<1>1. QueueInv => HandedOutOnce
    BY DEF QueueInv, QueueTypeOK, Unpushed, HandedOutOnce
<1> QED BY <1>1, QueueInvInit, QueueInvStep, PTL DEF QueueSpec

\* No step of anybody sets a record back to pending.
THEOREM NeverPendingAgainHolds == QueueSpec => NeverPendingAgain
<1> DEFINE Kept == \A t \in Task : record[t] # NoTask /\ record[t] # "pending"
                                    => record'[t] # "pending"
<1>1. QueueInv /\ [QueueNext]_queueVars => [Kept]_record
  <2> SUFFICES ASSUME QueueInv, [QueueNext]_queueVars, record' # record PROVE Kept
      OBVIOUS
  <2>1. ASSUME NEW t \in Task, Enqueue(t) PROVE Kept
      BY <2>1 DEF QueueInv, QueueTypeOK, Unpushed, Enqueue, SaveTask, IndexTask, Push, Notify
  <2>2. ASSUME NEW c \in Consumer, Dequeue(c) \/ Expire(c) PROVE Kept
      BY <2>2 DEF QueueInv, QueueTypeOK, Dequeue, CallDequeue, Take, Block, Wake, Expire
  <2>3. ASSUME NEW u \in Updater, NEW t \in Task, NEW s \in Ended, ReadTask(u, t, s)
        PROVE  Kept
      BY <2>3 DEF ReadTask
  <2>4. ASSUME NEW u \in Updater, WriteTask(u) PROVE Kept
    <3>1. update[u].status # "pending"
        BY <2>4 DEF QueueInv, QueueTypeOK, Updates, Ended, WriteTask
    <3> QED BY <2>4, <3>1 DEF WriteTask, QueueInv, QueueTypeOK
  <2>5. CASE QueueCrash
      BY <2>5 DEF QueueCrash
  <2> QED BY <2>1, <2>2, <2>3, <2>4, <2>5 DEF QueueNext, queueVars
<1> QED BY <1>1, QueueInvInit, QueueInvStep, PTL DEF QueueSpec, NeverPendingAgain

\* The one token of the notify channel is enough: a task never lies in the heap with
\* every consumer asleep and no token on its way.
THEOREM NoWakeUpIsLost == QueueSpec => []NoLostWakeUp
<1>1. QueueInit => NoLostWakeUp
    BY DEF QueueInit, NoLostWakeUp
<1>2. QueueTypeOK /\ NoLostWakeUp /\ [QueueNext]_queueVars => NoLostWakeUp'
  <2> SUFFICES ASSUME QueueTypeOK, NoLostWakeUp, [QueueNext]_queueVars
               PROVE  NoLostWakeUp'
      OBVIOUS
  <2>1. ASSUME NEW t \in Task, Enqueue(t) PROVE NoLostWakeUp'
      BY <2>1 DEF Enqueue, SaveTask, IndexTask, Push, MayPush, Notify, Token, QueueTypeOK,
                  NoLostWakeUp
  <2>2. ASSUME NEW c \in Consumer, CallDequeue(c) \/ Take(c) \/ Wake(c) \/ Expire(c)
        PROVE  NoLostWakeUp'
    <3>1. consumer'[c] # "waiting"
        BY <2>2 DEF CallDequeue, Take, Wake, Expire, QueueTypeOK
    <3> QED BY <3>1 DEF NoLostWakeUp
  <2>3. ASSUME NEW c \in Consumer, Block(c) PROVE NoLostWakeUp'
      BY <2>3 DEF Block, NothingQueued, NoLostWakeUp
  <2>4. ASSUME NEW u \in Updater, WriteTask(u) PROVE NoLostWakeUp'
      BY <2>4 DEF WriteTask, NoLostWakeUp
  <2>5. ASSUME NEW u \in Updater, NEW t \in Task, NEW s \in Ended, ReadTask(u, t, s)
        PROVE  NoLostWakeUp'
      BY <2>5 DEF ReadTask, NoLostWakeUp
  <2>6. CASE QueueCrash
      BY <2>6 DEF QueueCrash, NoLostWakeUp
  <2>7. CASE UNCHANGED queueVars
      BY <2>7 DEF queueVars, NoLostWakeUp
  <2> QED BY <2>1, <2>2, <2>3, <2>4, <2>5, <2>6, <2>7 DEF QueueNext, Dequeue
<1> QED BY <1>1, <1>2, QueueTypeCorrect, PTL DEF QueueSpec

USE CreatorAssumption, NoRoomAssumption

-----------------------------------------------------------------------------
(* One room, for any agents and clients, messages and restarts.            *)

RoomCallType == [op : {"none", "join", "leave", "send"}, agent : RoomAgent,
                 step : {"idle", "get", "load", "install", "change", "look", "save"},
                 object : {0, 1}, loaded : SUBSET RoomAgent, raced : BOOLEAN]

\* The invariant but for LoadedAlone, which the steps that are looked at keep.
RoomKept == RoomTypeOK /\ OneObject /\ CallsHoldRoom /\ MembersTold

\* Before the room is created there is nothing to hold.
LEMMA RoomInitKept == RoomInit => RoomInv
<1> SUFFICES ASSUME RoomInit PROVE RoomInv
    OBVIOUS
<1>1. NoRoomCall \in RoomCallType /\ NoRoomCall.step = "idle"
    BY DEF NoRoomCall, RoomCallType
<1>2. RoomTypeOK
  <2>1. roomCall \in [RoomClient -> RoomCallType]
      BY <1>1 DEF RoomInit
  <2>2. member \in [RoomAgent -> {"in", "out", "unsure"}]
      BY DEF RoomInit
  <2>3. storedRoom \in (SUBSET RoomAgent) \cup {NoRoom} /\ known \in {0, 1}
      BY DEF RoomInit
  <2> QED BY <2>1, <2>2, <2>3 DEF RoomTypeOK, RoomCallType
<1>3. OneObject /\ MembersTold /\ LoadedAlone
    BY DEF RoomInit, OneObject, MembersTold, LoadedAlone
<1>4. CallsHoldRoom
    BY <1>1 DEF RoomInit, CallsHoldRoom, RoomAt
<1> QED BY <1>2, <1>3, <1>4 DEF RoomInv

\* A call moves on, and neither the store, the objects nor an answer changes.
LEMMA RoomCallMoves ==
    ASSUME RoomKept, NEW c \in RoomClient, NEW k \in RoomCallType,
           roomCall' = [roomCall EXCEPT ![c] = k],
           k.step = "idle" <=> k = NoRoomCall,
           k.step # "idle" => storedRoom # NoRoom,
           k.step \in {"change", "look", "save"} => known = 1 /\ k.object = 1,
           k.step \in {"load", "install"} => known = 0,
           k.step = "install" => k.loaded = storedRoom,
           UNCHANGED <<storedRoom, rooms, known, member>>
    PROVE  RoomKept'
<1>1. RoomTypeOK'
    BY DEF RoomKept, RoomTypeOK, RoomCallType
<1>2. OneObject' /\ MembersTold'
    BY DEF RoomKept, OneObject, MembersTold
<1>3. ASSUME NEW d \in RoomClient PROVE roomCall'[d] = IF d = c THEN k ELSE roomCall[d]
    BY DEF RoomKept, RoomTypeOK
<1>4. CallsHoldRoom'
    BY <1>3 DEF RoomKept, CallsHoldRoom, RoomAt
<1> QED BY <1>1, <1>2, <1>4 DEF RoomKept

\* No step of a call, a creation or a restart leaves two objects or a stale one, as long as
\* calls load the room alone.
LEMMA RoomStep ==
    ASSUME RoomInv, RoomNext, LoadedAlone'
    PROVE  RoomInv'
<1> SUFFICES RoomKept'
    BY DEF RoomInv, RoomKept
<1>a. RoomKept /\ roomCall \in [RoomClient -> RoomCallType]
    BY DEF RoomInv, RoomKept, RoomTypeOK, RoomCallType
<1>b. /\ storedRoom \in (SUBSET RoomAgent) \cup {NoRoom} /\ known \in {0, 1}
      /\ member \in [RoomAgent -> {"in", "out", "unsure"}]
      /\ known = 0 => rooms = << >>
      /\ known = 1 => rooms = <<storedRoom>> /\ storedRoom # NoRoom
    BY DEF RoomInv, RoomTypeOK, OneObject
<1>c. \A c \in RoomClient :
        /\ RoomAt(c, "idle") <=> roomCall[c] = NoRoomCall
        /\ ~RoomAt(c, "idle") => storedRoom # NoRoom
        /\ RoomAt(c, "change") \/ RoomAt(c, "look") \/ RoomAt(c, "save")
              => known = 1 /\ roomCall[c].object = 1
        /\ RoomAt(c, "load") \/ RoomAt(c, "install") => known = 0
        /\ RoomAt(c, "install") => roomCall[c].loaded = storedRoom
    BY DEF RoomInv, CallsHoldRoom
<1>d. NoRoomCall \in RoomCallType /\ NoRoomCall.step = "idle"
    BY DEF NoRoomCall, RoomCallType
<1>1. CASE CreateRoom
  <2>1. /\ storedRoom = NoRoom /\ storedRoom' = {RoomCreator} /\ rooms' = <<{RoomCreator}>>
        /\ known' = 1 /\ member' = [member EXCEPT ![RoomCreator] = "in"] /\ UNCHANGED roomCall
      BY <1>1 DEF CreateRoom
  <2>2. RoomTypeOK' /\ OneObject'
      BY <1>a, <1>b, <2>1 DEF RoomTypeOK, OneObject, RoomCallType
  <2>3. CallsHoldRoom'
      BY <1>c, <2>1 DEF CallsHoldRoom, RoomAt
  <2>4. MembersTold'
      BY <1>b, <2>1 DEF RoomInv, MembersTold
  <2> QED BY <2>2, <2>3, <2>4 DEF RoomKept
<1>2. ASSUME NEW c \in RoomClient, NEW op \in {"join", "leave", "send"}, NEW a \in RoomAgent,
             CallRoom(c, op, a)
      PROVE  RoomKept'
  <2> DEFINE k == [NoRoomCall EXCEPT !.op = op, !.agent = a, !.step = "get"]
  <2>1. /\ storedRoom # NoRoom /\ roomCall' = [roomCall EXCEPT ![c] = k]
        /\ member' = IF op = "send" THEN member ELSE [member EXCEPT ![a] = "unsure"]
        /\ UNCHANGED <<storedRoom, rooms, known>>
      BY <1>2 DEF CallRoom
  <2>2. k \in RoomCallType /\ k.step = "get" /\ k # NoRoomCall
      BY DEF NoRoomCall, RoomCallType
  <2> HIDE DEF k
  <2>3. RoomTypeOK' /\ OneObject'
      BY <1>a, <1>b, <2>1, <2>2 DEF RoomTypeOK, OneObject, RoomCallType
  <2>4. ASSUME NEW d \in RoomClient PROVE roomCall'[d] = IF d = c THEN k ELSE roomCall[d]
      BY <1>a, <2>1
  <2>5. CallsHoldRoom'
      BY <1>c, <2>1, <2>2, <2>4 DEF CallsHoldRoom, RoomAt
  <2>6. MembersTold'
      BY <1>b, <2>1 DEF RoomInv, MembersTold
  <2> QED BY <2>3, <2>5, <2>6 DEF RoomKept
<1>3. ASSUME NEW c \in RoomClient, FindRoom(c) PROVE RoomKept'
  <2> DEFINE k == IF known # 0 THEN WithRoom(roomCall[c], known) ELSE [roomCall[c] EXCEPT !.step = "load"]
  <2>1. /\ RoomAt(c, "get") /\ roomCall' = [roomCall EXCEPT ![c] = k]
        /\ UNCHANGED <<storedRoom, rooms, known, member>>
      BY <1>3, <1>a DEF FindRoom, InMemory
  <2>2. roomCall[c] \in RoomCallType /\ storedRoom # NoRoom
      BY <1>a, <1>c, <2>1 DEF RoomAt
  <2>3. /\ k \in RoomCallType
        /\ known = 0 => k.step = "load"
        /\ known = 1 => k.step \in {"look", "change"} /\ k.object = 1
    <3>1. CASE known = 0
        BY <2>2, <3>1 DEF RoomCallType
    <3>2. CASE known = 1
      <4>1. k = [roomCall[c] EXCEPT !.object = 1,
                                    !.step = IF roomCall[c].op = "send" THEN "look" ELSE "change"]
          BY <3>2 DEF WithRoom
      <4> HIDE DEF k
      <4>2. CASE roomCall[c].op = "send"
        <5>1. k = [roomCall[c] EXCEPT !.object = 1, !.step = "look"]
            BY <4>1, <4>2
        <5>2. k.step = "look" /\ k.object = 1
            BY <2>2, <5>1 DEF RoomCallType
        <5>3. k \in RoomCallType
            BY <2>2, <5>1 DEF RoomCallType
        <5> QED BY <3>2, <5>2, <5>3
      <4>3. CASE roomCall[c].op # "send"
        <5>1. k = [roomCall[c] EXCEPT !.object = 1, !.step = "change"]
            BY <4>1, <4>3
        <5>2. k.step = "change" /\ k.object = 1
            BY <2>2, <5>1 DEF RoomCallType
        <5>3. k \in RoomCallType
            BY <2>2, <5>1 DEF RoomCallType
        <5> QED BY <3>2, <5>2, <5>3
      <4> QED BY <4>2, <4>3
    <3> QED BY <1>b, <3>1, <3>2
  <2> HIDE DEF k
  <2>4. k.step # "idle" /\ k # NoRoomCall
      BY <1>b, <1>d, <2>3
  <2> QED BY <1>a, <1>b, <2>1, <2>2, <2>3, <2>4, RoomCallMoves
<1>4. ASSUME NEW c \in RoomClient, LoadRoom(c) PROVE RoomKept'
  <2> DEFINE k == [roomCall[c] EXCEPT !.loaded = storedRoom, !.step = "install"]
  <2>1. /\ RoomAt(c, "load") /\ roomCall' = [roomCall EXCEPT ![c] = k]
        /\ UNCHANGED <<storedRoom, rooms, known, member>>
      BY <1>4, <1>a DEF LoadRoom
  <2>2. roomCall[c] \in RoomCallType /\ storedRoom \in SUBSET RoomAgent /\ known = 0 /\ storedRoom # NoRoom
    <3>1. storedRoom # NoRoom /\ known = 0
        BY <1>c, <2>1 DEF RoomAt
    <3> QED BY <1>a, <1>b, <3>1
  <2>3. k \in RoomCallType /\ k.step = "install" /\ k.loaded = storedRoom
      BY <2>2 DEF RoomCallType
  <2> HIDE DEF k
  <2>4. k # NoRoomCall
      BY <1>d, <2>3
  <2> QED BY <1>a, <2>1, <2>2, <2>3, <2>4, RoomCallMoves
<1>5. ASSUME NEW c \in RoomClient, InstallRoom(c) PROVE RoomKept'
  <2>1. /\ RoomAt(c, "install") /\ rooms' = Append(rooms, roomCall[c].loaded)
        /\ known' = Len(rooms) + 1
        /\ roomCall' = [roomCall EXCEPT ![c] = WithRoom(roomCall[c], Len(rooms) + 1)]
        /\ UNCHANGED <<storedRoom, member>>
      BY <1>5, <1>a DEF InstallRoom
  <2>2. roomCall[c] \in RoomCallType /\ roomCall[c] # NoRoomCall /\ storedRoom # NoRoom
      BY <1>a, <1>c, <1>d, <2>1 DEF RoomAt
  <2>3. known = 0 /\ roomCall[c].loaded = storedRoom
      BY <1>c, <2>1
  <2>4. known' = 1 /\ rooms' = <<storedRoom>>
    <3>1. rooms = << >> /\ Len(<< >>) = 0 /\ Append(<< >>, storedRoom) = <<storedRoom>>
        BY <1>b, <2>3
    <3> QED BY <2>1, <2>3, <3>1
  <2>5. WithRoom(roomCall[c], 1) \in RoomCallType /\ WithRoom(roomCall[c], 1).object = 1
        /\ WithRoom(roomCall[c], 1).step \in {"look", "change"}
      BY <2>2 DEF RoomCallType, WithRoom
  <2>6. ASSUME NEW d \in RoomClient, d # c PROVE roomCall[d] = NoRoomCall
      BY <2>2, <2>3, <2>6 DEF RoomInv, LoadedAlone
  <2>7. ASSUME NEW d \in RoomClient
        PROVE  roomCall'[d] = IF d = c THEN WithRoom(roomCall[c], 1) ELSE NoRoomCall
      BY <1>a, <2>1, <2>4, <2>6
  <2>8. RoomTypeOK' /\ OneObject'
      BY <1>a, <1>b, <2>1, <2>2, <2>4, <2>5 DEF RoomTypeOK, OneObject, RoomCallType
  <2>9. WithRoom(roomCall[c], 1) # NoRoomCall
      BY <1>d, <2>5
  <2>10. CallsHoldRoom'
      BY <1>d, <2>1, <2>2, <2>4, <2>5, <2>7, <2>9 DEF CallsHoldRoom, RoomAt
  <2>11. MembersTold'
      BY <2>1 DEF RoomInv, MembersTold
  <2> QED BY <2>8, <2>10, <2>11 DEF RoomKept
<1>6. ASSUME NEW c \in RoomClient, Change(c) PROVE RoomKept'
  <2> DEFINE a == roomCall[c].agent
             join == roomCall[c].op = "join"
             members == IF join THEN storedRoom \cup {a} ELSE storedRoom \ {a}
  <2>1. known = 1 /\ roomCall[c].object = 1 /\ rooms = <<storedRoom>> /\ storedRoom # NoRoom
      BY <1>6, <1>b, <1>c DEF Change
  <2>2. a \in RoomAgent /\ storedRoom \in SUBSET RoomAgent
    <3>1. roomCall[c] \in RoomCallType
        BY <1>a
    <3> QED BY <1>b, <2>1, <3>1 DEF RoomCallType
  <2>3. /\ rooms' = [rooms EXCEPT ![1] = members] /\ storedRoom' = members
        /\ member' = [member EXCEPT ![a] = IF join THEN "in" ELSE "out"]
        /\ UNCHANGED known
    <3>1. rooms[1] = storedRoom
        BY <2>1
    <3> QED BY <1>6, <2>1, <3>1 DEF Change, RoomSaved
  <2>4. \A d \in RoomClient : \E b \in BOOLEAN :
            roomCall'[d] = IF d = c THEN NoRoomCall ELSE [roomCall[d] EXCEPT !.raced = b]
      BY <1>6, <1>a DEF Change, RoomCallType
  <2>5. rooms' = <<members>> /\ members \in SUBSET RoomAgent /\ members # NoRoom
    <3>1. members \in SUBSET RoomAgent
        BY <2>2
    <3>2. members # NoRoom
        BY <3>1, NoRoomAssumption
    <3>3. rooms' = <<members>>
      <4> HIDE DEF members
      <4> QED BY <2>1, <2>3
    <3> QED BY <3>1, <3>2, <3>3
  <2>6. roomCall' \in [RoomClient -> RoomCallType]
    <3>1. ASSUME NEW d \in RoomClient PROVE roomCall'[d] \in RoomCallType
        BY <1>a, <1>d, <2>4 DEF RoomCallType
    <3>2. DOMAIN roomCall' = RoomClient /\ roomCall' = [d \in RoomClient |-> roomCall'[d]]
        BY <1>6 DEF Change
    <3> QED BY <3>1, <3>2
  <2>7. ASSUME NEW d \in RoomClient
        PROVE  /\ roomCall'[d].step = IF d = c THEN "idle" ELSE roomCall[d].step
               /\ roomCall'[d].object = IF d = c THEN 0 ELSE roomCall[d].object
               /\ roomCall'[d].loaded = IF d = c THEN {} ELSE roomCall[d].loaded
               /\ d # c /\ roomCall[d] # NoRoomCall => roomCall'[d] # NoRoomCall
    <3>1. CASE d = c
      <4>1. roomCall'[d] = NoRoomCall
          BY <2>4, <3>1
      <4> QED BY <3>1, <4>1 DEF NoRoomCall
    <3>2. CASE d # c
      <4>1. roomCall[d] \in RoomCallType
          BY <1>a
      <4>2. PICK b \in BOOLEAN : roomCall'[d] = [roomCall[d] EXCEPT !.raced = b]
          BY <2>4, <3>2
      <4>3. /\ roomCall'[d].step = roomCall[d].step /\ roomCall'[d].object = roomCall[d].object
            /\ roomCall'[d].loaded = roomCall[d].loaded
          BY <4>1, <4>2 DEF RoomCallType
      <4>4. roomCall[d] # NoRoomCall => roomCall'[d] # NoRoomCall
          BY <1>c, <1>d, <4>3 DEF RoomAt
      <4> QED BY <3>2, <4>3, <4>4
    <3> QED BY <3>1, <3>2
  <2>8. ASSUME NEW d \in RoomClient PROVE roomCall[d] = NoRoomCall => roomCall'[d] = NoRoomCall
    <3>1. CASE d = c
        BY <2>4, <3>1
    <3>2. CASE d # c /\ roomCall[d] = NoRoomCall
      <4>1. roomCall'[d] = [roomCall[d] EXCEPT !.raced =
                                @ \/ (rooms'[1] # rooms[1] /\ RoomAt(d, "look") /\ roomCall[d].object = 1)]
          BY <1>6, <2>1, <2>3, <3>2 DEF Change
      <4>2. ~RoomAt(d, "look") /\ NoRoomCall.raced = FALSE
          BY <3>2 DEF RoomAt, NoRoomCall
      <4> QED BY <3>2, <4>1, <4>2 DEF NoRoomCall
    <3> QED BY <3>1, <3>2
  <2> HIDE DEF a, join, members
  <2>9. RoomTypeOK' /\ OneObject'
    <3>1. known = 1
        BY <2>1
    <3>2. member' \in [RoomAgent -> {"in", "out", "unsure"}]
        BY <1>b, <2>3
    <3>3. storedRoom' \in SUBSET RoomAgent /\ known' = 1 /\ storedRoom' # NoRoom /\ rooms' = <<storedRoom'>>
        BY <2>3, <2>5, <3>1
    <3> QED BY <2>6, <3>2, <3>3 DEF RoomTypeOK, OneObject, RoomCallType
  <2>10. CallsHoldRoom'
    <3>1. \A d \in RoomClient : roomCall'[c] = NoRoomCall
        BY <2>4
    <3> QED BY <1>c, <2>1, <2>3, <2>5, <2>7, <2>8, <3>1 DEF CallsHoldRoom, RoomAt
  <2>11. MembersTold'
    <3>1. ASSUME NEW b \in RoomAgent PROVE b \in members <=> IF b = a THEN join ELSE b \in storedRoom
        BY <2>2 DEF members
    <3>2. ASSUME NEW b \in RoomAgent
          PROVE  member'[b] = IF b = a THEN IF join THEN "in" ELSE "out" ELSE member[b]
        BY <1>b, <2>3
    <3> QED BY <2>1, <2>3, <2>5, <3>1, <3>2 DEF RoomInv, MembersTold
  <2> QED BY <2>9, <2>10, <2>11 DEF RoomKept
<1>7. ASSUME NEW c \in RoomClient, Look(c) PROVE RoomKept'
  <2> DEFINE saving == [roomCall[c] EXCEPT !.step = "save", !.raced = FALSE]
  <2>1. /\ RoomAt(c, "look") /\ UNCHANGED <<storedRoom, rooms, known, member>>
        /\ \/ roomCall' = [roomCall EXCEPT ![c] = saving]
           \/ roomCall' = [roomCall EXCEPT ![c] = NoRoomCall]
      BY <1>7, <1>a DEF Look
  <2>2. roomCall[c] \in RoomCallType /\ known = 1 /\ roomCall[c].object = 1 /\ storedRoom # NoRoom
      BY <1>a, <1>b, <1>c, <2>1
  <2>3. saving \in RoomCallType /\ saving.step = "save" /\ saving.object = 1
      BY <2>2 DEF RoomCallType
  <2> HIDE DEF saving
  <2>4. saving # NoRoomCall
      BY <1>d, <2>3
  <2>5. CASE roomCall' = [roomCall EXCEPT ![c] = saving]
      BY <1>a, <2>1, <2>2, <2>3, <2>4, <2>5, RoomCallMoves
  <2>6. CASE roomCall' = [roomCall EXCEPT ![c] = NoRoomCall]
      BY <1>a, <1>d, <2>1, <2>6, RoomCallMoves
  <2> QED BY <2>1, <2>5, <2>6
<1>8. ASSUME NEW c \in RoomClient, SaveRoom(c) PROVE RoomKept'
  <2>1. RoomAt(c, "save") /\ roomCall' = [roomCall EXCEPT ![c] = NoRoomCall] /\ UNCHANGED <<rooms, known, member>>
      BY <1>8 DEF SaveRoom
  <2>2. storedRoom' = storedRoom
    <3>1. rooms = <<storedRoom>> /\ roomCall[c].object = 1
        BY <1>b, <1>c, <2>1
    <3> QED BY <1>8, <3>1 DEF SaveRoom
  <2> QED BY <1>a, <1>d, <2>1, <2>2, RoomCallMoves
<1>9. CASE RoomRestart
  <2>1. /\ rooms' = << >> /\ known' = 0 /\ roomCall' = [c \in RoomClient |-> NoRoomCall]
        /\ UNCHANGED <<storedRoom, member>>
      BY <1>9 DEF RoomRestart, NoneKnown
  <2>2. RoomTypeOK' /\ OneObject' /\ MembersTold'
      BY <1>b, <1>d, <2>1 DEF RoomInv, RoomTypeOK, OneObject, MembersTold, RoomCallType
  <2>3. CallsHoldRoom'
      BY <1>d, <2>1 DEF CallsHoldRoom, RoomAt
  <2> QED BY <2>2, <2>3 DEF RoomKept
<1> QED BY <1>1, <1>2, <1>3, <1>4, <1>5, <1>6, <1>7, <1>8, <1>9 DEF RoomNext, RoomAccess
\* RoomInv holds as long as calls load the room alone.
THEOREM RoomHolds == RoomSpecAlone => []RoomInv
<1>1. RoomInv /\ [RoomNext /\ LoadedAlone']_roomVars => RoomInv'
  <2> SUFFICES ASSUME RoomInv, [RoomNext /\ LoadedAlone']_roomVars PROVE RoomInv'
      OBVIOUS
  <2>1. CASE UNCHANGED roomVars
      BY <2>1 DEF roomVars, RoomInv, RoomTypeOK, OneObject, CallsHoldRoom, MembersTold, LoadedAlone, RoomAt
  <2>2. CASE RoomNext /\ LoadedAlone'
      BY <2>2, RoomStep
  <2> QED BY <2>1, <2>2
<1> QED BY <1>1, RoomInitKept, PTL DEF RoomSpecAlone

\* JoinRoom and LeaveRoom, whatever other calls do and whenever the process restarts: an
\* agent is in the room, in memory and in the store, when it was told so and not when it was
\* told otherwise.
THEOREM MembershipSurvives == RoomSpecAlone => []MembershipKept
<1>1. RoomInv => MembershipKept
  <2> SUFFICES ASSUME RoomInv, storedRoom # NoRoom, NEW a \in RoomAgent
               PROVE  /\ member[a] = "in" => a \in storedRoom /\ (known # 0 => a \in rooms[known])
                      /\ member[a] = "out" => a \notin storedRoom /\ (known # 0 => a \notin rooms[known])
      BY DEF MembershipKept
  <2>1. known # 0 => rooms[known] = storedRoom
      BY DEF RoomInv, RoomTypeOK, OneObject
  <2> QED BY <2>1 DEF RoomInv, MembersTold
<1> QED BY <1>1, RoomHolds, PTL

\* SendMessage reads the members without the lock: what it decides is right unless a change
\* met its reading.
THEOREM SendersTold == RoomSpecAlone => SendersAreMembers
<1> DEFINE Decided(c) ==
        RoomAt(c, "look") /\ ~roomCall[c].raced /\ ~roomCall'[c].raced =>
            /\ roomCall'[c].step = "save" => member[roomCall[c].agent] # "out"
            /\ roomCall'[c].step = "idle" /\ UNCHANGED rooms => member[roomCall[c].agent] # "in"
<1>1. ASSUME RoomInv, [RoomNext /\ LoadedAlone']_roomVars, NEW c \in RoomClient PROVE Decided(c)
  <2> SUFFICES ASSUME RoomAt(c, "look"), ~roomCall[c].raced
               PROVE  /\ roomCall'[c].step = "save" => member[roomCall[c].agent] # "out"
                      /\ roomCall'[c].step = "idle" /\ UNCHANGED rooms => member[roomCall[c].agent] # "in"
      OBVIOUS
  <2>1. /\ known = 1 /\ roomCall[c].object = 1 /\ rooms = <<storedRoom>> /\ storedRoom # NoRoom
        /\ roomCall \in [RoomClient -> RoomCallType] /\ roomCall[c].step = "look"
    <3>1. roomCall \in [RoomClient -> RoomCallType]
        BY <1>1 DEF RoomInv, RoomTypeOK, RoomCallType
    <3>2. known = 1 /\ roomCall[c].object = 1
        BY <1>1 DEF RoomInv, CallsHoldRoom
    <3> QED BY <1>1, <3>1, <3>2 DEF RoomInv, OneObject, RoomAt
  <2>2. roomCall[c].agent \in RoomAgent /\ NoRoomCall.step = "idle"
    <3>1. roomCall[c] \in RoomCallType
        BY <2>1
    <3> QED BY <3>1 DEF RoomCallType, NoRoomCall
  <2>3. CASE Look(c)
    <3>1. \E found \in {roomCall[c].agent \in rooms[1]} :
              roomCall'[c] = IF found THEN [roomCall[c] EXCEPT !.step = "save", !.raced = FALSE] ELSE NoRoomCall
        BY <2>1, <2>3 DEF Look, Finds
    <3>2. rooms[1] = storedRoom
        BY <2>1
    <3>3. roomCall'[c] = IF roomCall[c].agent \in storedRoom
                         THEN [roomCall[c] EXCEPT !.step = "save", !.raced = FALSE] ELSE NoRoomCall
        BY <3>1, <3>2
    <3>4. CASE roomCall[c].agent \in storedRoom
      <4>1. roomCall'[c].step = "save"
        <5>1. roomCall[c] \in RoomCallType
            BY <2>1
        <5> QED BY <3>3, <3>4, <5>1 DEF RoomCallType
      <4> QED BY <1>1, <2>1, <2>2, <3>4, <4>1 DEF RoomInv, MembersTold
    <3>5. CASE roomCall[c].agent \notin storedRoom
        BY <1>1, <2>1, <2>2, <3>3, <3>5 DEF RoomInv, MembersTold
    <3> QED BY <3>4, <3>5
  <2>4. CASE RoomRestart
    <3>1. rooms' # rooms
        BY <2>1, <2>4 DEF RoomRestart
    <3>2. roomCall'[c].step = "idle"
        BY <2>2, <2>4 DEF RoomRestart
    <3> QED BY <3>1, <3>2
  <2>5. CASE roomCall'[c].step = "look"
      BY <2>5
  <2>6. ASSUME NEW d \in RoomClient, d # c, RoomAccess(d) PROVE roomCall'[c].step = "look"
    <3>1. CASE Change(d)
      <4>1. roomCall'[c].step = roomCall[c].step
        <5>1. roomCall[c] \in RoomCallType
            BY <2>1
        <5>2. \E b : roomCall'[c] = [roomCall[c] EXCEPT !.raced = b]
            BY <2>6, <3>1 DEF Change
        <5> QED BY <5>1, <5>2 DEF RoomCallType
      <4> QED BY <2>1, <4>1
    <3>2. CASE ~Change(d)
      <4>1. roomCall'[c] = roomCall[c]
          BY <2>1, <2>6, <3>2 DEF RoomAccess, FindRoom, LoadRoom, InstallRoom, Look, SaveRoom
      <4> QED BY <2>1, <4>1
    <3> QED BY <3>1, <3>2
  <2>7. RoomAccess(c) => Look(c)
      BY <2>1 DEF RoomAccess, RoomAt, FindRoom, LoadRoom, InstallRoom, Change, SaveRoom
  <2>8. ASSUME NEW d \in RoomClient, NEW op, NEW a, CallRoom(d, op, a) PROVE roomCall'[c].step = "look"
    <3>1. d # c
        BY <2>1, <2>2, <2>8 DEF CallRoom
    <3> QED BY <2>1, <2>8, <3>1 DEF CallRoom
  <2>9. CASE CreateRoom
    <3> QED BY <2>1, <2>9 DEF CreateRoom
  <2>10. CASE UNCHANGED roomVars
    <3>1. roomCall'[c].step = "look"
        BY <2>1, <2>10 DEF roomVars
    <3> QED BY <3>1
  <2> HIDE DEF Decided
  <2> QED BY <1>1, <2>3, <2>4, <2>5, <2>6, <2>7, <2>8, <2>9, <2>10 DEF RoomNext
<1>2. RoomInv /\ [RoomNext /\ LoadedAlone']_roomVars => \A c \in RoomClient : Decided(c)
    BY <1>1
<1>3. RoomInv /\ [RoomNext /\ LoadedAlone']_roomVars => [\A c \in RoomClient : Decided(c)]_roomCall
    BY <1>2
<1> QED BY <1>3, RoomHolds, PTL DEF RoomSpecAlone, SendersAreMembers

-----------------------------------------------------------------------------
(* The cache and the index of the sessions, for any clients at work on any *)
(* sessions, the clean-up beside them, and any size of the cache.          *)

\* Set, Get and Delete of the cache keep the shape of its entries.
LEMMA CacheTyped ==
    ASSUME NEW K, NEW V, NEW cache \in [K -> [value : V, rank : Nat] \cup {Out}], NEW s \in K, NEW v \in V
    PROVE  /\ CachePut(cache, s, v) \in [K -> [value : V, rank : Nat] \cup {Out}]
           /\ CacheDelete(cache, s) \in [K -> [value : V, rank : Nat] \cup {Out}]
<1> DEFINE Entry == [value : V, rank : Nat]
           put == CachePut(cache, s, v)
           rest == CacheDelete(cache, s)
<1>1. DOMAIN put = K /\ put = [t \in K |-> put[t]] /\ DOMAIN rest = K /\ rest = [t \in K |-> rest[t]]
    BY DEF CachePut, CacheDelete
<1>2. ASSUME NEW t \in K PROVE put[t] \in Entry \cup {Out}
  <2>1. \/ put[t] = [value |-> v, rank |-> 1]
        \/ put[t] = Out
        \/ put[t] = cache[t]
        \/ InCache(cache, t) /\ put[t] = [value |-> cache[t].value, rank |-> cache[t].rank + 1]
      BY DEF CachePut, Ahead
  <2> HIDE DEF put
  <2>2. InCache(cache, t) => cache[t].value \in V /\ cache[t].rank \in Nat
      BY DEF InCache
  <2> QED BY <2>1, <2>2
<1>3. ASSUME NEW t \in K PROVE rest[t] \in Entry \cup {Out}
  <2>1. \/ rest[t] = Out
        \/ rest[t] = cache[t]
        \/ /\ InCache(cache, t) /\ InCache(cache, s) /\ cache[t].rank > cache[s].rank
           /\ rest[t] = [value |-> cache[t].value, rank |-> cache[t].rank - 1]
      BY DEF CacheDelete
  <2> HIDE DEF rest
  <2>2. \A u \in K : InCache(cache, u) => cache[u].value \in V /\ cache[u].rank \in Nat
      BY DEF InCache
  <2> QED BY <2>1, <2>2
<1> HIDE DEF put, rest, Entry
<1>4. put \in [K -> Entry \cup {Out}] /\ rest \in [K -> Entry \cup {Out}]
    BY <1>1, <1>2, <1>3
<1> QED BY <1>4 DEF put, rest, Entry

\* What Set and Get leave: the entry that was set, and of the others some.
LEMMA CachePutFacts ==
    ASSUME NEW cache \in [Session -> CachedSession \cup {Out}],
           NEW s \in Session, NEW v \in SessionRecord
    PROVE  /\ CachePut(cache, s, v) \in [Session -> CachedSession \cup {Out}]
           /\ CachePut(cache, s, v)[s].value = v
           /\ \A t \in Session \ {s} : InCache(CachePut(cache, s, v), t) =>
                 InCache(cache, t) /\ CachePut(cache, s, v)[t].value = cache[t].value
<1>1. CachePut(cache, s, v) \in [Session -> CachedSession \cup {Out}]
    BY CacheTyped DEF CachedSession
<1>2. CachePut(cache, s, v)[s].value = v
    BY DEF CachePut
<1>3. ASSUME NEW t \in Session \ {s}, InCache(CachePut(cache, s, v), t)
      PROVE  InCache(cache, t) /\ CachePut(cache, s, v)[t].value = cache[t].value
    BY <1>3 DEF CachePut, InCache, Ahead
<1> QED BY <1>1, <1>2, <1>3

\* What Delete leaves: all but the entry that was deleted.
LEMMA CacheDeleteFacts ==
    ASSUME NEW cache \in [Session -> CachedSession \cup {Out}], NEW s \in Session
    PROVE  /\ CacheDelete(cache, s) \in [Session -> CachedSession \cup {Out}]
           /\ ~InCache(CacheDelete(cache, s), s)
           /\ \A t \in Session \ {s} : InCache(CacheDelete(cache, s), t) =>
                 InCache(cache, t) /\ CacheDelete(cache, s)[t].value = cache[t].value
<1>1. ~InCache(CacheDelete(cache, s), s)
    BY DEF CacheDelete, InCache
<1>2. ASSUME NEW t \in Session \ {s}, InCache(CacheDelete(cache, s), t)
      PROVE  InCache(cache, t) /\ CacheDelete(cache, s)[t].value = cache[t].value
    BY <1>2 DEF CacheDelete, InCache
<1>3. CacheDelete(cache, s) \in [Session -> CachedSession \cup {Out}]
  <2>1. [state |-> "active", stamp |-> 0] \in SessionRecord
      BY SessionBounds DEF SessionRecord, SessionState
  <2> QED BY <2>1, CacheTyped DEF CachedSession
<1> QED BY <1>1, <1>2, <1>3

\* What the invariant says of one call.
LEMMA CallFacts ==
    ASSUME SessionInv, NEW c \in SessionActor
    PROVE  /\ sessionCall[c] \in SessionCallType
           /\ CallShape(sessionCall[c], made)
           /\ CallFits(sessionCall[c], sessions, torn, crossed)
BY DEF SessionInv, SessionTypeOK, CallsFit

\* Counting calls make sessions of their own; a call that goes on goes on with the same.
OwnTarget(c, k) ==
    Counts(k) => \/ Counts(sessionCall[c]) /\ k.target = sessionCall[c].target
                 \/ \A d \in SessionActor \ {c} : Counts(sessionCall[d]) => sessionCall[d].target # k.target

\* What a step of c may change, while it leaves the records alone: its call, and the cache and
\* the index where it sets them right, or where it is not the one to do that.
StepFits(c, k) ==
    /\ k \in SessionCallType /\ sessionCall' = [sessionCall EXCEPT ![c] = k]
    /\ UNCHANGED <<sessions, made, now, torn, crossed>>
    /\ sessionIndex' \subseteq Session
    /\ sessionCache' \in [Session -> CachedSession \cup {Out}]
    /\ CallShape(k, made) /\ CallFits(k, sessions, torn, crossed) /\ OwnTarget(c, k)
    /\ \A s \in Session \ crossed :
          \/ InCache(sessionCache', s) => sessionCache'[s].value = sessions[s]
          \/ k.at = s /\ k.step \in {"index", "recache", "unindex", "uncache"}
          \/ /\ ~Recaching(c, s)
             /\ InCache(sessionCache', s) =>
                   InCache(sessionCache, s) /\ sessionCache'[s].value = sessionCache[s].value
    /\ \A s \in Session \ torn :
          \/ s \in sessionIndex' <=> sessions[s] # NoSession
          \/ k.at = s /\ k.step \in {"index", "unindex"}
          \/ ~Relisting(c, s) /\ (s \in sessionIndex' <=> s \in sessionIndex)

\* Other calls stay as they are, and there to mend what they have to.
LEMMA SessionStepFits ==
    ASSUME SessionInv, NEW c \in SessionActor, NEW k, StepFits(c, k)
    PROVE  SessionInv'
<1>1. /\ k \in SessionCallType /\ sessionCall' = [sessionCall EXCEPT ![c] = k]
      /\ UNCHANGED <<sessions, made, now, torn, crossed>>
      /\ sessionIndex' \subseteq Session
      /\ sessionCache' \in [Session -> CachedSession \cup {Out}]
      /\ CallShape(k, made) /\ CallFits(k, sessions, torn, crossed) /\ OwnTarget(c, k)
    BY DEF StepFits
<1>2. sessionCall \in [SessionActor -> SessionCallType]
    BY DEF SessionInv, SessionTypeOK
<1>3. /\ sessionCall'[c] = k
      /\ \A d \in SessionActor \ {c} : sessionCall'[d] = sessionCall[d]
    BY <1>1, <1>2
<1>4. SessionTypeOK'
    BY <1>1, <1>2 DEF SessionInv, SessionTypeOK
<1>5. CallsFit'
  <2>1. ASSUME NEW d \in SessionActor
        PROVE  CallShape(sessionCall'[d], made') /\ CallFits(sessionCall'[d], sessions', torn', crossed')
      BY <1>1, <1>3, CallFacts
  <2>2. ASSUME NEW d \in SessionActor, NEW e \in SessionActor, d # e,
               Counts(sessionCall'[d]), Counts(sessionCall'[e])
        PROVE  sessionCall'[d].target # sessionCall'[e].target
    <3>1. \A b, f \in SessionActor : b # f /\ Counts(sessionCall[b]) /\ Counts(sessionCall[f])
              => sessionCall[b].target # sessionCall[f].target
        BY DEF SessionInv, CallsFit
    <3>2. CASE d # c /\ e # c
        BY <1>3, <2>2, <3>1, <3>2
    <3>3. CASE d = c
        BY <1>1, <1>3, <2>2, <3>1, <3>3 DEF OwnTarget
    <3>4. CASE e = c
        BY <1>1, <1>3, <2>2, <3>1, <3>4 DEF OwnTarget
    <3> QED BY <3>2, <3>3, <3>4
  <2>3. \A d, e \in SessionActor :
            d # e /\ Counts(sessionCall'[d]) /\ Counts(sessionCall'[e])
            => sessionCall'[d].target # sessionCall'[e].target
      BY <2>2
  <2> QED BY <2>1, <2>3 DEF CallsFit, Counts
<1>6. ASSUME NEW s \in Session \ crossed'
      PROVE  \/ InCache(sessionCache', s) => sessionCache'[s].value = sessions'[s]
             \/ \E d \in SessionActor : Recaching(d, s)'
  <2>1. CASE InCache(sessionCache', s) => sessionCache'[s].value = sessions[s]
      BY <1>1, <2>1
  <2>2. CASE k.at = s /\ k.step \in {"index", "recache", "unindex", "uncache"}
      BY <1>3, <2>2 DEF Recaching
  <2>3. CASE /\ ~Recaching(c, s)
             /\ InCache(sessionCache', s) =>
                   InCache(sessionCache, s) /\ sessionCache'[s].value = sessionCache[s].value
    <3>1. CASE InCache(sessionCache, s) => sessionCache[s].value = sessions[s]
        BY <1>1, <2>3, <3>1
    <3>2. CASE \E d \in SessionActor : Recaching(d, s)
      <4>1. PICK d \in SessionActor : Recaching(d, s)
          BY <3>2
      <4>2. Recaching(d, s)'
          BY <1>3, <2>3, <4>1 DEF Recaching
      <4> QED BY <4>2
    <3> QED BY <1>1, <3>1, <3>2 DEF SessionInv, CacheSettles
  <2> QED BY <1>1, <2>1, <2>2, <2>3 DEF StepFits
<1>7. ASSUME NEW s \in Session \ torn'
      PROVE  \/ s \in sessionIndex' <=> sessions'[s] # NoSession
             \/ \E d \in SessionActor : Relisting(d, s)'
  <2>1. CASE s \in sessionIndex' <=> sessions[s] # NoSession
      BY <1>1, <2>1
  <2>2. CASE k.at = s /\ k.step \in {"index", "unindex"}
      BY <1>3, <2>2 DEF Relisting
  <2>3. CASE ~Relisting(c, s) /\ (s \in sessionIndex' <=> s \in sessionIndex)
    <3>1. CASE s \in sessionIndex <=> sessions[s] # NoSession
        BY <1>1, <2>3, <3>1
    <3>2. CASE \E d \in SessionActor : Relisting(d, s)
      <4>1. PICK d \in SessionActor : Relisting(d, s)
          BY <3>2
      <4>2. Relisting(d, s)'
          BY <1>3, <2>3, <4>1 DEF Relisting
      <4> QED BY <4>2
    <3> QED BY <1>1, <3>1, <3>2 DEF SessionInv, IndexSettles
  <2> QED BY <1>1, <2>1, <2>2, <2>3 DEF StepFits
<1> QED BY <1>4, <1>5, <1>6, <1>7 DEF SessionInv, CacheSettles, IndexSettles

\* What a step of c that changes the record of s does: it has the index and the cache still to
\* set right, and notes in torn whether the index will be.
ChangeFits(c, s, r, l) ==
    /\ s = sessionCall[c].at /\ s \in Session /\ r \in SessionRecord \cup {NoSession}
    /\ ChangeRecord(c, s, r)
    /\ UNCHANGED <<sessionIndex, sessionCache, now>>
    /\ l \in SessionCallType /\ sessionCall' = [sessionCall EXCEPT ![c] = l]
    /\ l.copy = r \/ l.step = "unindex"
    /\ CallShape(l, made') /\ l.at = s
    /\ \/ /\ l.step = "index" /\ r # NoSession /\ s \notin made /\ torn' = torn
          /\ Counts(sessionCall[c]) /\ sessionCall[c].target = s /\ made' = made \cup {s}
       \/ /\ l.step = "recache" /\ r # NoSession /\ s \in made /\ made' = made
          /\ sessionCall[c].step = "write"
          /\ torn' = IF sessions[s] = NoSession THEN torn \cup {s} ELSE torn
       \/ /\ l.step = "unindex" /\ r = NoSession /\ made' = made /\ sessionCall[c].step = "drop"
          /\ torn' = IF \E d \in SessionActor : AtStep(d, "index") /\ sessionCall[d].at = s
                     THEN torn \cup {s} ELSE torn \ {s}

\* Calls that hold the old record are noted in crossed; those at other sessions notice nothing.
LEMMA SessionChangeFits ==
    ASSUME SessionInv, NEW c \in SessionActor, NEW s, NEW r, NEW l, ChangeFits(c, s, r, l)
    PROVE  SessionInv'
<1>1. /\ s = sessionCall[c].at /\ s \in Session /\ r \in SessionRecord \cup {NoSession}
      /\ sessions' = [sessions EXCEPT ![s] = r]
      /\ crossed' = IF \E d \in SessionActor \ {c} : Caching(d, s) THEN crossed \cup {s} ELSE crossed \ {s}
      /\ UNCHANGED <<sessionIndex, sessionCache, now>>
      /\ l \in SessionCallType /\ sessionCall' = [sessionCall EXCEPT ![c] = l]
      /\ CallShape(l, made') /\ l.at = s
    BY DEF ChangeFits, ChangeRecord
<1>2. /\ sessionCall \in [SessionActor -> SessionCallType]
      /\ sessions \in [Session -> SessionRecord \cup {NoSession}]
    BY DEF SessionInv, SessionTypeOK
<1>3. /\ sessionCall'[c] = l
      /\ \A d \in SessionActor \ {c} : sessionCall'[d] = sessionCall[d]
      /\ sessions'[s] = r /\ \A t \in Session \ {s} : sessions'[t] = sessions[t]
      /\ \A t \in Session \ {s} : (t \in crossed' <=> t \in crossed) /\ (t \in torn' <=> t \in torn)
    BY <1>1, <1>2 DEF ChangeFits
<1>4. l.step \in {"index", "recache", "unindex"}
    BY DEF ChangeFits
<1>5. SessionTypeOK'
  <2>1. made' \subseteq Session /\ \A t \in Session : sessions'[t] # NoSession => t \in made'
      BY <1>1, <1>3 DEF ChangeFits, SessionInv, SessionTypeOK
  <2> QED BY <1>1, <1>2, <2>1 DEF SessionInv, SessionTypeOK
<1>6. ASSUME NEW d \in SessionActor \ {c}
      PROVE  CallShape(sessionCall[d], made') /\ CallFits(sessionCall[d], sessions', torn', crossed')
  <2> DEFINE k == sessionCall[d]
  <2>1. k \in SessionCallType /\ CallShape(k, made) /\ CallFits(k, sessions, torn, crossed)
      BY CallFacts
  <2>2. CallShape(k, made')
    <3>1. Counts(k) => k.target \notin made'
      <4>1. CASE made' = made
          BY <2>1, <4>1 DEF CallShape
      <4>2. CASE Counts(sessionCall[c]) /\ sessionCall[c].target = s /\ made' = made \cup {s}
          BY <2>1, <4>2 DEF SessionInv, CallsFit, CallShape
      <4> QED BY <4>1, <4>2 DEF ChangeFits
    <3>2. made \subseteq made'
        BY DEF ChangeFits
    <3> QED BY <2>1, <3>1, <3>2 DEF CallShape
  <2> SUFFICES CallFits(k, sessions', torn', crossed')
      BY <2>2
  <2> HIDE DEF k
  <2>3. CASE k.at # s \/ k.step \notin {"fill", "index", "recache", "unindex"}
    <3>1. k.step \in {"fill", "index", "recache", "unindex"} => k.at \in Session \ {s}
        BY <2>1, <2>3 DEF CallShape
    <3>2. k.step \in {"fill", "index", "recache", "unindex"} =>
              /\ sessions'[k.at] = sessions[k.at]
              /\ (k.at \in crossed' <=> k.at \in crossed) /\ (k.at \in torn' <=> k.at \in torn)
        BY <1>3, <3>1
    <3> QED BY <2>1, <2>2, <3>2 DEF CallFits
  <2>4. CASE k.at = s /\ k.step \in {"fill", "recache"}
    <3>1. s \in crossed'
        BY <1>1, <2>4 DEF Caching, k
    <3> QED BY <2>2, <2>4, <3>1 DEF CallFits
  <2>5. CASE k.at = s /\ k.step = "index"
    <3>1. s \in crossed'
        BY <1>1, <2>5 DEF Caching, k
    <3>2. r = NoSession => s \in torn'
        BY <2>5 DEF ChangeFits, AtStep, k
    <3> QED BY <1>3, <2>2, <2>5, <3>1, <3>2 DEF CallFits
  <2>6. CASE k.at = s /\ k.step = "unindex"
    <3>1. s \in made /\ (s \notin torn => sessions[s] = NoSession)
        BY <2>1, <2>6 DEF CallShape, CallFits
    <3>2. r # NoSession => s \in torn'
        BY <3>1 DEF ChangeFits
    <3> QED BY <1>3, <2>2, <2>6, <3>2 DEF CallFits
  <2> QED BY <2>3, <2>4, <2>5, <2>6
<1>7. CallFits(l, sessions', torn', crossed')
    BY <1>1, <1>3, <1>4 DEF CallFits, ChangeFits
<1>8. CallsFit'
  <2>1. ASSUME NEW d \in SessionActor
        PROVE  CallShape(sessionCall'[d], made') /\ CallFits(sessionCall'[d], sessions', torn', crossed')
      BY <1>1, <1>3, <1>6, <1>7
  <2>2. ~Counts(l)
      BY <1>4 DEF Counts
  <2>3. \A d, e \in SessionActor : d # e /\ Counts(sessionCall[d]) /\ Counts(sessionCall[e])
            => sessionCall[d].target # sessionCall[e].target
      BY DEF SessionInv, CallsFit
  <2>4. \A d, e \in SessionActor : d # e /\ Counts(sessionCall'[d]) /\ Counts(sessionCall'[e])
            => sessionCall'[d].target # sessionCall'[e].target
      BY <1>3, <2>2, <2>3
  <2> QED BY <2>1, <2>4 DEF CallsFit, Counts
<1>9. ASSUME NEW t \in Session \ crossed'
      PROVE  \/ InCache(sessionCache', t) => sessionCache'[t].value = sessions'[t]
             \/ \E d \in SessionActor : Recaching(d, t)'
  <2>1. CASE t = s
      BY <1>1, <1>3, <1>4, <2>1 DEF Recaching
  <2>2. CASE t # s
    <3>1. CASE InCache(sessionCache, t) => sessionCache[t].value = sessions[t]
        BY <1>1, <1>3, <2>2, <3>1
    <3>2. CASE \E d \in SessionActor : Recaching(d, t)
      <4>1. PICK d \in SessionActor : Recaching(d, t)
          BY <3>2
      <4>2. Recaching(d, t)'
          BY <1>1, <1>3, <2>2, <4>1 DEF Recaching
      <4> QED BY <4>2
    <3> QED BY <1>3, <2>2, <3>1, <3>2 DEF SessionInv, CacheSettles
  <2> QED BY <2>1, <2>2
<1>10. ASSUME NEW t \in Session \ torn'
       PROVE  \/ t \in sessionIndex' <=> sessions'[t] # NoSession
              \/ \E d \in SessionActor : Relisting(d, t)'
  <2>1. ASSUME t \notin torn, (t \in sessionIndex <=> sessions[t] # NoSession) => (sessions'[t] # NoSession <=> sessions[t] # NoSession),
               ~Relisting(c, t)
        PROVE  \/ t \in sessionIndex' <=> sessions'[t] # NoSession
               \/ \E d \in SessionActor : Relisting(d, t)'
    <3>1. CASE t \in sessionIndex <=> sessions[t] # NoSession
        BY <1>1, <2>1, <3>1
    <3>2. CASE \E d \in SessionActor : Relisting(d, t)
      <4>1. PICK d \in SessionActor : Relisting(d, t)
          BY <3>2
      <4>2. Relisting(d, t)'
          BY <1>3, <2>1, <4>1 DEF Relisting
      <4> QED BY <4>2
    <3> QED BY <2>1, <3>1, <3>2 DEF SessionInv, IndexSettles
  <2>2. CASE t = s /\ l.step \in {"index", "unindex"}
      BY <1>1, <1>3, <2>2 DEF Relisting
  <2>3. CASE t = s /\ l.step = "recache"
    <3>1. sessionCall[c].step = "write" /\ r # NoSession
          /\ torn' = IF sessions[s] = NoSession THEN torn \cup {s} ELSE torn
        BY <2>3 DEF ChangeFits
    <3>2. sessions[t] # NoSession /\ t \notin torn /\ sessions'[t] # NoSession
        BY <1>3, <2>3, <3>1
    <3>3. ~Relisting(c, t)
        BY <3>1 DEF Relisting
    <3> QED BY <2>1, <3>2, <3>3
  <2>4. CASE t # s
    <3>1. t \notin torn /\ sessions'[t] = sessions[t] /\ ~Relisting(c, t)
        BY <1>1, <1>3, <2>4 DEF Relisting
    <3> QED BY <2>1, <3>1
  <2> QED BY <1>4, <2>2, <2>3, <2>4
<1> QED BY <1>5, <1>8, <1>9, <1>10 DEF SessionInv, CacheSettles, IndexSettles

\* A call that is over fits, whatever is stored.
LEMMA IdleFits ==
    /\ NoSessionCall \in SessionCallType /\ ~Counts(NoSessionCall) /\ ~Judges(NoSessionCall)
    /\ NoSessionCall.step = "idle" /\ NoSessionCall.at = NoSession /\ NoSessionCall.op = "none"
    /\ \A stored : CallShape(NoSessionCall, stored)
    /\ \A records, astray, crossing : CallFits(NoSessionCall, records, astray, crossing)
<1>1. /\ NoSessionCall = [op |-> "none", target |-> NoSession, to |-> "active", step |-> "idle",
                          at |-> NoSession, copy |-> NoSession, todo |-> {}, count |-> 0]
    BY DEF NoSessionCall, SessionCall
<1>2. NoSessionCall \in SessionCallType
    BY <1>1 DEF SessionCallType, SessionState
<1>3. ~Counts(NoSessionCall) /\ ~Judges(NoSessionCall)
    BY <1>1 DEF Counts, Judges
<1> QED BY <1>1, <1>2, <1>3 DEF CallShape, CallFits

\* Where a call goes on from the session it got.
LEMMA AfterGetCases ==
    ASSUME NEW k \in SessionCallType, k.op # "none", NEW r \in SessionRecord, now \in 0..MaxNow
    PROVE  \/ AfterGet(k, r) = NoSessionCall
           \/ /\ k.op \in {"list", "create", "clean"}
              /\ \E n \in Nat : /\ AfterGet(k, r) = [k EXCEPT !.step = "next", !.copy = NoSession, !.count = n]
                                /\ k.op = "create" => n = IF Open(r) THEN k.count + 1 ELSE k.count
           \/ k.op = "delete" /\ AfterGet(k, r) = [k EXCEPT !.step = "drop", !.copy = NoSession]
           \/ /\ k.op \in {"beat", "set", "move", "clean"}
              /\ \E q \in SessionRecord :
                    /\ AfterGet(k, r) = [k EXCEPT !.step = "write", !.copy = q]
                    /\ k.op = "beat" => q.state = r.state
                    /\ k.op \in {"move", "clean"} => CanTransition(r.state, q.state)
<1>1. k.op \in {"create", "list", "get", "delete", "beat", "set", "move", "clean"}
      /\ k.to \in SessionState /\ k.count \in Nat
    BY DEF SessionCallType
<1>2. CASE k.op = "get"
    BY <1>2 DEF AfterGet
<1>3. CASE k.op \in {"create", "list"}
  <2> DEFINE n == IF Open(r) THEN k.count + 1 ELSE k.count
  <2>1. AfterGet(k, r) = [k EXCEPT !.step = "next", !.copy = NoSession, !.count = n]
      BY <1>3 DEF AfterGet
  <2>2. n \in Nat
      BY <1>1
  <2> QED BY <1>3, <2>1, <2>2
<1>4. CASE k.op = "delete"
    BY <1>4 DEF AfterGet
<1>5. CASE k.op = "beat"
  <2> DEFINE q == [r EXCEPT !.stamp = now]
  <2>1. q \in SessionRecord /\ q.state = r.state
      BY DEF SessionRecord
  <2>2. AfterGet(k, r) = [k EXCEPT !.step = "write", !.copy = q]
      BY <1>5 DEF AfterGet, WriteBack
  <2> QED BY <1>5, <2>1, <2>2
<1>6. CASE k.op = "set"
  <2> DEFINE q == [r EXCEPT !.state = k.to]
  <2>1. q \in SessionRecord
      BY <1>1 DEF SessionRecord
  <2>2. AfterGet(k, r) = [k EXCEPT !.step = "write", !.copy = q]
      BY <1>6 DEF AfterGet, WriteBack
  <2> QED BY <1>6, <2>1, <2>2
<1>7. CASE k.op \in {"move", "clean"} /\ CanTransition(r.state, k.to)
  <2> DEFINE q == [state |-> k.to, stamp |-> now]
  <2>1. q \in SessionRecord /\ q.state = k.to
      BY <1>1 DEF SessionRecord
  <2>2. AfterGet(k, r) = [k EXCEPT !.step = "write", !.copy = q]
      BY <1>7 DEF AfterGet, WriteBack
  <2> QED BY <1>7, <2>1, <2>2
<1>8. CASE k.op = "move" /\ ~CanTransition(r.state, k.to)
    BY <1>8 DEF AfterGet, EndCall
<1>9. CASE k.op = "clean" /\ ~CanTransition(r.state, k.to)
  <2>1. AfterGet(k, r) = [k EXCEPT !.step = "next", !.copy = NoSession]
      BY <1>9 DEF AfterGet, EndCall
  <2>2. [k EXCEPT !.step = "next", !.copy = NoSession] = [k EXCEPT !.step = "next", !.copy = NoSession, !.count = k.count]
      BY DEF SessionCallType
  <2> QED BY <1>1, <1>9, <2>1, <2>2
<1> QED BY <1>1, <1>2, <1>3, <1>4, <1>5, <1>6, <1>7, <1>8, <1>9

\* A call that has got its session fits.
LEMMA AfterGetFits ==
    ASSUME SessionInv, NEW c \in SessionActor, NEW r \in SessionRecord,
           sessionCall[c].step \in {"lookup", "fill"}
    PROVE  /\ AfterGet(sessionCall[c], r) \in SessionCallType
           /\ CallShape(AfterGet(sessionCall[c], r), made)
           /\ CallFits(AfterGet(sessionCall[c], r), sessions, torn, crossed)
           /\ OwnTarget(c, AfterGet(sessionCall[c], r))
           /\ AfterGet(sessionCall[c], r).step \in {"idle", "next", "drop", "write"}
<1> DEFINE k == sessionCall[c]
<1>1. k \in SessionCallType /\ CallShape(k, made) /\ now \in 0..MaxNow
    BY CallFacts DEF SessionInv, SessionTypeOK
<1>2. /\ k.op # "none" /\ k.at \in Session
      /\ k.op \notin {"create", "list"} => k.at \in made
      /\ k.op = "clean" => k.todo \subseteq made
      /\ k.op = "create" => k.target \in Session /\ Counts(k) /\ k.target \notin made
    BY <1>1 DEF CallShape, Counts
<1>3. ASSUME NEW l \in SessionCallType, l.op = k.op, l.at = k.at, l.target = k.target, l.todo = k.todo,
             \/ l.step = "next" /\ l.op \in {"list", "create", "clean"}
             \/ l.step = "drop" /\ l.op = "delete"
             \/ l.step = "write" /\ l.op \in {"beat", "set", "move", "clean"} /\ l.copy \in SessionRecord
      PROVE  /\ l \in SessionCallType /\ CallShape(l, made) /\ CallFits(l, sessions, torn, crossed)
             /\ OwnTarget(c, l)
             /\ l.step \in {"idle", "next", "drop", "write"}
  <2> HIDE DEF k
  <2>1. CallShape(l, made) /\ CallFits(l, sessions, torn, crossed)
      BY <1>2, <1>3 DEF CallShape, CallFits, Counts
  <2>2. Counts(l) => Counts(k) /\ l.target = k.target
      BY <1>2, <1>3 DEF Counts
  <2> QED BY <1>3, <2>1, <2>2 DEF OwnTarget, k
<1>4. CASE AfterGet(k, r) = NoSessionCall
    BY <1>4, IdleFits DEF OwnTarget
<1>5. CASE /\ k.op \in {"list", "create", "clean"}
           /\ \E n \in Nat : /\ AfterGet(k, r) = [k EXCEPT !.step = "next", !.copy = NoSession, !.count = n]
                             /\ k.op = "create" => n = IF Open(r) THEN k.count + 1 ELSE k.count
  <2>1. PICK n \in Nat : AfterGet(k, r) = [k EXCEPT !.step = "next", !.copy = NoSession, !.count = n]
      BY <1>5
  <2> DEFINE l == [k EXCEPT !.step = "next", !.copy = NoSession, !.count = n]
  <2>2. l \in SessionCallType /\ l.op = k.op /\ l.at = k.at /\ l.target = k.target /\ l.todo = k.todo
        /\ l.step = "next"
      BY <1>1 DEF SessionCallType
  <2> HIDE DEF l
  <2> QED BY <1>3, <1>5, <2>1, <2>2 DEF l
<1>6. CASE k.op = "delete" /\ AfterGet(k, r) = [k EXCEPT !.step = "drop", !.copy = NoSession]
  <2> DEFINE l == [k EXCEPT !.step = "drop", !.copy = NoSession]
  <2>2. l \in SessionCallType /\ l.op = k.op /\ l.at = k.at /\ l.target = k.target /\ l.todo = k.todo
        /\ l.step = "drop"
      BY <1>1 DEF SessionCallType
  <2> HIDE DEF l
  <2> QED BY <1>3, <1>6, <2>2 DEF l
<1>7. CASE /\ k.op \in {"beat", "set", "move", "clean"}
           /\ \E q \in SessionRecord : /\ AfterGet(k, r) = [k EXCEPT !.step = "write", !.copy = q]
                                       /\ k.op = "beat" => q.state = r.state
                                       /\ k.op \in {"move", "clean"} => CanTransition(r.state, q.state)
  <2>1. PICK q \in SessionRecord : AfterGet(k, r) = [k EXCEPT !.step = "write", !.copy = q]
      BY <1>7
  <2> DEFINE l == [k EXCEPT !.step = "write", !.copy = q]
  <2>2. l \in SessionCallType /\ l.op = k.op /\ l.at = k.at /\ l.target = k.target /\ l.todo = k.todo
        /\ l.step = "write" /\ l.copy = q
      BY <1>1 DEF SessionCallType
  <2> HIDE DEF l
  <2> QED BY <1>3, <1>7, <2>1, <2>2 DEF l
<1>8. \/ AfterGet(k, r) = NoSessionCall
      \/ /\ k.op \in {"list", "create", "clean"}
         /\ \E n \in Nat : /\ AfterGet(k, r) = [k EXCEPT !.step = "next", !.copy = NoSession, !.count = n]
                           /\ k.op = "create" => n = IF Open(r) THEN k.count + 1 ELSE k.count
      \/ k.op = "delete" /\ AfterGet(k, r) = [k EXCEPT !.step = "drop", !.copy = NoSession]
      \/ /\ k.op \in {"beat", "set", "move", "clean"}
         /\ \E q \in SessionRecord : /\ AfterGet(k, r) = [k EXCEPT !.step = "write", !.copy = q]
                                     /\ k.op = "beat" => q.state = r.state
                                     /\ k.op \in {"move", "clean"} => CanTransition(r.state, q.state)
  <2>1. ASSUME NEW l \in SessionCallType, l.op # "none"
        PROVE  \/ AfterGet(l, r) = NoSessionCall
               \/ /\ l.op \in {"list", "create", "clean"}
                  /\ \E n \in Nat : /\ AfterGet(l, r) = [l EXCEPT !.step = "next", !.copy = NoSession, !.count = n]
                                    /\ l.op = "create" => n = IF Open(r) THEN l.count + 1 ELSE l.count
               \/ l.op = "delete" /\ AfterGet(l, r) = [l EXCEPT !.step = "drop", !.copy = NoSession]
               \/ /\ l.op \in {"beat", "set", "move", "clean"}
                  /\ \E q \in SessionRecord : /\ AfterGet(l, r) = [l EXCEPT !.step = "write", !.copy = q]
                                              /\ l.op = "beat" => q.state = r.state
                                              /\ l.op \in {"move", "clean"} => CanTransition(r.state, q.state)
      BY <1>1, <2>1, AfterGetCases
  <2> QED BY <1>1, <1>2, <2>1
<1> QED BY <1>4, <1>5, <1>6, <1>7, <1>8

\* A step of a call that leaves the index alone, and in the cache right what was right.
LEMMA CallStepFits ==
    ASSUME SessionInv, NEW c \in SessionActor, NEW k \in SessionCallType,
           sessionCall' = [sessionCall EXCEPT ![c] = k],
           CallShape(k, made), CallFits(k, sessions, torn, crossed), OwnTarget(c, k),
           UNCHANGED <<sessions, sessionIndex, sessionCache, made, now, torn, crossed>>,
           sessionCall[c].step \notin {"index", "recache", "unindex", "uncache"}
    PROVE  SessionInv'
<1>1. sessionIndex \subseteq Session /\ sessionCache \in [Session -> CachedSession \cup {Out}]
    BY DEF SessionInv, SessionTypeOK
<1>2. StepFits(c, k)
    BY <1>1 DEF StepFits, Recaching, Relisting
<1> QED BY <1>2, SessionStepFits

\* A new call fits.
LEMMA NewCallFits ==
    ASSUME NEW s \in Session, NEW to \in SessionState, NEW todo \in SUBSET Session,
           NEW op \in {"create", "list", "get", "delete", "beat", "set", "move"},
           NEW step \in {"lookup", "record", "next"},
           step = "next" => op \in {"create", "list"}, step = "record" => op = "create",
           op = "create" => s \notin made /\ step # "lookup", step = "lookup" => s \in made,
           NEW k, k = [op |-> op, target |-> s, to |-> to, step |-> step, at |-> s,
                       copy |-> NoSession, todo |-> todo, count |-> 0]
    PROVE  k \in SessionCallType /\ CallShape(k, made) /\ CallFits(k, sessions, torn, crossed)
<1>1. k \in SessionCallType
    BY DEF SessionCallType
<1>2. CallShape(k, made) /\ CallFits(k, sessions, torn, crossed)
    BY DEF CallShape, CallFits, Counts
<1> QED BY <1>1, <1>2

\* A call begins.
LEMMA BeginStep ==
    ASSUME SessionInv, NEW c \in SessionActor, NEW k \in SessionCallType, BeginCall(c, k),
           CallShape(k, made), CallFits(k, sessions, torn, crossed), OwnTarget(c, k)
    PROVE  SessionInv'
<1>1. /\ sessionCall[c] = NoSessionCall /\ sessionCall' = [sessionCall EXCEPT ![c] = k]
      /\ UNCHANGED <<sessions, sessionIndex, sessionCache, made, now, torn, crossed>>
    BY DEF BeginCall
<1> QED BY <1>1, IdleFits, CallStepFits

\* StartCreate: nobody else makes the same session.
LEMMA StartCreateStep ==
    ASSUME SessionInv, NEW c \in SessionClient, NEW s \in Session, StartCreate(c, s)
    PROVE  SessionInv'
<1>1. /\ AgentSessions(Owner[s]) \in SUBSET Session /\ {} \in SUBSET Session
      /\ "active" \in SessionState /\ s \notin made /\ c \in SessionActor
    BY DEF AgentSessions, SessionInv, SessionTypeOK, SessionState, StartCreate, SessionActor
<1>2. PICK step \in {"record", "next"}, todo \in {AgentSessions(Owner[s]), {}} :
          BeginCall(c, [op |-> "create", target |-> s, to |-> "active", step |-> step, at |-> s,
                        copy |-> NoSession, todo |-> todo, count |-> 0])
    BY DEF StartCreate, SessionCall
<1> DEFINE k == [op |-> "create", target |-> s, to |-> "active", step |-> step, at |-> s,
                 copy |-> NoSession, todo |-> todo, count |-> 0]
<1>3. k.op = "create" /\ k.target = s
    OBVIOUS
<1>4. k = [op |-> "create", target |-> s, to |-> "active", step |-> step, at |-> s,
           copy |-> NoSession, todo |-> todo, count |-> 0]
    OBVIOUS
<1>5. BeginCall(c, k)
    BY <1>2
<1> HIDE DEF k
<1>6. k \in SessionCallType /\ CallShape(k, made) /\ CallFits(k, sessions, torn, crossed)
  <2>1. todo \in SUBSET Session
      BY <1>1
  <2> QED BY <1>1, <1>4, <2>1, NewCallFits
<1>7. OwnTarget(c, k)
    BY <1>3 DEF OwnTarget, StartCreate
<1> QED BY <1>1, <1>5, <1>6, <1>7, BeginStep

\* StartList and StartCall.
LEMMA StartStep ==
    ASSUME SessionInv, NEW c \in SessionClient, NEW s \in Session,
           \/ StartList(c, s)
           \/ \E op \in {"get", "delete", "beat", "set", "move"}, to \in SessionState : StartCall(c, s, op, to)
    PROVE  SessionInv'
<1>1. AgentSessions(Owner[s]) \in SUBSET Session /\ "active" \in SessionState /\ c \in SessionActor
    BY DEF AgentSessions, SessionInv, SessionTypeOK, SessionState, SessionActor
<1>2. PICK op \in {"list", "get", "delete", "beat", "set", "move"}, to \in SessionState,
           step \in {"lookup", "next"}, todo \in {AgentSessions(Owner[s]), {}} :
          /\ step = "next" => op = "list"
          /\ step = "lookup" => s \in made
          /\ BeginCall(c, [op |-> op, target |-> s, to |-> to, step |-> step, at |-> s,
                           copy |-> NoSession, todo |-> todo, count |-> 0])
  <2>1. CASE StartList(c, s)
    <3>1. BeginCall(c, [op |-> "list", target |-> s, to |-> "active", step |-> "next", at |-> s,
                        copy |-> NoSession, todo |-> AgentSessions(Owner[s]), count |-> 0])
        BY <2>1 DEF StartList, SessionCall
    <3> QED BY <1>1, <3>1
  <2>2. CASE \E op \in {"get", "delete", "beat", "set", "move"}, to \in SessionState : StartCall(c, s, op, to)
    <3>1. PICK op \in {"get", "delete", "beat", "set", "move"}, to \in SessionState : StartCall(c, s, op, to)
        BY <2>2
    <3>2. s \in made /\ BeginCall(c, [op |-> op, target |-> s, to |-> to, step |-> "lookup", at |-> s,
                                      copy |-> NoSession, todo |-> {}, count |-> 0])
        BY <3>1 DEF StartCall, SessionCall
    <3> QED BY <3>2
  <2> QED BY <2>1, <2>2
<1> DEFINE k == [op |-> op, target |-> s, to |-> to, step |-> step, at |-> s,
                 copy |-> NoSession, todo |-> todo, count |-> 0]
<1>3. /\ k.op # "create"
      /\ k = [op |-> op, target |-> s, to |-> to, step |-> step, at |-> s,
              copy |-> NoSession, todo |-> todo, count |-> 0]
    OBVIOUS
<1>4. BeginCall(c, k)
    BY <1>2
<1> HIDE DEF k
<1>5. k \in SessionCallType /\ CallShape(k, made) /\ CallFits(k, sessions, torn, crossed)
  <2>1. todo \in SUBSET Session
      BY <1>1
  <2> QED BY <1>2, <1>3, <2>1, NewCallFits
<1> QED BY <1>1, <1>3, <1>4, <1>5, BeginStep DEF OwnTarget, Counts

\* The clean-up takes on what is stored.
LEMMA StartCleanupStep == ASSUME SessionInv, StartCleanup PROVE SessionInv'
<1> DEFINE expired == {s \in Session : /\ sessions[s] # NoSession /\ Open(sessions[s])
                                       /\ sessions[s].stamp < now}
           k == [SessionCall("clean", NoSession, "failed", "next") EXCEPT !.todo = expired]
<1>1. BeginCall(Cleaner, k) /\ expired \in SUBSET Session /\ expired \subseteq made
    BY DEF StartCleanup, SessionInv, SessionTypeOK
<1> HIDE DEF expired
<1>2. k = [op |-> "clean", target |-> NoSession, to |-> "failed", step |-> "next", at |-> NoSession,
           copy |-> NoSession, todo |-> expired, count |-> 0]
    BY DEF SessionCall
<1> HIDE DEF k
<1>3. k \in SessionCallType
    BY <1>1, <1>2 DEF SessionCallType, SessionState
<1>4. CallShape(k, made) /\ CallFits(k, sessions, torn, crossed)
    BY <1>1, <1>2 DEF CallShape, CallFits, Counts
<1> QED BY <1>1, <1>2, <1>3, <1>4, BeginStep DEF OwnTarget, Counts, SessionActor

\* The three accesses of Get.
LEMMA GetStep ==
    ASSUME SessionInv, NEW c \in SessionActor, LookupSession(c) \/ ReadSession(c) \/ FillCache(c)
    PROVE  SessionInv'
<1> DEFINE k == sessionCall[c]
<1>1. /\ k \in SessionCallType /\ CallShape(k, made) /\ CallFits(k, sessions, torn, crossed)
      /\ k.step \in {"lookup", "read", "fill"} /\ k.at \in Session
      /\ UNCHANGED <<sessions, sessionIndex, made, now, torn, crossed>>
  <2>1. k.step \in {"lookup", "read", "fill"}
      BY DEF LookupSession, ReadSession, FillCache, AtStep
  <2>2. k \in SessionCallType /\ CallShape(k, made) /\ CallFits(k, sessions, torn, crossed)
      BY CallFacts
  <2>3. k.at \in Session
      BY <2>1, <2>2 DEF CallShape
  <2> QED BY <2>1, <2>2, <2>3 DEF LookupSession, ReadSession, FillCache, crossVars
<1>2. /\ sessionCache \in [Session -> CachedSession \cup {Out}] /\ sessionIndex \subseteq Session
      /\ sessions \in [Session -> SessionRecord \cup {NoSession}]
    BY DEF SessionInv, SessionTypeOK
<1>3. CASE LookupSession(c) /\ InCache(sessionCache, k.at)
  <2> DEFINE r == sessionCache[k.at].value
  <2>1. r \in SessionRecord
    <3>1. sessionCache[k.at] \in CachedSession
        BY <1>1, <1>2, <1>3 DEF InCache
    <3> QED BY <3>1 DEF CachedSession
  <2>2. /\ sessionCache' = CachePut(sessionCache, k.at, r)
        /\ sessionCall' = [sessionCall EXCEPT ![c] = AfterGet(k, r)]
        /\ k.step = "lookup"
      BY <1>3 DEF LookupSession, CacheUse, AtStep
  <2>3. /\ AfterGet(k, r) \in SessionCallType /\ CallShape(AfterGet(k, r), made)
        /\ CallFits(AfterGet(k, r), sessions, torn, crossed) /\ OwnTarget(c, AfterGet(k, r))
      BY <2>1, <2>2, AfterGetFits
  <2>4. /\ sessionCache' \in [Session -> CachedSession \cup {Out}]
        /\ \A t \in Session : InCache(sessionCache', t) =>
              InCache(sessionCache, t) /\ sessionCache'[t].value = sessionCache[t].value
    <3>1. /\ CachePut(sessionCache, k.at, r) \in [Session -> CachedSession \cup {Out}]
          /\ CachePut(sessionCache, k.at, r)[k.at].value = r
          /\ \A t \in Session \ {k.at} : InCache(CachePut(sessionCache, k.at, r), t) =>
                InCache(sessionCache, t) /\ CachePut(sessionCache, k.at, r)[t].value = sessionCache[t].value
      <4> HIDE DEF r
      <4> QED BY <1>1, <1>2, <2>1, CachePutFacts
    <3> QED BY <1>3, <2>2, <3>1
  <2>5. \A s \in Session : ~Recaching(c, s) /\ ~Relisting(c, s)
      BY <2>2 DEF Recaching, Relisting
  <2>6. StepFits(c, AfterGet(k, r))
      BY <1>1, <1>2, <2>2, <2>3, <2>4, <2>5 DEF StepFits
  <2> QED BY <2>6, SessionStepFits
<1>4. CASE LookupSession(c) /\ ~InCache(sessionCache, k.at)
  <2> DEFINE l == [k EXCEPT !.step = "read"]
  <2>1. sessionCall' = [sessionCall EXCEPT ![c] = l] /\ UNCHANGED sessionCache /\ k.step = "lookup"
      BY <1>4 DEF LookupSession, AtStep
  <2>2. l \in SessionCallType /\ l.step = "read" /\ l.op = k.op /\ l.at = k.at
        /\ l.target = k.target /\ l.todo = k.todo
      BY <1>1 DEF SessionCallType
  <2> HIDE DEF l
  <2>3. CallShape(l, made) /\ CallFits(l, sessions, torn, crossed)
      BY <1>1, <2>1, <2>2 DEF CallShape, CallFits, Counts
  <2>4. OwnTarget(c, l)
      BY <2>1, <2>2 DEF OwnTarget, Counts
  <2> QED BY <1>1, <2>1, <2>2, <2>3, <2>4, CallStepFits
<1>5. CASE ReadSession(c)
  <2>1. UNCHANGED sessionCache /\ k.step = "read"
      BY <1>5 DEF ReadSession, AtStep
  <2>2. CASE sessions[k.at] # NoSession
    <3> DEFINE l == [k EXCEPT !.step = "fill", !.copy = sessions[k.at]]
    <3>1. sessions[k.at] \in SessionRecord /\ sessionCall' = [sessionCall EXCEPT ![c] = l]
        BY <1>1, <1>2, <1>5, <2>2 DEF ReadSession
    <3>2. l \in SessionCallType /\ l.step = "fill" /\ l.op = k.op /\ l.at = k.at
          /\ l.target = k.target /\ l.todo = k.todo /\ l.copy = sessions[k.at]
        BY <1>1, <3>1 DEF SessionCallType
    <3> HIDE DEF l
    <3>3. CallShape(l, made) /\ CallFits(l, sessions, torn, crossed)
        BY <1>1, <2>1, <3>1, <3>2 DEF CallShape, CallFits, Counts
    <3>4. OwnTarget(c, l)
        BY <2>1, <3>2 DEF OwnTarget, Counts
    <3> QED BY <1>1, <2>1, <3>1, <3>2, <3>3, <3>4, CallStepFits
  <2>3. CASE sessions[k.at] = NoSession /\ k.op \in {"list", "create", "clean"}
    <3> DEFINE l == [k EXCEPT !.step = "next"]
    <3>1. sessionCall' = [sessionCall EXCEPT ![c] = l]
        BY <1>5, <2>3 DEF ReadSession
    <3>2. l \in SessionCallType /\ l.step = "next" /\ l.op = k.op /\ l.at = k.at
          /\ l.target = k.target /\ l.todo = k.todo
        BY <1>1 DEF SessionCallType
    <3> HIDE DEF l
    <3>3. CallShape(l, made) /\ CallFits(l, sessions, torn, crossed)
        BY <1>1, <2>1, <2>3, <3>2 DEF CallShape, CallFits, Counts
    <3>4. OwnTarget(c, l)
        BY <2>1, <3>2 DEF OwnTarget, Counts
    <3> QED BY <1>1, <2>1, <3>1, <3>2, <3>3, <3>4, CallStepFits
  <2>4. CASE sessions[k.at] = NoSession /\ k.op \notin {"list", "create", "clean"}
    <3>1. sessionCall' = [sessionCall EXCEPT ![c] = NoSessionCall]
        BY <1>5, <2>4 DEF ReadSession
    <3> QED BY <1>1, <2>1, <3>1, IdleFits, CallStepFits DEF OwnTarget
  <2> QED BY <2>2, <2>3, <2>4
<1>6. CASE FillCache(c)
  <2> DEFINE l == AfterGet(k, k.copy)
  <2>1. /\ k.step = "fill" /\ sessionCache' = CachePut(sessionCache, k.at, k.copy)
        /\ sessionCall' = [sessionCall EXCEPT ![c] = l]
      BY <1>6 DEF FillCache, AtStep
  <2>2. k.copy \in SessionRecord /\ (k.at \notin crossed => k.copy = sessions[k.at])
      BY <1>1, <2>1 DEF CallShape, CallFits
  <2>3. /\ l \in SessionCallType /\ CallShape(l, made)
        /\ CallFits(l, sessions, torn, crossed) /\ OwnTarget(c, l)
      BY <2>1, <2>2, AfterGetFits
  <2>4. /\ sessionCache' \in [Session -> CachedSession \cup {Out}]
        /\ sessionCache'[k.at].value = k.copy
        /\ \A t \in Session \ {k.at} : InCache(sessionCache', t) =>
              InCache(sessionCache, t) /\ sessionCache'[t].value = sessionCache[t].value
      BY <1>1, <1>2, <2>1, <2>2, CachePutFacts
  <2>5. \A s \in Session : ~Recaching(c, s) /\ ~Relisting(c, s)
      BY <2>1 DEF Recaching, Relisting
  <2> HIDE DEF l
  <2>6. \A s \in Session \ crossed :
            \/ InCache(sessionCache', s) => sessionCache'[s].value = sessions[s]
            \/ /\ ~Recaching(c, s)
               /\ InCache(sessionCache', s) =>
                     InCache(sessionCache, s) /\ sessionCache'[s].value = sessionCache[s].value
      BY <2>2, <2>4, <2>5
  <2>7. StepFits(c, l)
      BY <1>1, <1>2, <2>1, <2>3, <2>4, <2>5, <2>6 DEF StepFits
  <2> QED BY <2>7, SessionStepFits
<1> QED BY <1>3, <1>4, <1>5, <1>6

\* The next of a list, and what comes after the last one.
LEMMA NextStep ==
    ASSUME SessionInv, NEW c \in SessionActor, NextListed(c)
    PROVE  SessionInv'
<1> DEFINE k == sessionCall[c]
<1>1. /\ k \in SessionCallType /\ CallShape(k, made) /\ k.step = "next"
      /\ UNCHANGED <<sessions, sessionIndex, sessionCache, made, now, torn, crossed>>
    BY CallFacts DEF NextListed, AtStep
<1>2. CASE \E s \in k.todo :
              sessionCall' = [sessionCall EXCEPT ![c] = [k EXCEPT !.step = "lookup", !.at = s, !.todo = @ \ {s}]]
  <2>1. PICK s \in k.todo :
            sessionCall' = [sessionCall EXCEPT ![c] = [k EXCEPT !.step = "lookup", !.at = s, !.todo = @ \ {s}]]
      BY <1>2
  <2> DEFINE l == [k EXCEPT !.step = "lookup", !.at = s, !.todo = @ \ {s}]
  <2>2. l \in SessionCallType /\ l.step = "lookup" /\ l.at = s /\ l.op = k.op /\ l.target = k.target
        /\ l.todo \subseteq k.todo /\ s \in Session
      BY <1>1 DEF SessionCallType
  <2>3. sessionCall' = [sessionCall EXCEPT ![c] = l]
      BY <2>1
  <2> HIDE DEF l
  <2>4. CallShape(l, made) /\ CallFits(l, sessions, torn, crossed)
      BY <1>1, <2>1, <2>2 DEF CallShape, CallFits, Counts
  <2>5. OwnTarget(c, l)
      BY <1>1, <2>2 DEF OwnTarget, Counts
  <2> QED BY <1>1, <2>2, <2>3, <2>4, <2>5, CallStepFits
<1>3. CASE /\ k.op = "create"
           /\ sessionCall' = [sessionCall EXCEPT ![c] =
                                 [k EXCEPT !.step = "record", !.at = k.target, !.count = 0]]
  <2> DEFINE l == [k EXCEPT !.step = "record", !.at = k.target, !.count = 0]
  <2>1. k.target \in Session
      BY <1>1, <1>3 DEF CallShape
  <2>2. l \in SessionCallType /\ l.step = "record" /\ l.at = l.target /\ l.op = "create" /\ l.target = k.target
        /\ l.target \in Session
      BY <1>1, <1>3, <2>1 DEF SessionCallType
  <2>3. sessionCall' = [sessionCall EXCEPT ![c] = l]
      BY <1>3
  <2> HIDE DEF l
  <2>4. CallShape(l, made) /\ CallFits(l, sessions, torn, crossed)
      BY <1>1, <1>3, <2>2 DEF CallShape, CallFits, Counts
  <2>5. OwnTarget(c, l)
      BY <1>1, <1>3, <2>2 DEF OwnTarget, Counts
  <2> QED BY <1>1, <2>2, <2>3, <2>4, <2>5, CallStepFits
<1>4. CASE sessionCall' = [sessionCall EXCEPT ![c] = NoSessionCall]
    BY <1>1, <1>4, IdleFits, CallStepFits DEF OwnTarget
<1> QED BY <1>2, <1>3, <1>4 DEF NextListed

\* The steps that change a record: the call has the index or the cache still to set right.
LEMMA ChangeStep ==
    ASSUME SessionInv, NEW c \in SessionActor, StoreSession(c) \/ WriteSession(c) \/ DropRecord(c)
    PROVE  \E s, r, l : ChangeFits(c, s, r, l)
<1> DEFINE k == sessionCall[c]
<1>1. /\ k \in SessionCallType /\ CallShape(k, made) /\ now \in 0..MaxNow
      /\ UNCHANGED <<sessionIndex, sessionCache, now>>
    BY CallFacts DEF SessionInv, SessionTypeOK, StoreSession, WriteSession, DropRecord
<1>2. CASE StoreSession(c)
  <2> DEFINE r == [state |-> "active", stamp |-> now]
             l == [k EXCEPT !.step = "index", !.copy = r]
  <2>1. /\ k.step = "record" /\ made' = made \cup {k.at} /\ torn' = torn
        /\ sessionCall' = [sessionCall EXCEPT ![c] = l]
        /\ k.op = "create" /\ k.at = k.target /\ k.at \in Session /\ Counts(k) /\ k.at \notin made
        /\ ChangeRecord(c, k.at, r)
      BY <1>1, <1>2 DEF StoreSession, AtStep, CallShape, Counts
  <2>2. r \in SessionRecord /\ r # NoSession
      BY <1>1, NoSessionAssumption DEF SessionRecord, SessionState
  <2> HIDE DEF r
  <2>3. l \in SessionCallType /\ l.step = "index" /\ l.op = k.op /\ l.at = k.at /\ l.target = k.target
        /\ l.todo = k.todo /\ l.copy = r
      BY <1>1, <2>2 DEF SessionCallType
  <2> HIDE DEF l
  <2>4. CallShape(l, made')
      BY <2>1, <2>2, <2>3 DEF CallShape, Counts
  <2> QED BY <1>1, <2>1, <2>2, <2>3, <2>4 DEF ChangeFits
<1>3. CASE WriteSession(c)
  <2> DEFINE l == [k EXCEPT !.step = "recache"]
  <2>1. /\ k.step = "write" /\ made' = made /\ sessionCall' = [sessionCall EXCEPT ![c] = l]
        /\ torn' = IF sessions[k.at] = NoSession THEN torn \cup {k.at} ELSE torn
        /\ k.op \in {"beat", "set", "move", "clean"} /\ k.at \in Session /\ k.at \in made
        /\ k.copy \in SessionRecord /\ ChangeRecord(c, k.at, k.copy)
        /\ k.op = "clean" => k.todo \subseteq made
      BY <1>1, <1>3 DEF WriteSession, AtStep, CallShape
  <2>2. k.copy # NoSession
      BY <2>1, NoSessionAssumption
  <2>3. l \in SessionCallType /\ l.step = "recache" /\ l.op = k.op /\ l.at = k.at /\ l.target = k.target
        /\ l.todo = k.todo /\ l.copy = k.copy
      BY <1>1 DEF SessionCallType
  <2> HIDE DEF l
  <2>4. CallShape(l, made')
      BY <2>1, <2>3 DEF CallShape, Counts
  <2> QED BY <1>1, <2>1, <2>2, <2>3, <2>4 DEF ChangeFits
<1>4. CASE DropRecord(c)
  <2> DEFINE l == [k EXCEPT !.step = "unindex"]
  <2>1. /\ k.step = "drop" /\ made' = made /\ sessionCall' = [sessionCall EXCEPT ![c] = l]
        /\ torn' = IF \E d \in SessionActor : AtStep(d, "index") /\ sessionCall[d].at = k.at
                   THEN torn \cup {k.at} ELSE torn \ {k.at}
        /\ k.op = "delete" /\ k.at \in Session /\ k.at \in made /\ ChangeRecord(c, k.at, NoSession)
      BY <1>1, <1>4 DEF DropRecord, AtStep, CallShape
  <2>2. l \in SessionCallType /\ l.step = "unindex" /\ l.op = k.op /\ l.at = k.at /\ l.target = k.target
        /\ l.todo = k.todo
      BY <1>1 DEF SessionCallType
  <2> HIDE DEF l
  <2>3. CallShape(l, made')
      BY <2>1, <2>2 DEF CallShape, Counts
  <2> QED BY <1>1, <2>1, <2>2, <2>3 DEF ChangeFits
<1> QED BY <1>2, <1>3, <1>4

\* The steps that set the index and the cache right.
LEMMA MendStep ==
    ASSUME SessionInv, NEW c \in SessionActor,
           IndexSession(c) \/ Recache(c) \/ DropIndex(c) \/ Uncache(c)
    PROVE  SessionInv'
<1> DEFINE k == sessionCall[c]
<1>1. /\ k \in SessionCallType /\ CallShape(k, made) /\ CallFits(k, sessions, torn, crossed)
      /\ k.step \in {"index", "recache", "unindex", "uncache"} /\ k.at \in Session
      /\ UNCHANGED <<sessions, made, now, torn, crossed>>
  <2>1. k.step \in {"index", "recache", "unindex", "uncache"}
      BY DEF IndexSession, Recache, DropIndex, Uncache, AtStep
  <2>2. k \in SessionCallType /\ CallShape(k, made) /\ CallFits(k, sessions, torn, crossed)
      BY CallFacts
  <2>3. k.at \in Session
      BY <2>1, <2>2 DEF CallShape
  <2> QED BY <2>1, <2>2, <2>3 DEF IndexSession, Recache, DropIndex, Uncache, crossVars
<1>2. /\ sessionCache \in [Session -> CachedSession \cup {Out}] /\ sessionIndex \subseteq Session
      /\ sessions \in [Session -> SessionRecord \cup {NoSession}]
    BY DEF SessionInv, SessionTypeOK
<1>3. \A s \in Session : s # k.at => ~Recaching(c, s) /\ ~Relisting(c, s)
    BY DEF Recaching, Relisting
<1>4. CASE IndexSession(c)
  <2> DEFINE l == [k EXCEPT !.step = "recache"]
  <2>1. /\ k.step = "index" /\ k.op = "create" /\ k.target = k.at /\ UNCHANGED sessionCache
        /\ sessionCall' = [sessionCall EXCEPT ![c] = l] /\ sessionIndex' = sessionIndex \cup {k.at}
        /\ k.at \notin torn => sessions[k.at] # NoSession
      BY <1>1, <1>4 DEF IndexSession, AtStep, CallShape, CallFits
  <2>2. l \in SessionCallType /\ l.step = "recache" /\ l.op = k.op /\ l.at = k.at /\ l.target = k.target
        /\ l.todo = k.todo /\ l.copy = k.copy
      BY <1>1 DEF SessionCallType
  <2> HIDE DEF l
  <2>3. CallShape(l, made) /\ CallFits(l, sessions, torn, crossed) /\ OwnTarget(c, l)
      BY <1>1, <2>1, <2>2 DEF CallShape, CallFits, Counts, OwnTarget
  <2> QED BY <1>1, <1>2, <1>3, <2>1, <2>2, <2>3, SessionStepFits DEF StepFits
<1>5. CASE DropIndex(c)
  <2> DEFINE l == [k EXCEPT !.step = "uncache"]
  <2>1. /\ k.step = "unindex" /\ k.op = "delete" /\ UNCHANGED sessionCache
        /\ sessionCall' = [sessionCall EXCEPT ![c] = l] /\ sessionIndex' = sessionIndex \ {k.at}
        /\ k.at \notin torn => sessions[k.at] = NoSession
      BY <1>1, <1>5 DEF DropIndex, Unindexed, AtStep, CallShape, CallFits
  <2>2. l \in SessionCallType /\ l.step = "uncache" /\ l.op = k.op /\ l.at = k.at /\ l.target = k.target
        /\ l.todo = k.todo
      BY <1>1 DEF SessionCallType
  <2> HIDE DEF l
  <2>3. CallShape(l, made) /\ CallFits(l, sessions, torn, crossed) /\ OwnTarget(c, l)
      BY <1>1, <2>1, <2>2 DEF CallShape, CallFits, Counts, OwnTarget
  <2> QED BY <1>1, <1>2, <1>3, <2>1, <2>2, <2>3, SessionStepFits DEF StepFits
<1>6. CASE Recache(c)
  <2> DEFINE l == EndCall(k)
  <2>1. /\ k.step = "recache" /\ UNCHANGED sessionIndex
        /\ sessionCall' = [sessionCall EXCEPT ![c] = l]
        /\ sessionCache' = CachePut(sessionCache, k.at, k.copy)
        /\ k.copy \in SessionRecord /\ (k.at \notin crossed => k.copy = sessions[k.at])
      BY <1>1, <1>6 DEF Recache, Recached, AtStep, CallShape, CallFits
  <2>2. l \in SessionCallType /\ CallShape(l, made) /\ CallFits(l, sessions, torn, crossed) /\ OwnTarget(c, l)
    <3>1. CASE k.op # "clean"
        BY <3>1, IdleFits DEF EndCall, OwnTarget
    <3>2. CASE k.op = "clean"
      <4>1. l \in SessionCallType /\ l.step = "next" /\ l.op = k.op /\ l.at = k.at /\ l.target = k.target
            /\ l.todo = k.todo
          BY <1>1, <3>2 DEF SessionCallType, EndCall
      <4> HIDE DEF l
      <4> QED BY <1>1, <2>1, <3>2, <4>1 DEF CallShape, CallFits, Counts, OwnTarget
    <3> QED BY <3>1, <3>2
  <2>3. /\ sessionCache' \in [Session -> CachedSession \cup {Out}]
        /\ sessionCache'[k.at].value = k.copy
        /\ \A t \in Session \ {k.at} : InCache(sessionCache', t) =>
              InCache(sessionCache, t) /\ sessionCache'[t].value = sessionCache[t].value
      BY <1>1, <1>2, <2>1, CachePutFacts
  <2>4. \A s \in Session : ~Relisting(c, s)
      BY <2>1 DEF Relisting
  <2> HIDE DEF l
  <2> QED BY <1>1, <1>2, <1>3, <2>1, <2>2, <2>3, <2>4, SessionStepFits DEF StepFits
<1>7. CASE Uncache(c)
  <2>1. /\ k.step = "uncache" /\ UNCHANGED sessionIndex
        /\ sessionCall' = [sessionCall EXCEPT ![c] = NoSessionCall]
        /\ sessionCache' = CacheDelete(sessionCache, k.at)
      BY <1>7 DEF Uncache, AtStep
  <2>2. NoSessionCall \in SessionCallType /\ CallShape(NoSessionCall, made)
        /\ CallFits(NoSessionCall, sessions, torn, crossed) /\ OwnTarget(c, NoSessionCall)
      BY IdleFits DEF OwnTarget
  <2>3. /\ sessionCache' \in [Session -> CachedSession \cup {Out}]
        /\ ~InCache(sessionCache', k.at)
        /\ \A t \in Session \ {k.at} : InCache(sessionCache', t) =>
              InCache(sessionCache, t) /\ sessionCache'[t].value = sessionCache[t].value
      BY <1>1, <1>2, <2>1, CacheDeleteFacts
  <2>4. \A s \in Session : ~Relisting(c, s)
      BY <2>1 DEF Relisting
  <2> QED BY <1>1, <1>2, <1>3, <2>1, <2>2, <2>3, <2>4, SessionStepFits DEF StepFits
<1> QED BY <1>4, <1>5, <1>6, <1>7

LEMMA SessionInvInit == SessionInit => SessionInv
<1> SUFFICES ASSUME SessionInit PROVE SessionInv
    OBVIOUS
<1>1. /\ sessions = [s \in Session |-> NoSession] /\ sessionIndex = {} /\ made = {} /\ now = 0
      /\ sessionCache = [s \in Session |-> Out] /\ sessionCall = [c \in SessionActor |-> NoSessionCall]
    BY DEF SessionInit, EmptyCache
<1>2. SessionTypeOK
    BY <1>1, IdleFits, SessionBounds DEF SessionTypeOK
<1>3. CallsFit
    BY <1>1, IdleFits DEF CallsFit
<1>4. CacheSettles /\ IndexSettles
    BY <1>1 DEF CacheSettles, IndexSettles, InCache
<1> QED BY <1>2, <1>3, <1>4 DEF SessionInv

\* A crash leaves no call and an empty cache.
LEMMA SessionCrashStep == ASSUME SessionInv, SessionCrash PROVE SessionInv'
<1>1. /\ sessionCache' = [s \in Session |-> Out] /\ sessionCall' = [c \in SessionActor |-> NoSessionCall]
      /\ torn' = torn \cup {s \in Session : \E c \in SessionActor : Relisting(c, s)}
      /\ UNCHANGED <<sessions, sessionIndex, made, now>>
    BY DEF SessionCrash, EmptyCache
<1>2. SessionTypeOK'
    BY <1>1, IdleFits DEF SessionInv, SessionTypeOK
<1>3. \A c \in SessionActor : sessionCall'[c] = NoSessionCall
    BY <1>1
<1>4. CallsFit'
    BY <1>3, IdleFits DEF CallsFit, Counts
<1>5. CacheSettles'
    BY <1>1 DEF CacheSettles, InCache
<1>6. ASSUME NEW s \in Session \ torn' PROVE s \in sessionIndex' <=> sessions'[s] # NoSession
    BY <1>1 DEF SessionInv, IndexSettles
<1> QED BY <1>2, <1>4, <1>5, <1>6 DEF SessionInv, IndexSettles

LEMMA SessionTickStep ==
    ASSUME SessionInv, SessionTick \/ UNCHANGED sessionVars
    PROVE  SessionInv'
<1>1. /\ now' \in 0..MaxNow
      /\ UNCHANGED <<sessions, sessionIndex, sessionCache, sessionCall, made, torn, crossed>>
    BY SessionBounds DEF SessionInv, SessionTypeOK, SessionTick, sessionVars, crossVars
<1>2. SessionTypeOK'
    BY <1>1 DEF SessionInv, SessionTypeOK
<1>3. CallsFit'
    BY <1>1 DEF SessionInv, CallsFit, Counts
<1>4. CacheSettles' /\ IndexSettles'
    BY <1>1 DEF SessionInv, CacheSettles, IndexSettles, Recaching, Relisting
<1> QED BY <1>2, <1>3, <1>4 DEF SessionInv

LEMMA SessionInvStep == SessionInv /\ [SessionNext]_sessionVars => SessionInv'
<1> SUFFICES ASSUME SessionInv, [SessionNext]_sessionVars PROVE SessionInv'
    OBVIOUS
<1>1. ASSUME NEW c \in SessionActor, SessionAccess(c) PROVE SessionInv'
  <2>1. CASE LookupSession(c) \/ ReadSession(c) \/ FillCache(c)
      BY <2>1, GetStep
  <2>2. CASE NextListed(c)
      BY <2>2, NextStep
  <2>3. CASE StoreSession(c) \/ WriteSession(c) \/ DropRecord(c)
      BY <2>3, ChangeStep, SessionChangeFits
  <2>4. CASE IndexSession(c) \/ Recache(c) \/ DropIndex(c) \/ Uncache(c)
      BY <2>4, MendStep
  <2> QED BY <1>1, <2>1, <2>2, <2>3, <2>4 DEF SessionAccess
<1>2. ASSUME NEW c \in SessionClient, ClientNext(c, Session) PROVE SessionInv'
  <2>1. CASE \E s \in Session : StartCreate(c, s)
      BY <2>1, StartCreateStep
  <2>2. CASE \E s \in Session : \/ StartList(c, s)
                                \/ \E op \in {"get", "delete", "beat", "set", "move"}, to \in SessionState :
                                      StartCall(c, s, op, to)
      BY <2>2, StartStep
  <2>3. c \in SessionActor /\ "active" \in SessionState
      BY DEF SessionActor, SessionState
  <2> QED BY <1>1, <1>2, <2>1, <2>2, <2>3 DEF ClientNext
<1>3. CASE CleanupNext
    BY <1>1, <1>3, SessionTickStep, StartCleanupStep DEF CleanupNext, SessionActor
<1> QED BY <1>2, <1>3, SessionCrashStep, SessionTickStep DEF SessionNext

\* Type correctness of the cache and the index, whoever calls, and where they can disagree with
\* the store: where a call is there to mend it, and where calls crossed or were cut short. That
\* is the inductive invariant behind CacheCoherent and IndexAgrees.
THEOREM SessionsHold == SessionSpec => []SessionInv
<1> QED BY SessionInvInit, SessionInvStep, PTL DEF SessionSpec

LEMMA InvCoherent == SessionInv => CacheCoherent
BY DEF SessionInv, CacheSettles, CacheCoherent, AtRest, Recaching

LEMMA InvIndexed == SessionInv => IndexAgrees
BY DEF SessionInv, IndexSettles, IndexAgrees, AtRest, Relisting

\* session.go:66 fills the cache behind the store. Whoever is at work, the cache agrees with
\* the store about every session at rest whose record was not changed under a call that was
\* about to cache it.
THEOREM CacheFollowsStore == SessionSpec => []CacheCoherent
<1> QED BY SessionsHold, InvCoherent, PTL

\* Create and Delete write the record and the index one after the other. Whoever is at work, the
\* index lists exactly the sessions at rest that are stored, but for what a crash, a write-back
\* after a deletion or a deletion before the index entry left.
THEOREM IndexFollowsStore == SessionSpec => []IndexAgrees
<1> QED BY SessionsHold, InvIndexed, PTL

-----------------------------------------------------------------------------
(* The judgements calls act on, unless they are outrun.                    *)

\* Every set of sessions that count is finite.
LEMMA OpenFinite ==
    ASSUME SessionInv, IsFiniteSet(made), NEW agent, NEW T \in SUBSET OpenOf(agent, sessions, torn)
    PROVE  IsFiniteSet(T) /\ Cardinality(T) \in Nat
<1>1. T \subseteq made
    BY DEF OpenOf, IsOpen, SessionInv, SessionTypeOK
<1> QED BY <1>1, FS_Subset, FS_CardinalityType

\* A call that neither judges nor counts has nothing to answer for.
LEMMA PlainJudged ==
    ASSUME NEW k, ~Judges(k), ~Counts(k)
    PROVE  \A records, astray : CallJudged(k, records, astray)
BY DEF CallJudged

\* A step of c that leaves the records alone: only c's own call has to be judged anew.
LEMMA JudgedQuietly ==
    ASSUME SessionInv, QuotaInv, NEW c \in SessionActor, NEW k,
           sessionCall' = [sessionCall EXCEPT ![c] = k], UNCHANGED <<sessions, made, torn>>,
           outrun \ {c} \subseteq outrun',
           c \notin outrun' => CallJudged(k, sessions, torn)
    PROVE  QuotaInv'
<1>1. /\ sessionCall'[c] = k
      /\ \A d \in SessionActor \ {c} : sessionCall'[d] = sessionCall[d]
    BY DEF SessionInv, SessionTypeOK
<1>2. ASSUME NEW d \in SessionActor \ outrun'
      PROVE  CallJudged(sessionCall'[d], sessions, torn)
    BY <1>1, <1>2 DEF QuotaInv
<1>3. ASSUME NEW d \in SessionActor \ outrun'
      PROVE  CallJudged(sessionCall[d], sessions, torn)'
  <2>1. CallJudged(sessionCall'[d], sessions', torn')
      BY <1>2
  <2> QED BY <2>1 DEF CallJudged, Judges, Counts, OpenOf, IsOpen, Open, Unseen, CanTransition
<1> QED BY <1>3 DEF QuotaInv

\* A call that goes on from the session it got, when that session is what it got.
LEMMA AfterGetJudged ==
    ASSUME SessionInv, QuotaInv, NEW c \in SessionActor \ outrun, NEW r \in SessionRecord,
           sessionCall[c].step \in {"lookup", "fill"},
           sessionCall[c].op \in {"beat", "move", "clean"} =>
               sessions[sessionCall[c].at] # NoSession /\ r.state = sessions[sessionCall[c].at].state,
           /\ sessionCall[c].op = "create"
           /\ sessionCall[c].at \in OpenOf(Owner[sessionCall[c].target], sessions, torn)
           => Open(r)
    PROVE  CallJudged(AfterGet(sessionCall[c], r), sessions, torn)
<1> DEFINE k == sessionCall[c]
<1>1. k \in SessionCallType /\ now \in 0..MaxNow /\ k.op # "none" /\ CallJudged(k, sessions, torn)
    BY CallFacts DEF SessionInv, SessionTypeOK, CallShape, QuotaInv
<1>2. CASE AfterGet(k, r) = NoSessionCall
    BY <1>2, IdleFits, PlainJudged
<1>3. CASE /\ k.op \in {"list", "create", "clean"}
           /\ \E n \in Nat : /\ AfterGet(k, r) = [k EXCEPT !.step = "next", !.copy = NoSession, !.count = n]
                             /\ k.op = "create" => n = IF Open(r) THEN k.count + 1 ELSE k.count
  <2>1. PICK n \in Nat : /\ AfterGet(k, r) = [k EXCEPT !.step = "next", !.copy = NoSession, !.count = n]
                         /\ k.op = "create" => n = IF Open(r) THEN k.count + 1 ELSE k.count
      BY <1>3
  <2> DEFINE l == [k EXCEPT !.step = "next", !.copy = NoSession, !.count = n]
  <2>2. l.step = "next" /\ l.op = k.op /\ l.at = k.at /\ l.target = k.target /\ l.todo = k.todo /\ l.count = n
      BY <1>1 DEF SessionCallType
  <2>3. AfterGet(k, r) = l
      BY <2>1
  <2> HIDE DEF l
  <2> SUFFICES CallJudged(l, sessions, torn)
      BY <2>3
  <2>4. CASE k.op # "create"
      BY <2>2, <2>4, PlainJudged DEF Judges, Counts
  <2>5. CASE k.op = "create" /\ Quota > 0
    <3> DEFINE open == OpenOf(Owner[k.target], sessions, torn)
               before == open \ (k.todo \cup {k.at})
    <3>1. Cardinality(before) <= k.count
        BY <1>1, <2>5 DEF CallJudged, Counts, Unseen
    <3>2. k.count \in Nat
        BY <1>1 DEF SessionCallType
    <3>3. Cardinality(open \ l.todo) <= l.count
      <4>0. before \in SUBSET open /\ open \ k.todo \in SUBSET open /\ before \cup {k.at} \in SUBSET (before \cup {k.at})
          OBVIOUS
      <4> HIDE DEF before
      <4>1. IsFiniteSet(before) /\ Cardinality(before) \in Nat
          BY <4>0, OpenFinite DEF QuotaInv
      <4>2. CASE k.at \in open
        <5>1. n = k.count + 1
            BY <2>1, <2>5, <4>2
        <5>2. open \ k.todo \in SUBSET (before \cup {k.at})
            BY DEF before
        <5>3. IsFiniteSet(before \cup {k.at}) /\ Cardinality(before \cup {k.at}) <= Cardinality(before) + 1
          <6>1. ASSUME NEW x
                PROVE  /\ IsFiniteSet(before \cup {x})
                       /\ Cardinality(before \cup {x}) =
                             IF x \in before THEN Cardinality(before) ELSE Cardinality(before) + 1
              BY <4>1, FS_AddElement
          <6>2. \A x : IsFiniteSet(before \cup {x}) /\ Cardinality(before \cup {x}) <= Cardinality(before) + 1
              BY <4>1, <6>1
          <6> QED BY <6>2
        <5>4. Cardinality(open \ k.todo) <= Cardinality(before \cup {k.at})
            BY <5>2, <5>3, FS_Subset
        <5>5. Cardinality(open \ k.todo) \in Nat /\ Cardinality(before \cup {k.at}) \in Nat
            BY <4>0, <5>3, OpenFinite, FS_CardinalityType DEF QuotaInv
        <5> HIDE DEF open
        <5> QED BY <2>2, <3>1, <3>2, <4>1, <5>1, <5>3, <5>4, <5>5
      <4>3. CASE k.at \notin open
        <5>1. open \ k.todo = before
            BY <4>3 DEF before
        <5>2. n >= k.count
            BY <2>1, <2>5, <3>2
        <5> QED BY <2>2, <3>1, <3>2, <4>1, <5>1, <5>2
      <4> QED BY <4>2, <4>3
    <3> QED BY <2>2, <2>5, <3>3 DEF CallJudged, Judges, Counts, Unseen
  <2>6. CASE k.op = "create" /\ ~(Quota > 0)
      BY <2>2, <2>6 DEF CallJudged, Judges, Counts
  <2> QED BY <2>4, <2>5, <2>6
<1>4. CASE k.op = "delete" /\ AfterGet(k, r) = [k EXCEPT !.step = "drop", !.copy = NoSession]
  <2> DEFINE l == [k EXCEPT !.step = "drop", !.copy = NoSession]
  <2>1. l.step = "drop" /\ l.op = "delete"
      BY <1>1, <1>4 DEF SessionCallType
  <2>2. CallJudged(l, sessions, torn)
    <3> HIDE DEF l
    <3> QED BY <2>1, PlainJudged DEF Judges, Counts
  <2> QED BY <1>4, <2>2
<1>5. CASE /\ k.op \in {"beat", "set", "move", "clean"}
           /\ \E q \in SessionRecord : /\ AfterGet(k, r) = [k EXCEPT !.step = "write", !.copy = q]
                                       /\ k.op = "beat" => q.state = r.state
                                       /\ k.op \in {"move", "clean"} => CanTransition(r.state, q.state)
  <2>1. PICK q \in SessionRecord : /\ AfterGet(k, r) = [k EXCEPT !.step = "write", !.copy = q]
                                   /\ k.op = "beat" => q.state = r.state
                                   /\ k.op \in {"move", "clean"} => CanTransition(r.state, q.state)
      BY <1>5
  <2> DEFINE l == [k EXCEPT !.step = "write", !.copy = q]
  <2>2. l.step = "write" /\ l.op = k.op /\ l.at = k.at /\ l.copy = q
      BY <1>1 DEF SessionCallType
  <2>3. AfterGet(k, r) = l
      BY <2>1
  <2> HIDE DEF l
  <2>4. CallJudged(l, sessions, torn)
      BY <1>5, <2>1, <2>2 DEF CallJudged, Judges, Counts
  <2> QED BY <2>3, <2>4
<1>6. ASSUME NEW l \in SessionCallType, l.op # "none"
      PROVE  \/ AfterGet(l, r) = NoSessionCall
             \/ /\ l.op \in {"list", "create", "clean"}
                /\ \E n \in Nat : /\ AfterGet(l, r) = [l EXCEPT !.step = "next", !.copy = NoSession, !.count = n]
                                  /\ l.op = "create" => n = IF Open(r) THEN l.count + 1 ELSE l.count
             \/ l.op = "delete" /\ AfterGet(l, r) = [l EXCEPT !.step = "drop", !.copy = NoSession]
             \/ /\ l.op \in {"beat", "set", "move", "clean"}
                /\ \E q \in SessionRecord : /\ AfterGet(l, r) = [l EXCEPT !.step = "write", !.copy = q]
                                            /\ l.op = "beat" => q.state = r.state
                                            /\ l.op \in {"move", "clean"} => CanTransition(r.state, q.state)
    BY <1>1, <1>6, AfterGetCases
<1> QED BY <1>1, <1>2, <1>3, <1>4, <1>5, <1>6

\* The accesses of Get.
LEMMA GetJudged ==
    ASSUME SessionInv, QuotaInv, NEW c \in SessionActor, LookupSession(c) \/ ReadSession(c) \/ FillCache(c)
    PROVE  QuotaInv'
<1> DEFINE k == sessionCall[c]
<1>1. /\ k \in SessionCallType /\ CallShape(k, made)
      /\ k.step \in {"lookup", "read", "fill"} /\ k.at \in Session
      /\ UNCHANGED <<sessions, made, torn>>
  <2>1. k.step \in {"lookup", "read", "fill"}
      BY DEF LookupSession, ReadSession, FillCache, AtStep
  <2>2. k \in SessionCallType /\ CallShape(k, made)
      BY CallFacts
  <2>3. k.at \in Session
      BY <2>1, <2>2 DEF CallShape
  <2> QED BY <2>1, <2>2, <2>3 DEF LookupSession, ReadSession, FillCache, crossVars
<1>2. /\ sessionCache \in [Session -> CachedSession \cup {Out}]
      /\ sessions \in [Session -> SessionRecord \cup {NoSession}]
      /\ c \notin outrun => CallJudged(k, sessions, torn)
    BY DEF SessionInv, SessionTypeOK, QuotaInv
<1>3. CASE LookupSession(c) /\ InCache(sessionCache, k.at)
  <2> DEFINE r == sessionCache[k.at].value
  <2>1. r \in SessionRecord
    <3>1. sessionCache[k.at] \in CachedSession
        BY <1>1, <1>2, <1>3 DEF InCache
    <3> QED BY <3>1 DEF CachedSession
  <2>2. /\ sessionCall' = [sessionCall EXCEPT ![c] = AfterGet(k, r)] /\ k.step = "lookup"
        /\ outrun' = IF Behind(k.at) /\ (Judges(AfterGet(k, r)) \/ Counts(AfterGet(k, r)))
                     THEN outrun \cup {c} ELSE Onward(c, AfterGet(k, r))
      BY <1>3 DEF LookupSession, AtStep
  <2>3. outrun \ {c} \subseteq outrun'
      BY <2>2 DEF Onward
  <2>4. c \notin outrun' => CallJudged(AfterGet(k, r), sessions, torn)
    <3>1. CASE ~(Judges(AfterGet(k, r)) \/ Counts(AfterGet(k, r)))
        BY <3>1, PlainJudged
    <3>2. CASE (Judges(AfterGet(k, r)) \/ Counts(AfterGet(k, r))) /\ c \notin outrun'
      <4>1. c \notin outrun /\ ~Behind(k.at)
          BY <2>2, <3>2 DEF Onward
      <4>2. sessionCache[k.at].value = sessions[k.at]
          BY <1>1, <1>3, <4>1 DEF Behind, SessionInv, CacheSettles
      <4>3. r = sessions[k.at] /\ sessions[k.at] # NoSession
          BY <2>1, <4>2, NoSessionAssumption
      <4>4. k.at \in OpenOf(Owner[k.target], sessions, torn) => Open(r)
          BY <4>3 DEF OpenOf, IsOpen
      <4> QED BY <2>1, <2>2, <4>1, <4>3, <4>4, AfterGetJudged
    <3> QED BY <3>1, <3>2
  <2> QED BY <1>1, <2>2, <2>3, <2>4, JudgedQuietly
<1>4. CASE LookupSession(c) /\ ~InCache(sessionCache, k.at)
  <2> DEFINE l == [k EXCEPT !.step = "read"]
  <2>1. sessionCall' = [sessionCall EXCEPT ![c] = l] /\ UNCHANGED outrun /\ k.step = "lookup"
      BY <1>4 DEF LookupSession, AtStep
  <2>2. l.step = "read" /\ l.op = k.op /\ l.at = k.at /\ l.target = k.target /\ l.todo = k.todo /\ l.count = k.count
      BY <1>1 DEF SessionCallType
  <2> HIDE DEF l
  <2>3. c \notin outrun => CallJudged(l, sessions, torn)
      BY <1>2, <2>1, <2>2 DEF CallJudged, Judges, Counts, Unseen
  <2> QED BY <1>1, <2>1, <2>3, JudgedQuietly
<1>5. CASE ReadSession(c)
  <2>1. UNCHANGED outrun /\ k.step = "read"
      BY <1>5 DEF ReadSession, AtStep, crossVars
  <2>2. CASE sessions[k.at] # NoSession
    <3> DEFINE l == [k EXCEPT !.step = "fill", !.copy = sessions[k.at]]
    <3>1. sessionCall' = [sessionCall EXCEPT ![c] = l]
        BY <1>5, <2>2 DEF ReadSession
    <3>2. l.step = "fill" /\ l.op = k.op /\ l.at = k.at /\ l.target = k.target /\ l.todo = k.todo
          /\ l.count = k.count /\ l.copy = sessions[k.at]
        BY <1>1 DEF SessionCallType
    <3> HIDE DEF l
    <3>3. l.at \in OpenOf(Owner[l.target], sessions, torn) => Open(l.copy)
        BY <3>2 DEF OpenOf, IsOpen
    <3>4. c \notin outrun => CallJudged(l, sessions, torn)
        BY <1>2, <2>1, <2>2, <3>2, <3>3 DEF CallJudged, Judges, Counts, Unseen
    <3> QED BY <1>1, <2>1, <3>1, <3>4, JudgedQuietly
  <2>3. CASE sessions[k.at] = NoSession /\ k.op \in {"list", "create", "clean"}
    <3> DEFINE l == [k EXCEPT !.step = "next"]
    <3>1. sessionCall' = [sessionCall EXCEPT ![c] = l]
        BY <1>5, <2>3 DEF ReadSession
    <3>2. l.step = "next" /\ l.op = k.op /\ l.at = k.at /\ l.target = k.target /\ l.todo = k.todo
          /\ l.count = k.count
        BY <1>1 DEF SessionCallType
    <3> HIDE DEF l
    <3>3. OpenOf(Owner[k.target], sessions, torn) \ (k.todo \cup {k.at})
              = OpenOf(Owner[k.target], sessions, torn) \ k.todo
        BY <2>3 DEF OpenOf, IsOpen
    <3>4. c \notin outrun => CallJudged(l, sessions, torn)
        BY <1>2, <2>1, <3>2, <3>3 DEF CallJudged, Judges, Counts, Unseen
    <3> QED BY <1>1, <2>1, <3>1, <3>4, JudgedQuietly
  <2>4. CASE sessions[k.at] = NoSession /\ k.op \notin {"list", "create", "clean"}
    <3>1. sessionCall' = [sessionCall EXCEPT ![c] = NoSessionCall]
        BY <1>5, <2>4 DEF ReadSession
    <3> QED BY <1>1, <2>1, <3>1, IdleFits, PlainJudged, JudgedQuietly
  <2> QED BY <2>2, <2>3, <2>4
<1>6. CASE FillCache(c)
  <2>1. /\ k.step = "fill" /\ sessionCall' = [sessionCall EXCEPT ![c] = AfterGet(k, k.copy)]
        /\ outrun' = Onward(c, AfterGet(k, k.copy)) /\ k.copy \in SessionRecord
      BY <1>1, <1>6 DEF FillCache, AtStep, CallShape
  <2>2. outrun \ {c} \subseteq outrun'
      BY <2>1 DEF Onward
  <2>3. c \notin outrun' => CallJudged(AfterGet(k, k.copy), sessions, torn)
    <3>1. CASE ~(Judges(AfterGet(k, k.copy)) \/ Counts(AfterGet(k, k.copy)))
        BY <3>1, PlainJudged
    <3>2. CASE (Judges(AfterGet(k, k.copy)) \/ Counts(AfterGet(k, k.copy))) /\ c \notin outrun'
      <4>1. c \notin outrun
          BY <2>1, <3>2 DEF Onward
      <4>2. /\ k.op \in {"beat", "move", "clean"} =>
                   sessions[k.at] # NoSession /\ k.copy.state = sessions[k.at].state
            /\ k.op = "create" /\ k.at \in OpenOf(Owner[k.target], sessions, torn) => Open(k.copy)
          BY <1>2, <2>1, <4>1 DEF CallJudged, Judges, Counts
      <4> QED BY <2>1, <4>1, <4>2, AfterGetJudged
    <3> QED BY <3>1, <3>2
  <2> QED BY <1>1, <2>1, <2>2, <2>3, JudgedQuietly
<1> QED BY <1>3, <1>4, <1>5, <1>6

\* The next of a list; a creation that has counted all.
LEMMA NextJudged ==
    ASSUME SessionInv, QuotaInv, NEW c \in SessionActor, NextListed(c)
    PROVE  QuotaInv'
<1> DEFINE k == sessionCall[c]
<1>1. /\ k \in SessionCallType /\ CallShape(k, made) /\ k.step = "next"
      /\ UNCHANGED <<sessions, made, torn>>
      /\ c \notin outrun => CallJudged(k, sessions, torn)
    BY CallFacts DEF NextListed, AtStep, QuotaInv
<1>2. CASE \E s \in k.todo :
              /\ sessionCall' = [sessionCall EXCEPT ![c] = [k EXCEPT !.step = "lookup", !.at = s, !.todo = @ \ {s}]]
              /\ UNCHANGED outrun
  <2>1. PICK s \in k.todo :
            /\ sessionCall' = [sessionCall EXCEPT ![c] = [k EXCEPT !.step = "lookup", !.at = s, !.todo = @ \ {s}]]
            /\ UNCHANGED outrun
      BY <1>2
  <2> DEFINE l == [k EXCEPT !.step = "lookup", !.at = s, !.todo = @ \ {s}]
  <2>2. l.step = "lookup" /\ l.at = s /\ l.op = k.op /\ l.target = k.target
        /\ l.todo = k.todo \ {s} /\ l.count = k.count
      BY <1>1 DEF SessionCallType
  <2>3. sessionCall' = [sessionCall EXCEPT ![c] = l]
      BY <2>1
  <2> HIDE DEF l
  <2>4. (k.todo \ {s}) \cup {s} = k.todo
      BY <2>1
  <2>5. Unseen(l) = k.todo /\ Unseen(k) = k.todo
      BY <1>1, <2>2, <2>4 DEF Unseen
  <2>6. c \notin outrun => CallJudged(l, sessions, torn)
      BY <1>1, <2>2, <2>5 DEF CallJudged, Judges, Counts
  <2> QED BY <1>1, <2>1, <2>3, <2>6, JudgedQuietly
<1>3. CASE /\ k.todo = {} /\ k.op = "create" /\ k.count < Quota
           /\ sessionCall' = [sessionCall EXCEPT ![c] =
                                 [k EXCEPT !.step = "record", !.at = k.target, !.count = 0]]
           /\ UNCHANGED outrun
  <2> DEFINE l == [k EXCEPT !.step = "record", !.at = k.target, !.count = 0]
             open == OpenOf(Owner[k.target], sessions, torn)
  <2>1. l.step = "record" /\ l.op = "create" /\ l.target = k.target
      BY <1>1, <1>3 DEF SessionCallType
  <2>2. sessionCall' = [sessionCall EXCEPT ![c] = l]
      BY <1>3
  <2> HIDE DEF l
  <2>3. c \notin outrun /\ Quota > 0 => Cardinality(open \ {}) <= k.count
      BY <1>1, <1>3 DEF CallJudged, Counts, Unseen
  <2>4. open \ {} = open /\ k.count \in Nat /\ Cardinality(open) \in Nat
      BY <1>1, OpenFinite DEF QuotaInv, SessionCallType
  <2>5. c \notin outrun /\ Quota > 0 => Cardinality(open) < Quota
    <3> HIDE DEF open, k
    <3> QED BY <1>3, <2>3, <2>4, SessionBounds
  <2>6. c \notin outrun => CallJudged(l, sessions, torn)
      BY <2>1, <2>5 DEF CallJudged, Judges
  <2> QED BY <1>1, <1>3, <2>2, <2>6, JudgedQuietly
<1>4. CASE sessionCall' = [sessionCall EXCEPT ![c] = NoSessionCall] /\ outrun' = outrun \ {c}
    BY <1>1, <1>4, IdleFits, PlainJudged, JudgedQuietly
<1> QED BY <1>2, <1>3, <1>4 DEF NextListed

\* The beginnings: all of the agent's sessions that count are in the index a creation lists.
LEMMA StartJudged ==
    ASSUME SessionInv, QuotaInv, NEW c \in SessionActor, NEW k,
           BeginCall(c, k), outrun \subseteq outrun',
           \/ k.op # "create" /\ k.step \in {"next", "lookup"}
           \/ Quota = 0 /\ k.op = "create" /\ k.step = "record"
           \/ /\ k.op = "create" /\ k.step = "next" /\ k.count = 0
              /\ k.todo = AgentSessions(Owner[k.target])
              /\ Unlisted(Owner[k.target]) => c \in outrun'
    PROVE  QuotaInv'
<1>1. /\ sessionCall' = [sessionCall EXCEPT ![c] = k] /\ UNCHANGED <<sessions, made, torn>>
    BY DEF BeginCall
<1>2. CASE k.op # "create" /\ k.step \in {"next", "lookup"}
    BY <1>1, <1>2, PlainJudged, JudgedQuietly DEF Judges, Counts
<1>3. CASE Quota = 0 /\ k.op = "create" /\ k.step = "record"
  <2>1. CallJudged(k, sessions, torn)
      BY <1>3 DEF CallJudged, Judges, Counts
  <2> QED BY <1>1, <2>1, JudgedQuietly
<1>4. CASE /\ k.op = "create" /\ k.step = "next" /\ k.count = 0
           /\ k.todo = AgentSessions(Owner[k.target])
           /\ Unlisted(Owner[k.target]) => c \in outrun'
  <2> DEFINE open == OpenOf(Owner[k.target], sessions, torn)
  <2>1. ASSUME c \notin outrun', NEW t \in open
        PROVE  t \in k.todo
    <3>1. t \in Session \ torn /\ Owner[t] = Owner[k.target] /\ sessions[t] # NoSession
        BY <2>1 DEF OpenOf, IsOpen
    <3>2. CASE t \in sessionIndex <=> sessions[t] # NoSession
        BY <1>4, <3>1, <3>2 DEF AgentSessions
    <3>3. CASE \E d \in SessionActor : Relisting(d, t)
      <4>1. PICK d \in SessionActor : Relisting(d, t)
          BY <3>3
      <4>2. CallShape(sessionCall[d], made) /\ CallFits(sessionCall[d], sessions, torn, crossed)
          BY CallFacts
      <4>3. sessionCall[d].step # "unindex"
          BY <3>1, <4>1, <4>2 DEF Relisting, CallFits
      <4>4. AtStep(d, "index") /\ sessionCall[d].target = t
          BY <4>1, <4>2, <4>3 DEF Relisting, CallShape, AtStep
      <4> QED BY <1>4, <2>1, <3>1, <4>4 DEF Unlisted
    <3> QED BY <3>1, <3>2, <3>3 DEF SessionInv, IndexSettles
  <2>2. c \notin outrun' => Cardinality(open \ k.todo) <= k.count
    <3>1. c \notin outrun' => open \ k.todo = {}
        BY <2>1
    <3> QED BY <1>4, <3>1, FS_EmptySet
  <2>3. c \notin outrun' => CallJudged(k, sessions, torn)
      BY <1>4, <2>2 DEF CallJudged, Judges, Counts, Unseen
  <2> QED BY <1>1, <2>3, JudgedQuietly
<1> QED BY <1>2, <1>3, <1>4

\* The steps that set the index and the cache right judge nothing.
LEMMA MendJudged ==
    ASSUME SessionInv, QuotaInv, NEW c \in SessionActor,
           IndexSession(c) \/ Recache(c) \/ DropIndex(c) \/ Uncache(c)
    PROVE  QuotaInv'
<1> DEFINE k == sessionCall[c]
<1>1. UNCHANGED <<sessions, made, torn, outrun>> /\ k \in SessionCallType
    BY CallFacts DEF IndexSession, Recache, DropIndex, Uncache, crossVars
<1>2. PICK l : sessionCall' = [sessionCall EXCEPT ![c] = l] /\ ~Judges(l) /\ ~Counts(l)
  <2>1. CASE IndexSession(c) \/ DropIndex(c)
    <3>1. PICK step \in {"recache", "uncache"} :
              sessionCall' = [sessionCall EXCEPT ![c] = [k EXCEPT !.step = step]]
        BY <2>1 DEF IndexSession, DropIndex
    <3> DEFINE l == [k EXCEPT !.step = step]
    <3>2. l.step \in {"recache", "uncache"}
        BY <1>1 DEF SessionCallType
    <3>3. sessionCall' = [sessionCall EXCEPT ![c] = l]
        BY <3>1
    <3> HIDE DEF l
    <3>4. ~Judges(l) /\ ~Counts(l)
        BY <3>2 DEF Judges, Counts
    <3> QED BY <3>3, <3>4
  <2>2. CASE Recache(c) /\ k.op = "clean"
    <3> DEFINE l == [k EXCEPT !.step = "next", !.copy = NoSession]
    <3>1. l.step = "next" /\ l.op = "clean"
        BY <1>1, <2>2 DEF SessionCallType
    <3>2. sessionCall' = [sessionCall EXCEPT ![c] = l]
        BY <2>2 DEF Recache, EndCall
    <3> HIDE DEF l
    <3>3. ~Judges(l) /\ ~Counts(l)
        BY <3>1 DEF Judges, Counts
    <3> QED BY <3>2, <3>3
  <2>3. CASE (Recache(c) /\ k.op # "clean") \/ Uncache(c)
      BY <2>3, IdleFits DEF Recache, EndCall, Uncache
  <2> QED BY <2>1, <2>2, <2>3
<1> QED BY <1>1, <1>2, PlainJudged, JudgedQuietly

\* A change of a record outruns the judgements that it falsifies, and no other.
LEMMA ChangeJudged ==
    ASSUME SessionInv, QuotaInv, NEW c \in SessionActor, NEW s, NEW r, NEW l, ChangeFits(c, s, r, l)
    PROVE  QuotaInv'
<1>1. /\ s \in Session /\ sessions' = [sessions EXCEPT ![s] = r]
      /\ outrun' = (outrun \ {c}) \cup {d \in SessionActor \ {c} : Outruns(sessionCall[d], s, r)}
      /\ sessionCall' = [sessionCall EXCEPT ![c] = l] /\ l.step \in {"index", "recache", "unindex"}
      /\ made' = made \/ made' = made \cup {s}
    BY DEF ChangeFits, ChangeRecord
<1>2. /\ sessionCall'[c] = l
      /\ \A d \in SessionActor \ {c} : sessionCall'[d] = sessionCall[d]
      /\ sessions'[s] = r /\ \A t \in Session \ {s} : sessions'[t] = sessions[t]
    BY <1>1 DEF SessionInv, SessionTypeOK
<1>3. IsFiniteSet(made')
  <2>1. IsFiniteSet(made \cup {s})
      BY FS_AddElement DEF QuotaInv
  <2> QED BY <1>1, <2>1 DEF QuotaInv
<1>4. \A t \in Session \ torn' : IsOpen(sessions'[t]) => t \notin torn
  <2>1. \A t \in Session \ torn' : t \in torn => t = s /\ r = NoSession
      BY DEF ChangeFits
  <2> QED BY <1>2, <2>1 DEF IsOpen
<1>5. ASSUME NEW d \in SessionActor \ {c}, d \notin outrun'
      PROVE  CallJudged(sessionCall[d], sessions', torn')
  <2> DEFINE k == sessionCall[d]
  <2>1. /\ k \in SessionCallType /\ CallShape(k, made) /\ CallJudged(k, sessions, torn)
        /\ ~Outruns(k, s, r)
      BY <1>1, <1>5, CallFacts DEF QuotaInv
  <2> HIDE DEF k
  <2>2. Judges(k) => k.at \in Session
      BY <2>1 DEF Judges, CallShape
  <2>3. Judges(k) => \/ sessions'[k.at] = sessions[k.at]
                     \/ /\ sessions'[k.at] # NoSession /\ sessions[k.at] # NoSession
                        /\ sessions'[k.at].state = sessions[k.at].state
      BY <1>2, <2>1, <2>2 DEF Outruns, SameState
  <2>4. Counts(k) => OpenOf(Owner[k.target], sessions', torn') \subseteq OpenOf(Owner[k.target], sessions, torn)
    <3>1. ASSUME Counts(k), NEW t \in OpenOf(Owner[k.target], sessions', torn')
          PROVE  t \in OpenOf(Owner[k.target], sessions, torn)
      <4>1. t \in Session \ torn' /\ Owner[t] = Owner[k.target] /\ IsOpen(sessions'[t])
          BY <3>1 DEF OpenOf
      <4>2. IsOpen(sessions[t])
          BY <1>2, <2>1, <3>1, <4>1 DEF Outruns
      <4> QED BY <1>4, <4>1, <4>2 DEF OpenOf
    <3> QED BY <3>1
  <2>5. Counts(k) /\ Quota > 0 =>
            IF k.step = "record" THEN Cardinality(OpenOf(Owner[k.target], sessions', torn')) < Quota
            ELSE Cardinality(OpenOf(Owner[k.target], sessions', torn') \ Unseen(k)) <= k.count
    <3> SUFFICES ASSUME Counts(k), Quota > 0
                 PROVE  IF k.step = "record" THEN Cardinality(OpenOf(Owner[k.target], sessions', torn')) < Quota
                        ELSE Cardinality(OpenOf(Owner[k.target], sessions', torn') \ Unseen(k)) <= k.count
        OBVIOUS
    <3> DEFINE old == OpenOf(Owner[k.target], sessions, torn)
               new == OpenOf(Owner[k.target], sessions', torn')
    <3>1. new \subseteq old /\ k.count \in Nat
        BY <2>1, <2>4 DEF SessionCallType
    <3>2. old \in SUBSET old /\ old \ Unseen(k) \in SUBSET old
        OBVIOUS
    <3>3. /\ IsFiniteSet(old) /\ Cardinality(old) \in Nat
          /\ IsFiniteSet(old \ Unseen(k)) /\ Cardinality(old \ Unseen(k)) \in Nat
        BY <3>2, OpenFinite DEF QuotaInv
    <3>4. IF k.step = "record" THEN Cardinality(old) < Quota
          ELSE Cardinality(old \ Unseen(k)) <= k.count
        BY <2>1 DEF CallJudged
    <3> HIDE DEF old, new
    <3>5. new \in SUBSET old /\ new \ Unseen(k) \in SUBSET (old \ Unseen(k))
        BY <3>1
    <3>6. /\ Cardinality(new) <= Cardinality(old) /\ Cardinality(new) \in Nat
          /\ Cardinality(new \ Unseen(k)) <= Cardinality(old \ Unseen(k))
          /\ Cardinality(new \ Unseen(k)) \in Nat
        BY <3>3, <3>5, FS_Subset, FS_CardinalityType
    <3>7. IF k.step = "record" THEN Cardinality(new) < Quota ELSE Cardinality(new \ Unseen(k)) <= k.count
        BY <3>1, <3>3, <3>4, <3>6, SessionBounds
    <3> QED BY <3>7 DEF new
  <2>6. Counts(k) /\ k.step = "fill" /\ k.at \in OpenOf(Owner[k.target], sessions', torn') => Open(k.copy)
      BY <2>1, <2>4 DEF CallJudged
  <2>7. /\ Judges(k) => sessions'[k.at] # NoSession
        /\ Judges(k) /\ (k.step = "fill" \/ k.op = "beat") => k.copy.state = sessions'[k.at].state
        /\ Judges(k) /\ k.step = "write" /\ k.op # "beat" => CanTransition(sessions'[k.at].state, k.copy.state)
      BY <2>1, <2>3 DEF CallJudged
  <2>8. CallJudged(k, sessions', torn')
      BY <2>5, <2>6, <2>7 DEF CallJudged
  <2> QED BY <2>8 DEF k
<1>6. CallJudged(l, sessions', torn')
    BY <1>1, PlainJudged DEF Judges, Counts
<1>7. \A d \in SessionActor \ outrun' : CallJudged(sessionCall'[d], sessions', torn')
    BY <1>2, <1>5, <1>6
<1>8. \A d \in SessionActor \ outrun' : CallJudged(sessionCall[d], sessions, torn)'
    BY <1>7 DEF CallJudged, Judges, Counts, OpenOf, IsOpen, Open, Unseen, CanTransition
<1> QED BY <1>3, <1>8 DEF QuotaInv

LEMMA QuotaInvInit == SessionInit => QuotaInv
<1>1. ASSUME SessionInit, NEW c \in SessionActor PROVE sessionCall[c] = NoSessionCall
    BY <1>1 DEF SessionInit
<1> QED BY <1>1, IdleFits, PlainJudged, FS_EmptySet DEF SessionInit, QuotaInv

LEMMA QuotaInvStep == SessionInv /\ QuotaInv /\ [SessionNext]_sessionVars => QuotaInv'
<1> SUFFICES ASSUME SessionInv, QuotaInv, [SessionNext]_sessionVars PROVE QuotaInv'
    OBVIOUS
<1>1. ASSUME NEW c \in SessionActor, SessionAccess(c) PROVE QuotaInv'
  <2>1. CASE LookupSession(c) \/ ReadSession(c) \/ FillCache(c)
      BY <2>1, GetJudged
  <2>2. CASE NextListed(c)
      BY <2>2, NextJudged
  <2>3. CASE StoreSession(c) \/ WriteSession(c) \/ DropRecord(c)
      BY <2>3, ChangeStep, ChangeJudged
  <2>4. CASE IndexSession(c) \/ Recache(c) \/ DropIndex(c) \/ Uncache(c)
      BY <2>4, MendJudged
  <2> QED BY <1>1, <2>1, <2>2, <2>3, <2>4 DEF SessionAccess
<1>2. ASSUME NEW c \in SessionClient, ClientNext(c, Session) PROVE QuotaInv'
  <2>1. c \in SessionActor
      BY DEF SessionActor
  <2>2. ASSUME NEW s \in Session, StartCreate(c, s) PROVE QuotaInv'
    <3>1. CASE Quota = 0
      <4>1. BeginCall(c, SessionCall("create", s, "active", "record")) /\ outrun \subseteq outrun'
          BY <2>2, <3>1 DEF StartCreate
      <4>2. SessionCall("create", s, "active", "record").op = "create"
            /\ SessionCall("create", s, "active", "record").step = "record"
          BY DEF SessionCall
      <4> QED BY <2>1, <3>1, <4>1, <4>2, StartJudged
    <3>2. CASE Quota # 0
      <4> DEFINE k == [SessionCall("create", s, "active", "next") EXCEPT !.todo = AgentSessions(Owner[s])]
      <4>1. /\ BeginCall(c, k) /\ outrun \subseteq outrun'
            /\ Unlisted(Owner[s]) => c \in outrun'
          BY <2>2, <3>2 DEF StartCreate
      <4>2. k.op = "create" /\ k.step = "next" /\ k.count = 0 /\ k.target = s
            /\ k.todo = AgentSessions(Owner[s])
          BY DEF SessionCall
      <4> HIDE DEF k
      <4> QED BY <2>1, <4>1, <4>2, StartJudged
    <3> QED BY <3>1, <3>2
  <2>3. ASSUME NEW s \in Session, StartList(c, s) PROVE QuotaInv'
    <3> DEFINE k == [SessionCall("list", s, "active", "next") EXCEPT !.todo = AgentSessions(Owner[s])]
    <3>1. BeginCall(c, k) /\ outrun \subseteq outrun' /\ k.op = "list" /\ k.step = "next"
        BY <2>3 DEF StartList, SessionCall
    <3> HIDE DEF k
    <3> QED BY <2>1, <3>1, StartJudged
  <2>4. ASSUME NEW s, NEW op \in {"get", "delete", "beat", "set", "move"}, NEW to, StartCall(c, s, op, to)
        PROVE  QuotaInv'
    <3> DEFINE k == SessionCall(op, s, to, "lookup")
    <3>1. BeginCall(c, k) /\ outrun \subseteq outrun' /\ k.op # "create" /\ k.step = "lookup"
        BY <2>4 DEF StartCall, SessionCall
    <3> HIDE DEF k
    <3> QED BY <2>1, <3>1, StartJudged
  <2> QED BY <1>1, <1>2, <2>1, <2>2, <2>3, <2>4 DEF ClientNext
<1>3. CASE StartCleanup
  <2> DEFINE expired == {s \in Session : /\ sessions[s] # NoSession /\ Open(sessions[s])
                                         /\ sessions[s].stamp < now}
             k == [SessionCall("clean", NoSession, "failed", "next") EXCEPT !.todo = expired]
  <2>1. /\ BeginCall(Cleaner, k) /\ outrun \subseteq outrun' /\ Cleaner \in SessionActor
        /\ k.op = "clean" /\ k.step = "next"
      BY <1>3 DEF StartCleanup, SessionCall, SessionActor
  <2> HIDE DEF k
  <2> QED BY <2>1, StartJudged
<1>4. CASE SessionTick \/ UNCHANGED sessionVars
  <2>1. UNCHANGED <<sessions, sessionCall, made, torn, outrun>>
      BY <1>4 DEF SessionTick, sessionVars, crossVars
  <2> QED BY <2>1 DEF QuotaInv, CallJudged, Judges, Counts, OpenOf, IsOpen, Open, Unseen, CanTransition
<1>5. CASE SessionCrash
  <2>1. /\ sessionCall' = [c \in SessionActor |-> NoSessionCall] /\ UNCHANGED made
      BY <1>5 DEF SessionCrash
  <2>2. \A c \in SessionActor : CallJudged(sessionCall'[c], sessions', torn')
      BY <2>1, IdleFits, PlainJudged
  <2>3. \A c \in SessionActor : CallJudged(sessionCall[c], sessions, torn)'
      BY <2>2 DEF CallJudged, Judges, Counts, OpenOf, IsOpen, Open, Unseen, CanTransition
  <2> QED BY <2>1, <2>3 DEF QuotaInv
<1> QED BY <1>1, <1>2, <1>3, <1>4, <1>5 DEF SessionNext, CleanupNext, SessionActor

\* session_enhanced.go acts on what it has read: on the state of a session, and on the number of
\* an agent's sessions. Whoever else is at work, clean-up included, and whatever crashes, that is
\* so when it is acted on, for every call that no other has outrun.
THEOREM JudgementsHold == SessionSpec => []QuotaInv
<1> QED BY QuotaInvInit, QuotaInvStep, SessionInvInit, SessionInvStep, PTL DEF SessionSpec

LEMMA QuotaStep ==
    ASSUME SessionInv, QuotaInv, [SessionNext]_sessionVars, NEW s \in made' \ made, Quota > 0,
           \A c \in outrun : sessionCall[c].target # s
    PROVE  Cardinality({t \in Session \ torn : /\ Owner[t] = Owner[s] /\ sessions'[t] # NoSession
                                               /\ sessions'[t].state \in {"active", "paused"}}) <= Quota
<1>1. PICK c \in SessionActor : StoreSession(c)
    BY DEF SessionNext, CleanupNext, ClientNext, SessionAccess, SessionActor, SessionCrash, SessionTick,
           sessionVars, StartCreate, StartList, StartCall, StartCleanup, BeginCall, LookupSession,
           ReadSession, FillCache, NextListed, IndexSession, WriteSession, Recache, DropRecord,
           DropIndex, Uncache
<1> DEFINE k == sessionCall[c]
           open == OpenOf(Owner[s], sessions, torn)
           after == {t \in Session \ torn : /\ Owner[t] = Owner[s] /\ sessions'[t] # NoSession
                                            /\ sessions'[t].state \in {"active", "paused"}}
<1>2. /\ k.target = s /\ k.step = "record" /\ k.op = "create" /\ k.at = k.target
      /\ \A t \in Session \ {s} : sessions'[t] = sessions[t]
    BY <1>1, CallFacts DEF StoreSession, AtStep, ChangeRecord, CallShape, SessionInv, SessionTypeOK
<1>3. Counts(k) /\ CallJudged(k, sessions, torn)
    BY <1>2 DEF Counts, QuotaInv
<1>4. Cardinality(open) < Quota
    BY <1>2, <1>3 DEF CallJudged
<1>5. open \in SUBSET open /\ after \in SUBSET (open \cup {s})
    BY <1>2 DEF OpenOf, IsOpen, Open
<1>6. IsFiniteSet(open) /\ Cardinality(open) \in Nat
    BY <1>5, OpenFinite DEF QuotaInv
<1> HIDE DEF open, after
<1>7. /\ IsFiniteSet(open \cup {s}) /\ Cardinality(open \cup {s}) \in Nat
      /\ Cardinality(open \cup {s}) <= Cardinality(open) + 1
  <2>1. ASSUME NEW x
        PROVE  /\ IsFiniteSet(open \cup {x})
               /\ Cardinality(open \cup {x}) =
                     IF x \in open THEN Cardinality(open) ELSE Cardinality(open) + 1
      BY <1>6, FS_AddElement
  <2>2. /\ IsFiniteSet(open \cup {s}) /\ Cardinality(open \cup {s}) \in Nat
        /\ Cardinality(open \cup {s}) \in {Cardinality(open), Cardinality(open) + 1}
      BY <2>1, FS_CardinalityType
  <2> QED BY <1>6, <2>2
<1>8. Cardinality(after) \in Nat /\ Cardinality(after) <= Cardinality(open \cup {s})
    BY <1>5, <1>7, FS_Subset, FS_CardinalityType
<1>9. Cardinality(after) <= Quota
    BY <1>4, <1>6, <1>7, <1>8, SessionBounds
<1> QED BY <1>9 DEF after

\* session_enhanced.go:183: Create counts an agent's open sessions with an LRU cache over an index,
\* and stores its own. Whatever else goes on at the agent's sessions, it leaves no more than the
\* quota of them, unless it was outrun.
THEOREM QuotaAlwaysKept == SessionSpec => QuotaKept
<1>1. SessionInv /\ QuotaInv /\ [SessionNext]_sessionVars
      => [\A s \in made' \ made :
             Quota > 0 /\ (\A c \in outrun : sessionCall[c].target # s) =>
             Cardinality({t \in Session \ torn : /\ Owner[t] = Owner[s] /\ sessions'[t] # NoSession
                                                 /\ sessions'[t].state \in {"active", "paused"}}) <= Quota]_made
    BY QuotaStep
<1> QED BY <1>1, SessionsHold, JudgementsHold, PTL DEF SessionSpec, QuotaKept

LEMMA StaysCompletedStep ==
    ASSUME SessionInv, QuotaInv, [SessionNext]_sessionVars, NEW s \in Session
    PROVE  StaysCompleted(s)
<1> SUFFICES ASSUME sessions[s] # NoSession, sessions[s].state = "completed",
                    sessions'[s] # NoSession, sessions'[s].state # "completed"
             PROVE  \E c \in SessionActor :
                       /\ AtStep(c, "write") /\ sessionCall'[c].step = "recache" /\ sessionCall[c].at = s
                       /\ sessionCall[c].op = "set" \/ c \in outrun
    BY DEF StaysCompleted
<1>1. PICK c \in SessionActor : StoreSession(c) \/ WriteSession(c) \/ DropRecord(c)
    BY DEF SessionNext, CleanupNext, ClientNext, SessionAccess, SessionActor, SessionCrash, SessionTick,
           sessionVars, StartCreate, StartList, StartCall, StartCleanup, BeginCall, LookupSession,
           ReadSession, FillCache, NextListed, IndexSession, Recache, DropIndex, Uncache
<1> DEFINE k == sessionCall[c]
<1>2. CallShape(k, made) /\ k \in SessionCallType /\ sessions \in [Session -> SessionRecord \cup {NoSession}]
    BY CallFacts DEF SessionInv, SessionTypeOK
<1>3. CASE StoreSession(c)
  <2>1. k.target \notin made /\ \A t \in Session \ {k.target} : sessions'[t] = sessions[t]
      BY <1>2, <1>3 DEF StoreSession, AtStep, ChangeRecord, CallShape, Counts
  <2> QED BY <2>1 DEF SessionInv, SessionTypeOK
<1>4. CASE DropRecord(c)
    BY <1>2, <1>4 DEF DropRecord, ChangeRecord
<1>5. CASE WriteSession(c)
  <2>1. /\ k.step = "write" /\ sessions' = [sessions EXCEPT ![k.at] = k.copy]
        /\ sessionCall' = [sessionCall EXCEPT ![c].step = "recache"]
        /\ k.op \in {"beat", "set", "move", "clean"}
      BY <1>2, <1>5 DEF WriteSession, AtStep, ChangeRecord, CallShape
  <2>2. k.at = s /\ sessions'[s] = k.copy
      BY <1>2, <2>1
  <2>3. sessionCall'[c].step = "recache"
      BY <1>2, <2>1 DEF SessionInv, SessionTypeOK, SessionCallType
  <2>4. k.op = "set" \/ c \in outrun
    <3> SUFFICES ASSUME k.op # "set", c \notin outrun PROVE FALSE
        OBVIOUS
    <3>1. Judges(k) /\ CallJudged(k, sessions, torn)
        BY <2>1 DEF Judges, QuotaInv
    <3>2. k.op = "beat" => k.copy.state = sessions[s].state
        BY <2>2, <3>1 DEF CallJudged
    <3>3. k.op # "beat" => CanTransition(sessions[s].state, k.copy.state)
        BY <2>1, <2>2, <3>1 DEF CallJudged
    <3> QED BY <2>2, <3>2, <3>3 DEF CanTransition
  <2> QED BY <2>1, <2>2, <2>3, <2>4 DEF AtStep
<1> QED BY <1>1, <1>3, <1>4, <1>5

\* session_enhanced.go:49: completed is a final state. Whatever the clients and the clean-up do at
\* the same session, only UpdateState and calls that were outrun take a session out of it.
THEOREM CompletedStays == SessionSpec => CompletedIsFinal
<1>1. SessionInv /\ QuotaInv /\ [SessionNext]_sessionVars => [\A s \in Session : StaysCompleted(s)]_sessions
    BY StaysCompletedStep
<1> QED BY <1>1, SessionsHold, JudgementsHold, PTL DEF SessionSpec, CompletedIsFinal

-----------------------------------------------------------------------------
(* The short-term memories of a session, for any memories, callers, window *)
(* and cache.                                                              *)

\* Set and Delete of the cache keep the shape of the entries.
LEMMA MemoryCacheTyped ==
    ASSUME NEW cache \in [Item -> CachedMemory \cup {Out}], NEW m \in Item, NEW r \in MemoryRecord
    PROVE  /\ CachePut(cache, m, r) \in [Item -> CachedMemory \cup {Out}]
           /\ CacheDelete(cache, m) \in [Item -> CachedMemory \cup {Out}]
<1>1. CachePut(cache, m, r) \in [Item -> CachedMemory \cup {Out}]
    BY CacheTyped DEF CachedMemory
<1>2. CacheDelete(cache, m) \in [Item -> CachedMemory \cup {Out}]
    BY CacheTyped DEF CachedMemory
<1> QED BY <1>1, <1>2

\* Of more memories than the window holds, some are in the surplus of every list they are in.
LEMMA SurplusMeets ==
    ASSUME NEW S \in SUBSET Item, IsFiniteSet(S), NEW J \in SUBSET S, Cardinality(J) > Window
    PROVE  Surplus(S) \cap J # {}
<1>1. IsFiniteSet(J) /\ Cardinality(J) \in Nat /\ Window \in Nat
    BY FS_Subset, FS_CardinalityType, MemoryBounds
<1>2. J # {} /\ J \subseteq Nat
    BY <1>1, FS_EmptySet, ItemAssumption
<1>3. PICK m \in J : \A o \in J : ~(o < m)
  <2>1. PICK x \in J : TRUE
      BY <1>2
  <2>2. \E m \in J : \A o \in J : ~(<<o, m>> \in OpToRel(<, Nat))
      BY <1>2, <2>1, NatLessThanWellFounded, WFMin
  <2>3. PICK m \in J : \A o \in J : ~(<<o, m>> \in OpToRel(<, Nat))
      BY <2>2
  <2>4. \A o \in J : ~(o < m)
      BY <1>2, <2>3 DEF OpToRel
  <2> QED BY <2>4
<1> DEFINE newer == {o \in S : o > m}
<1>4. J \ {m} \subseteq newer
    BY <1>2, <1>3
<1>5. IsFiniteSet(newer) /\ Cardinality(J \ {m}) <= Cardinality(newer) /\ Cardinality(newer) \in Nat
    BY <1>4, FS_Subset, FS_CardinalityType
<1>6. Cardinality(J \ {m}) = Cardinality(J) - 1
    BY <1>1, <1>3, FS_RemoveElement
<1> HIDE DEF newer
<1>7. ~(Cardinality(newer) < Window)
    BY <1>1, <1>5, <1>6
<1>8. m \in Surplus(S)
    BY <1>3, <1>7 DEF Surplus, Newest, newer
<1> QED BY <1>3, <1>8

\* What is in the surplus of a list of stored memories is overtaken.
LEMMA SurplusOvertaken ==
    ASSUME IsFiniteSet(Begun(storing)), NEW S \in SUBSET Begun(storing), NEW m \in Surplus(S)
    PROVE  Overtaken(m, storing)
<1> DEFINE listed == {o \in S : o > m}
           all == {n \in Item : n > m /\ storing[n] # "new"}
<1>1. all \subseteq Begun(storing) /\ listed \subseteq all
    BY DEF Begun
<1>2. IsFiniteSet(all) /\ IsFiniteSet(listed) /\ Cardinality(listed) <= Cardinality(all)
    BY <1>1, FS_Subset
<1>3. Cardinality(all) \in Nat /\ Cardinality(listed) \in Nat /\ Window \in Nat
    BY <1>2, FS_CardinalityType, MemoryBounds
<1>4. ~(Cardinality(listed) < Window)
    BY DEF Surplus, Newest
<1> HIDE DEF listed, all
<1>5. Cardinality(all) >= Window
    BY <1>2, <1>3, <1>4
<1> QED BY <1>5 DEF all, Overtaken

\* A step of StoreShortTerm leaves overtaken what was.
LEMMA OvertakenStays ==
    ASSUME IsFiniteSet(Begun(storing')), Begun(storing) \subseteq Begun(storing'), NEW m \in Item, Overtaken(m, storing)
    PROVE  Overtaken(m, storing')
<1> DEFINE before == {n \in Item : n > m /\ storing[n] # "new"}
           after == {n \in Item : n > m /\ storing'[n] # "new"}
<1>1. before \subseteq after /\ after \subseteq Begun(storing')
    BY DEF Begun
<1>2. IsFiniteSet(after) /\ IsFiniteSet(before) /\ Cardinality(before) <= Cardinality(after)
    BY <1>1, FS_Subset
<1>3. Cardinality(after) \in Nat /\ Cardinality(before) \in Nat /\ Window \in Nat
    BY <1>2, FS_CardinalityType, MemoryBounds
<1>4. Cardinality(before) >= Window
    BY DEF Overtaken
<1> HIDE DEF before, after
<1>5. Cardinality(after) >= Window
    BY <1>2, <1>3, <1>4
<1> QED BY <1>5 DEF after, Overtaken

\* What a step of one actor may change, so that the invariant stays.
MemoryStepFits(a, k) ==
    /\ k \in MemoryCallType /\ memoryCall' = [memoryCall EXCEPT ![a] = k] /\ MemoryCallFits(a, k, storing)
    /\ memories' \in [Item -> MemoryRecord \cup {NoItem}]
    /\ memoryCache' \in [Item -> CachedMemory \cup {Out}]
    /\ memoryIndex' \subseteq memoryIndex
    /\ UNCHANGED <<storing, hour>>
    /\ \A m \in Item \ Listed(storing) : memories'[m] = memories[m]
    /\ \A m \in memoryIndex' : memories'[m] = NoItem =>
          memories[m] = NoItem \/ (k.step = "unindex" /\ k.at = m)
    /\ memoryCall[a].step = "unindex" => memoryCall[a].at \notin memoryIndex'
    /\ \A J \in SUBSET memoryIndex' : Cardinality(J) > Window /\ TakesOneOf(memoryCall[a], J) =>
          TakesOneOf(k, J) \/ \E m \in J : memories[m] = NoItem

\* The calls of the others stand as they did.
LEMMA MemoryStepKeeps ==
    ASSUME MemoryInv, NEW a \in MemoryActor, NEW k, MemoryStepFits(a, k)
    PROVE  MemoryInv'
<1>1. /\ k \in MemoryCallType /\ memoryCall' = [memoryCall EXCEPT ![a] = k] /\ MemoryCallFits(a, k, storing)
      /\ memories' \in [Item -> MemoryRecord \cup {NoItem}]
      /\ memoryCache' \in [Item -> CachedMemory \cup {Out}]
      /\ memoryIndex' \subseteq memoryIndex
      /\ UNCHANGED <<storing, hour>>
    BY DEF MemoryStepFits
<1>2. memoryCall \in [MemoryActor -> MemoryCallType]
    BY DEF MemoryInv, MemoryTypeOK
<1>3. /\ memoryCall'[a] = k
      /\ \A b \in MemoryActor \ {a} : memoryCall'[b] = memoryCall[b]
    BY <1>1, <1>2
<1>4. Begun(storing') = Begun(storing) /\ Listed(storing') = Listed(storing) /\ \A m : Overtaken(m, storing') <=> Overtaken(m, storing)
    BY <1>1 DEF Begun, Listed, Overtaken
<1>5. MemoryTypeOK'
  <2>1. memoryCall' \in [MemoryActor -> MemoryCallType]
      BY <1>1, <1>2
  <2> QED BY <1>1, <1>4, <2>1 DEF MemoryInv, MemoryTypeOK
<1>6. ASSUME NEW b \in MemoryActor, NEW l, MemoryCallFits(b, l, storing) PROVE MemoryCallFits(b, l, storing')
    BY <1>1, <1>4, <1>6 DEF MemoryCallFits
<1>7. MemoryCallsFit'
  <2> SUFFICES ASSUME NEW b \in MemoryActor PROVE MemoryCallFits(b, memoryCall'[b], storing')
      BY DEF MemoryCallsFit
  <2>1. CASE b = a
    <3>1. memoryCall'[b] = k
        BY <1>3, <2>1
    <3> QED BY <1>1, <1>6, <2>1, <3>1
  <2>2. CASE b # a
    <3>1. memoryCall'[b] = memoryCall[b] /\ MemoryCallFits(b, memoryCall[b], storing)
        BY <1>3, <2>2 DEF MemoryInv, MemoryCallsFit
    <3> QED BY <1>6, <3>1
  <2> QED BY <2>1, <2>2
<1>8. ASSUME NEW m \in memoryIndex', memories[m] = NoItem
      PROVE  \E b \in MemoryActor : b # a /\ memoryCall[b].step = "unindex" /\ memoryCall[b].at = m
  <2>1. PICK b \in MemoryActor : memoryCall[b].step = "unindex" /\ memoryCall[b].at = m
      BY <1>1, <1>8 DEF MemoryInv, IndexBacked
  <2>2. b # a
      BY <1>8, <2>1 DEF MemoryStepFits
  <2> QED BY <2>1, <2>2
<1>9. IndexBacked'
  <2>1. memoryIndex' \subseteq Listed(storing')
      BY <1>1, <1>4 DEF MemoryInv, IndexBacked
  <2>2. ASSUME NEW m \in Item, storing'[m] = "stored" PROVE memories'[m] # NoItem
    <3>1. m \notin Listed(storing) /\ storing[m] = "stored"
        BY <1>1, <2>2 DEF Listed
    <3> QED BY <3>1 DEF MemoryStepFits, MemoryInv, IndexBacked
  <2>3. ASSUME NEW m \in memoryIndex', memories'[m] = NoItem
        PROVE  \E b \in MemoryActor : memoryCall'[b].step = "unindex" /\ memoryCall'[b].at = m
    <3>1. memories[m] = NoItem \/ (k.step = "unindex" /\ k.at = m)
        BY <2>3 DEF MemoryStepFits
    <3>2. CASE memories[m] = NoItem
        BY <1>3, <1>8, <3>2
    <3>3. CASE k.step = "unindex" /\ k.at = m
        BY <1>3, <3>3
    <3> QED BY <3>1, <3>2, <3>3
  <2> QED BY <2>1, <2>2, <2>3 DEF IndexBacked
<1>10. WindowRestored'
  <2> SUFFICES ASSUME NEW J \in SUBSET memoryIndex', Cardinality(J) > Window,
                      ~\E m \in Item : storing'[m] = "indexed"
               PROVE  \E b \in MemoryActor : TakesOneOf(memoryCall'[b], J)
      BY DEF WindowRestored, TakesOneOf, FoundBy, Visiting
  <2>1. PICK b \in MemoryActor : TakesOneOf(memoryCall[b], J)
      BY <1>1 DEF MemoryInv, WindowRestored
  <2>2. CASE b # a
      BY <1>3, <2>1, <2>2
  <2>3. CASE b = a
    <3>1. TakesOneOf(k, J) \/ \E m \in J : memories[m] = NoItem
        BY <2>1, <2>3 DEF MemoryStepFits
    <3>2. CASE TakesOneOf(k, J)
        BY <1>3, <3>2
    <3>3. CASE \E m \in J : memories[m] = NoItem
      <4>1. PICK m \in J : memories[m] = NoItem
          BY <3>3
      <4>2. PICK d \in MemoryActor : d # a /\ memoryCall[d].step = "unindex" /\ memoryCall[d].at = m
          BY <1>8, <4>1
      <4>3. TakesOneOf(memoryCall'[d], J)
          BY <1>3, <4>1, <4>2 DEF TakesOneOf
      <4> QED BY <4>3
    <3> QED BY <3>1, <3>2, <3>3
  <2> QED BY <2>2, <2>3
<1> QED BY <1>5, <1>7, <1>9, <1>10 DEF MemoryInv

\* A step that changes a call and the cache only.
LEMMA MemoryCallKeeps ==
    ASSUME MemoryInv, NEW a \in MemoryActor, NEW k \in MemoryCallType, MemoryCallFits(a, k, storing),
           memoryCall' = [memoryCall EXCEPT ![a] = k], UNCHANGED <<memories, memoryIndex, storing, hour>>,
           memoryCache' \in [Item -> CachedMemory \cup {Out}], memoryCall[a].step # "unindex",
           \A J \in SUBSET memoryIndex : Cardinality(J) > Window /\ TakesOneOf(memoryCall[a], J) =>
              TakesOneOf(k, J) \/ \E m \in J : memories[m] = NoItem
    PROVE  MemoryInv'
<1>1. memories \in [Item -> MemoryRecord \cup {NoItem}]
    BY DEF MemoryInv, MemoryTypeOK
<1>2. MemoryStepFits(a, k)
    BY <1>1 DEF MemoryStepFits
<1> QED BY <1>2, MemoryStepKeeps
\* A call that is over, or has not begun, fits.
LEMMA NoMemoryCallFits ==
    /\ NoMemoryCall \in MemoryCallType
    /\ NoMemoryCall.op = "none" /\ NoMemoryCall.step = "idle"
    /\ \A a \in MemoryActor : \A stages : MemoryCallFits(a, NoMemoryCall, stages)
    /\ \A J : ~TakesOneOf(NoMemoryCall, J)
<1>1. NoMemoryCall = [op |-> "none", step |-> "idle", at |-> NoItem, copy |-> NoItem, todo |-> {},
                      found |-> {}, began |-> 0]
    BY DEF NoMemoryCall, MemoryCall
<1>2. NoMemoryCall \in MemoryCallType
    BY <1>1, MemoryBounds DEF MemoryCallType
<1>3. /\ NoMemoryCall.op = "none" /\ NoMemoryCall.step = "idle" /\ NoMemoryCall.todo = {}
      /\ FoundBy(NoMemoryCall) = {} /\ Visiting(NoMemoryCall) = {}
    BY <1>1 DEF FoundBy, Visiting
<1> QED BY <1>2, <1>3 DEF MemoryCallFits, TakesOneOf

\* The call an actor is in.
LEMMA MemoryCallFacts ==
    ASSUME MemoryInv, NEW a \in MemoryActor
    PROVE  /\ memoryCall[a] \in MemoryCallType /\ MemoryCallFits(a, memoryCall[a], storing)
           /\ memoryCall[a].step \in {"lookup", "read", "fill", "touch", "recache", "drop", "unindex"} =>
                 memoryCall[a].at \in Item /\ memoryCall[a].at \in Listed(storing)
<1>1. memoryCall[a] \in MemoryCallType /\ MemoryCallFits(a, memoryCall[a], storing)
    BY DEF MemoryInv, MemoryTypeOK, MemoryCallsFit
<1> QED BY <1>1 DEF MemoryCallFits, Visiting, Listed

\* A call that goes from one access of its Get to the next.
LEMMA VisitGoesOn ==
    ASSUME NEW a \in MemoryActor, NEW k \in MemoryCallType, MemoryCallFits(a, k, storing),
           k.step \in {"lookup", "read", "fill", "touch", "recache"},
           NEW l \in MemoryCallType, l.op = k.op, l.at = k.at, l.todo = k.todo, l.found = k.found,
           l.step \in {"read", "fill", "touch", "recache", "drop"},
           l.step = "drop" => l.op \in {"delete", "purge"},
           l.step # "drop" /\ l.step # "read" => l.copy \in MemoryRecord
    PROVE  /\ MemoryCallFits(a, l, storing)
           /\ \A J : TakesOneOf(k, J) => TakesOneOf(l, J)
<1>1. Visiting(k) = {k.at} /\ Visiting(l) = {k.at} /\ FoundBy(l) = FoundBy(k)
    BY DEF Visiting, FoundBy
<1>2. k # NoMemoryCall /\ k.op # "none"
    BY NoMemoryCallFits DEF MemoryCallFits
<1>3. MemoryCallFits(a, l, storing)
    BY <1>1, <1>2 DEF MemoryCallFits
<1>4. \A J : TakesOneOf(k, J) => TakesOneOf(l, J)
    BY <1>1 DEF TakesOneOf
<1> QED BY <1>3, <1>4

\* The end of a call that does not evict.
LEMMA MemoryCallEnds ==
    ASSUME MemoryInv, NEW a \in MemoryActor, memoryCall' = [memoryCall EXCEPT ![a] = NoMemoryCall],
           UNCHANGED <<memories, memoryIndex, storing, hour>>,
           memoryCache' \in [Item -> CachedMemory \cup {Out}], memoryCall[a].step # "unindex",
           \A J \in SUBSET memoryIndex : Cardinality(J) > Window => ~TakesOneOf(memoryCall[a], J)
    PROVE  MemoryInv'
BY NoMemoryCallFits, MemoryCallKeeps

\* A call begins with a Get, or with a scan.
LEMMA MemoryCallBegins ==
    ASSUME MemoryInv, NEW a \in MemoryActor \ Item, NEW op \in {"get", "access", "delete", "decay"},
           NEW step \in {"lookup", "scan"}, NEW at \in Item \cup {NoItem},
           op = "delete" => a \in MemoryClient,
           (step = "scan") <=> (op = "decay"), step = "lookup" => at \in Listed(storing),
           memoryCall[a] = NoMemoryCall, memoryCall' = [memoryCall EXCEPT ![a] = MemoryCall(op, step, at)],
           UNCHANGED <<memories, memoryIndex, memoryCache, storing, hour>>
    PROVE  MemoryInv'
<1> DEFINE k == MemoryCall(op, step, at)
<1>1. hour \in 0..MaxHour /\ memoryCache \in [Item -> CachedMemory \cup {Out}]
    BY DEF MemoryInv, MemoryTypeOK
<1>2. k \in MemoryCallType
    BY <1>1 DEF MemoryCall, NoMemoryCall, MemoryCallType
<1>3. k.op = op /\ k.step = step /\ k.at = at /\ k.todo = {} /\ k.found = {}
    BY DEF MemoryCall, NoMemoryCall
<1> HIDE DEF k
<1>4. FoundBy(k) = {} /\ Visiting(k) \subseteq Listed(storing)
    BY <1>3 DEF FoundBy, Visiting
<1>5. MemoryCallFits(a, k, storing)
    BY <1>3, <1>4 DEF MemoryCallFits
<1>6. memoryCall' = [memoryCall EXCEPT ![a] = k]
    BY DEF k
<1> QED BY <1>1, <1>2, <1>5, <1>6, NoMemoryCallFits, MemoryCallKeeps

\* The first three accesses of Get.
LEMMA MemoryGetStep ==
    ASSUME MemoryInv, NEW a \in MemoryActor, LookupMemory(a) \/ ReadMemory(a) \/ FillMemory(a)
    PROVE  MemoryInv'
<1> DEFINE k == memoryCall[a]
<1>1. /\ k \in MemoryCallType /\ MemoryCallFits(a, k, storing) /\ k.step \in {"lookup", "read", "fill"}
      /\ UNCHANGED <<memories, memoryIndex, storing, hour>>
    BY MemoryCallFacts DEF LookupMemory, ReadMemory, FillMemory, MemoryAt
<1>2. k.at \in Item
    BY <1>1, MemoryCallFacts
<1>3. /\ memoryCache \in [Item -> CachedMemory \cup {Out}]
      /\ memories \in [Item -> MemoryRecord \cup {NoItem}]
    BY DEF MemoryInv, MemoryTypeOK
<1>4. ASSUME NEW l \in MemoryCallType, l.op = k.op, l.at = k.at, l.todo = k.todo, l.found = k.found,
             l.step \in {"read", "fill", "touch"}, l.step # "read" => l.copy \in MemoryRecord,
             memoryCall' = [memoryCall EXCEPT ![a] = l], memoryCache' \in [Item -> CachedMemory \cup {Out}]
      PROVE  MemoryInv'
  <2>1. MemoryCallFits(a, l, storing) /\ \A J : TakesOneOf(k, J) => TakesOneOf(l, J)
      BY <1>1, <1>4, VisitGoesOn
  <2> QED BY <1>1, <1>4, <2>1, MemoryCallKeeps
<1>5. CASE LookupMemory(a) /\ InCache(memoryCache, k.at)
  <2> DEFINE r == memoryCache[k.at].value
             l == [k EXCEPT !.step = "touch", !.copy = r]
  <2>1. r \in MemoryRecord
    <3>1. memoryCache[k.at] \in CachedMemory
        BY <1>2, <1>3, <1>5 DEF InCache
    <3> QED BY <3>1 DEF CachedMemory
  <2>2. memoryCache' = CachePut(memoryCache, k.at, r) /\ memoryCall' = [memoryCall EXCEPT ![a] = l]
      BY <1>5 DEF LookupMemory, CacheUse
  <2>3. memoryCache' \in [Item -> CachedMemory \cup {Out}]
      BY <1>2, <1>3, <2>1, <2>2, MemoryCacheTyped
  <2>4. /\ l \in MemoryCallType /\ l.op = k.op /\ l.at = k.at /\ l.todo = k.todo /\ l.found = k.found
        /\ l.step = "touch" /\ l.copy = r
      BY <1>1, <2>1 DEF MemoryCallType
  <2> HIDE DEF l, r
  <2> QED BY <1>4, <2>1, <2>2, <2>3, <2>4
<1>6. CASE LookupMemory(a) /\ ~InCache(memoryCache, k.at)
  <2> DEFINE l == [k EXCEPT !.step = "read"]
  <2>1. memoryCache' = memoryCache /\ memoryCall' = [memoryCall EXCEPT ![a] = l]
      BY <1>6 DEF LookupMemory
  <2>2. /\ l \in MemoryCallType /\ l.op = k.op /\ l.at = k.at /\ l.todo = k.todo /\ l.found = k.found
        /\ l.step = "read"
      BY <1>1 DEF MemoryCallType
  <2> HIDE DEF l
  <2> QED BY <1>3, <1>4, <2>1, <2>2
<1>7. CASE FillMemory(a)
  <2> DEFINE l == [k EXCEPT !.step = "touch"]
  <2>1. /\ k.step = "fill" /\ memoryCache' = CachePut(memoryCache, k.at, k.copy)
        /\ memoryCall' = [memoryCall EXCEPT ![a] = l]
    <3>1. memoryCall' = [memoryCall EXCEPT ![a] = [@ EXCEPT !.step = "touch"]]
        BY <1>7 DEF FillMemory
    <3> QED BY <1>7, <3>1 DEF FillMemory, MemoryAt
  <2>2. k.copy \in MemoryRecord
      BY <1>1, <2>1 DEF MemoryCallFits
  <2>3. memoryCache' \in [Item -> CachedMemory \cup {Out}]
      BY <1>2, <1>3, <2>1, <2>2, MemoryCacheTyped
  <2>4. /\ l \in MemoryCallType /\ l.op = k.op /\ l.at = k.at /\ l.todo = k.todo /\ l.found = k.found
        /\ l.step = "touch" /\ l.copy = k.copy
      BY <1>1 DEF MemoryCallType
  <2> HIDE DEF l
  <2> QED BY <1>4, <2>1, <2>2, <2>3, <2>4
<1>8. CASE ReadMemory(a) /\ memories[k.at] # NoItem
  <2> DEFINE l == [k EXCEPT !.step = "fill", !.copy = memories[k.at]]
  <2>1. memoryCache' = memoryCache /\ memoryCall' = [memoryCall EXCEPT ![a] = l]
      BY <1>8 DEF ReadMemory
  <2>2. memories[k.at] \in MemoryRecord
      BY <1>2, <1>3, <1>8
  <2>3. /\ l \in MemoryCallType /\ l.op = k.op /\ l.at = k.at /\ l.todo = k.todo /\ l.found = k.found
        /\ l.step = "fill" /\ l.copy = memories[k.at]
      BY <1>1, <2>2 DEF MemoryCallType
  <2> HIDE DEF l
  <2> QED BY <1>3, <1>4, <2>1, <2>2, <2>3
<1>9. CASE ReadMemory(a) /\ memories[k.at] = NoItem
  <2>1. /\ memoryCall' = [memoryCall EXCEPT ![a] = MemoryMissing(k)] /\ memoryCache' = memoryCache
        /\ k.step = "read"
      BY <1>9 DEF ReadMemory, MemoryAt
  <2>2. CASE k.op \in {"get", "access", "delete"}
    <3>1. MemoryMissing(k) = NoMemoryCall
        BY <2>2 DEF MemoryMissing
    <3>2. \A J : ~TakesOneOf(k, J)
        BY <2>1, <2>2 DEF TakesOneOf
    <3> QED BY <1>1, <1>3, <2>1, <3>1, <3>2, MemoryCallEnds
  <2>3. CASE k.op \notin {"get", "access", "delete"}
    <3> DEFINE l == [k EXCEPT !.step = "next"]
    <3>1. MemoryMissing(k) = l
        BY <2>3 DEF MemoryMissing
    <3>2. /\ l \in MemoryCallType /\ l.op = k.op /\ l.todo = k.todo /\ l.found = k.found /\ l.step = "next"
        BY <1>1 DEF MemoryCallType
    <3> HIDE DEF l
    <3>3. FoundBy(l) = FoundBy(k) /\ Visiting(l) = {} /\ Visiting(k) = {k.at}
        BY <2>1, <3>2 DEF FoundBy, Visiting
    <3>4. k.op # "none" /\ k # NoMemoryCall
        BY <1>1, <2>1, NoMemoryCallFits DEF MemoryCallFits
    <3>5. MemoryCallFits(a, l, storing)
        BY <1>1, <3>2, <3>3, <3>4 DEF MemoryCallFits
    <3>6. ASSUME NEW J, TakesOneOf(k, J), k.at \notin J PROVE TakesOneOf(l, J)
        BY <2>1, <3>2, <3>3, <3>6 DEF TakesOneOf
    <3> QED BY <1>1, <1>3, <1>9, <2>1, <3>1, <3>2, <3>5, <3>6, MemoryCallKeeps
  <2> QED BY <2>2, <2>3
<1> QED BY <1>5, <1>6, <1>7, <1>8, <1>9
\* touchMemory writes its copy to the store, whatever has become of the record.
LEMMA TouchStep == ASSUME MemoryInv, NEW a \in MemoryActor, TouchMemory(a) PROVE MemoryInv'
<1> DEFINE k == memoryCall[a]
           r == IF k.op = "fade" THEN Decayed(k) ELSE [k.copy EXCEPT !.accessed = hour]
           l == [k EXCEPT !.step = "recache", !.copy = r]
<1>1. /\ k.step = "touch" /\ memories' = [memories EXCEPT ![k.at] = r]
      /\ memoryCall' = [memoryCall EXCEPT ![a] = l]
      /\ UNCHANGED <<memoryIndex, memoryCache, storing, hour>>
    BY DEF TouchMemory, MemoryAt
<1>2. k \in MemoryCallType /\ MemoryCallFits(a, k, storing) /\ k.at \in Item /\ k.at \in Listed(storing)
    BY <1>1, MemoryCallFacts
<1>3. k.copy \in MemoryRecord
    BY <1>1, <1>2 DEF MemoryCallFits
<1>4. /\ hour \in 0..MaxHour /\ memories \in [Item -> MemoryRecord \cup {NoItem}]
      /\ memoryCache \in [Item -> CachedMemory \cup {Out}]
    BY DEF MemoryInv, MemoryTypeOK
<1>5. r \in MemoryRecord
  <2>1. k.began \in 0..MaxHour
      BY <1>2 DEF MemoryCallType
  <2>2. Decayed(k) \in MemoryRecord
      BY <1>3, <2>1 DEF Decayed, MemoryRecord
  <2>3. [k.copy EXCEPT !.accessed = hour] \in MemoryRecord
      BY <1>3, <1>4 DEF MemoryRecord
  <2> QED BY <2>2, <2>3
<1> HIDE DEF r
<1>6. /\ l \in MemoryCallType /\ l.op = k.op /\ l.at = k.at /\ l.todo = k.todo /\ l.found = k.found
      /\ l.step = "recache" /\ l.copy = r
    BY <1>2, <1>5 DEF MemoryCallType
<1> HIDE DEF l
<1>7. MemoryCallFits(a, l, storing) /\ \A J : TakesOneOf(k, J) => TakesOneOf(l, J)
    BY <1>1, <1>2, <1>5, <1>6, VisitGoesOn
<1>8. /\ memories' \in [Item -> MemoryRecord \cup {NoItem}] /\ memories'[k.at] # NoItem
      /\ \A m \in Item \ {k.at} : memories'[m] = memories[m]
    BY <1>1, <1>2, <1>4, <1>5, NoItemAssumption
<1>9. memoryIndex \subseteq Item
    BY DEF MemoryInv, IndexBacked, Listed
<1>10. MemoryStepFits(a, l)
    BY <1>1, <1>2, <1>4, <1>6, <1>7, <1>8, <1>9 DEF MemoryStepFits
<1> QED BY <1>10, MemoryStepKeeps

\* The last access of Get, and what its caller does then.
LEMMA RecacheStep == ASSUME MemoryInv, NEW a \in MemoryActor, RecacheMemory(a) PROVE MemoryInv'
<1> DEFINE k == memoryCall[a]
<1>1. /\ k.step = "recache" /\ memoryCache' = CachePut(memoryCache, k.at, k.copy)
      /\ memoryCall' = [memoryCall EXCEPT ![a] = AfterMemoryGet(k, k.copy)]
      /\ UNCHANGED <<memories, memoryIndex, storing, hour>>
    BY DEF RecacheMemory, MemoryAt
<1>2. k \in MemoryCallType /\ MemoryCallFits(a, k, storing) /\ k.at \in Item /\ k.at \in Listed(storing)
    BY <1>1, MemoryCallFacts
<1>3. k.copy \in MemoryRecord /\ k # NoMemoryCall /\ k.op # "none"
    BY <1>1, <1>2, NoMemoryCallFits DEF MemoryCallFits
<1>4. memoryCache' \in [Item -> CachedMemory \cup {Out}]
    BY <1>1, <1>2, <1>3, MemoryCacheTyped DEF MemoryInv, MemoryTypeOK
<1>5. Visiting(k) = {k.at}
    BY <1>1 DEF Visiting
<1>6. CASE k.op = "get"
  <2>1. AfterMemoryGet(k, k.copy) = NoMemoryCall
      BY <1>6 DEF AfterMemoryGet
  <2>2. \A J : ~TakesOneOf(k, J)
      BY <1>1, <1>6 DEF TakesOneOf
  <2> QED BY <1>1, <1>4, <2>1, <2>2, MemoryCallEnds
<1>7. CASE k.op = "access"
  <2> DEFINE l == [k EXCEPT !.op = "get", !.step = "touch", !.copy = k.copy]
  <2>1. AfterMemoryGet(k, k.copy) = l
      BY <1>7 DEF AfterMemoryGet
  <2>2. /\ l \in MemoryCallType /\ l.op = "get" /\ l.at = k.at /\ l.todo = k.todo /\ l.found = k.found
        /\ l.step = "touch" /\ l.copy = k.copy
      BY <1>2 DEF MemoryCallType
  <2> HIDE DEF l
  <2>3. Visiting(l) = {k.at} /\ FoundBy(l) = FoundBy(k)
      BY <2>2 DEF Visiting, FoundBy
  <2>4. MemoryCallFits(a, l, storing)
      BY <1>2, <1>3, <1>5, <2>2, <2>3 DEF MemoryCallFits
  <2>5. \A J : ~TakesOneOf(k, J)
      BY <1>1, <1>7 DEF TakesOneOf
  <2> QED BY <1>1, <1>4, <2>1, <2>2, <2>4, <2>5, MemoryCallKeeps
<1>8. CASE k.op \in {"delete", "purge"}
  <2> DEFINE l == [k EXCEPT !.step = "drop", !.copy = NoItem]
  <2>1. AfterMemoryGet(k, k.copy) = l
      BY <1>8 DEF AfterMemoryGet
  <2>2. /\ l \in MemoryCallType /\ l.op = k.op /\ l.at = k.at /\ l.todo = k.todo /\ l.found = k.found
        /\ l.step = "drop"
      BY <1>2 DEF MemoryCallType
  <2> HIDE DEF l
  <2>3. MemoryCallFits(a, l, storing) /\ \A J : TakesOneOf(k, J) => TakesOneOf(l, J)
      BY <1>1, <1>2, <1>8, <2>2, VisitGoesOn
  <2> QED BY <1>1, <1>4, <2>1, <2>2, <2>3, MemoryCallKeeps
<1>9. CASE k.op \in {"evict", "decay"}
  <2> DEFINE l == [k EXCEPT !.step = "next", !.copy = NoItem, !.found = @ \cup {[item |-> k.at, copy |-> k.copy]}]
  <2>1. AfterMemoryGet(k, k.copy) = l
      BY <1>9 DEF AfterMemoryGet
  <2>2. /\ l \in MemoryCallType /\ l.op = k.op /\ l.todo = k.todo /\ l.step = "next"
        /\ l.found = k.found \cup {[item |-> k.at, copy |-> k.copy]}
    <3> DEFINE found == k.found \cup {[item |-> k.at, copy |-> k.copy]}
    <3>1. found \in SUBSET [item : Item, copy : MemoryRecord]
      <4>1. k.found \in SUBSET [item : Item, copy : MemoryRecord]
          BY <1>2 DEF MemoryCallType
      <4>2. [item |-> k.at, copy |-> k.copy] \in [item : Item, copy : MemoryRecord]
          BY <1>2, <1>3
      <4> QED BY <4>1, <4>2
    <3> HIDE DEF found
    <3>2. l = [k EXCEPT !.step = "next", !.copy = NoItem, !.found = found]
        BY DEF found
    <3> HIDE DEF l
    <3>3. /\ l \in MemoryCallType /\ l.op = k.op /\ l.todo = k.todo /\ l.step = "next"
          /\ l.found = found
        BY <1>2, <3>1, <3>2 DEF MemoryCallType
    <3> QED BY <3>3 DEF found
  <2> HIDE DEF l
  <2>3. Visiting(l) = {} /\ FoundBy(l) = FoundBy(k) \cup {k.at}
    <3>1. Visiting(l) = {}
        BY <2>2 DEF Visiting
    <3>2. [item |-> k.at, copy |-> k.copy].item = k.at
        OBVIOUS
    <3>3. FoundBy(l) = FoundBy(k) \cup {k.at}
        BY <2>2, <3>2 DEF FoundBy
    <3> QED BY <3>1, <3>3
  <2>4. MemoryCallFits(a, l, storing)
      BY <1>2, <1>3, <1>5, <1>9, <2>2, <2>3 DEF MemoryCallFits
  <2>5. \A J : TakesOneOf(k, J) => TakesOneOf(l, J)
      BY <1>1, <1>5, <1>9, <2>2, <2>3 DEF TakesOneOf
  <2> QED BY <1>1, <1>4, <2>1, <2>2, <2>4, <2>5, MemoryCallKeeps
<1>10. CASE k.op = "fade"
  <2> DEFINE l == [k EXCEPT !.step = "next", !.copy = NoItem]
  <2>1. AfterMemoryGet(k, k.copy) = l
      BY <1>10 DEF AfterMemoryGet
  <2>2. /\ l \in MemoryCallType /\ l.op = k.op /\ l.todo = k.todo /\ l.found = k.found /\ l.step = "next"
      BY <1>2 DEF MemoryCallType
  <2> HIDE DEF l
  <2>3. Visiting(l) = {} /\ FoundBy(l) = FoundBy(k)
      BY <2>2 DEF Visiting, FoundBy
  <2>4. MemoryCallFits(a, l, storing)
      BY <1>2, <1>3, <1>10, <2>2, <2>3 DEF MemoryCallFits
  <2>5. \A J : ~TakesOneOf(k, J)
      BY <1>1, <1>10 DEF TakesOneOf
  <2> QED BY <1>1, <1>4, <2>1, <2>2, <2>4, <2>5, MemoryCallKeeps
<1>11. k.op \in {"get", "access", "delete", "purge", "evict", "decay", "fade"}
    BY <1>2, <1>3 DEF MemoryCallType
<1> QED BY <1>6, <1>7, <1>8, <1>9, <1>10, <1>11

\* Delete removes the record, the index entry and the cache entry.
LEMMA DeleteStep ==
    ASSUME MemoryInv, NEW a \in MemoryActor, DropMemory(a) \/ UnlistMemory(a) \/ UncacheMemory(a)
    PROVE  MemoryInv'
<1> DEFINE k == memoryCall[a]
<1>1. /\ k \in MemoryCallType /\ MemoryCallFits(a, k, storing) /\ k.step \in {"drop", "unindex", "uncache"}
      /\ k.op \in {"delete", "purge"} /\ k # NoMemoryCall
      /\ UNCHANGED <<storing, hour>>
  <2>1. k.step \in {"drop", "unindex", "uncache"} /\ UNCHANGED <<storing, hour>>
      BY DEF DropMemory, UnlistMemory, UncacheMemory, MemoryAt
  <2>2. k \in MemoryCallType /\ MemoryCallFits(a, k, storing)
      BY MemoryCallFacts
  <2> QED BY <2>1, <2>2, NoMemoryCallFits DEF MemoryCallFits
<1>2. /\ memoryCache \in [Item -> CachedMemory \cup {Out}]
      /\ memories \in [Item -> MemoryRecord \cup {NoItem}] /\ memoryIndex \subseteq Item
      /\ memoryCall \in [MemoryActor -> MemoryCallType]
    BY DEF MemoryInv, MemoryTypeOK, IndexBacked, Listed
<1>3. ASSUME NEW step \in {"unindex", "uncache", "next"}
      PROVE  LET l == [k EXCEPT !.step = step] IN
             /\ l \in MemoryCallType /\ l.op = k.op /\ l.at = k.at /\ l.todo = k.todo /\ l.found = k.found
             /\ l.step = step /\ l.copy = k.copy
    BY <1>1 DEF MemoryCallType
<1>4. ASSUME NEW step, memoryCall' = [memoryCall EXCEPT ![a].step = step]
      PROVE  memoryCall' = [memoryCall EXCEPT ![a] = [k EXCEPT !.step = step]]
    BY <1>4
<1>5. CASE DropMemory(a)
  <2> DEFINE l == [k EXCEPT !.step = "unindex"]
  <2>1. /\ k.step = "drop" /\ memories' = [memories EXCEPT ![k.at] = NoItem]
        /\ UNCHANGED <<memoryIndex, memoryCache>> /\ memoryCall' = [memoryCall EXCEPT ![a] = l]
      BY <1>4, <1>5 DEF DropMemory, MemoryAt
  <2>2. k.at \in Item /\ k.at \in Listed(storing)
      BY <2>1, MemoryCallFacts
  <2>3. /\ l \in MemoryCallType /\ l.op = k.op /\ l.at = k.at /\ l.todo = k.todo /\ l.found = k.found
        /\ l.step = "unindex"
      BY <1>3
  <2> HIDE DEF l
  <2>4. Visiting(k) = {k.at} /\ Visiting(l) = {k.at} /\ FoundBy(l) = FoundBy(k)
      BY <2>1, <2>3 DEF Visiting, FoundBy
  <2>5. MemoryCallFits(a, l, storing)
      BY <1>1, <2>3, <2>4 DEF MemoryCallFits
  <2>6. \A J : TakesOneOf(k, J) => TakesOneOf(l, J)
      BY <1>1, <2>1, <2>3, <2>4 DEF TakesOneOf
  <2>7. /\ memories' \in [Item -> MemoryRecord \cup {NoItem}]
        /\ \A m \in Item \ {k.at} : memories'[m] = memories[m]
      BY <1>2, <2>1, <2>2
  <2>8. MemoryStepFits(a, l)
      BY <1>1, <1>2, <2>1, <2>2, <2>3, <2>5, <2>6, <2>7 DEF MemoryStepFits
  <2> QED BY <2>8, MemoryStepKeeps
<1>6. CASE UnlistMemory(a)
  <2> DEFINE l == [k EXCEPT !.step = "uncache"]
  <2>1. /\ k.step = "unindex" /\ memoryIndex' = memoryIndex \ {k.at}
        /\ UNCHANGED <<memories, memoryCache>> /\ memoryCall' = [memoryCall EXCEPT ![a] = l]
      BY <1>4, <1>6 DEF UnlistMemory, MemoryAt
  <2>2. /\ l \in MemoryCallType /\ l.op = k.op /\ l.at = k.at /\ l.todo = k.todo /\ l.found = k.found
        /\ l.step = "uncache"
      BY <1>3
  <2> HIDE DEF l
  <2>3. Visiting(k) = {k.at} /\ Visiting(l) = {} /\ FoundBy(l) = FoundBy(k)
      BY <2>1, <2>2 DEF Visiting, FoundBy
  <2>4. MemoryCallFits(a, l, storing)
    <3>1. k.at \in Item
        BY <2>1, MemoryCallFacts
    <3> QED BY <1>1, <2>2, <2>3, <3>1 DEF MemoryCallFits
  <2>5. ASSUME NEW J, k.at \notin J, TakesOneOf(k, J) PROVE TakesOneOf(l, J)
      BY <1>1, <2>1, <2>2, <2>3, <2>5 DEF TakesOneOf
  <2>6. MemoryStepFits(a, l)
      BY <1>1, <1>2, <2>1, <2>2, <2>4, <2>5 DEF MemoryStepFits
  <2> QED BY <2>6, MemoryStepKeeps
<1>7. CASE UncacheMemory(a)
  <2>1. /\ k.step = "uncache" /\ memoryCache' = CacheDelete(memoryCache, k.at)
        /\ memoryCall' = [memoryCall EXCEPT ![a] = IF k.op = "purge" THEN [k EXCEPT !.step = "next"]
                                                   ELSE NoMemoryCall]
        /\ UNCHANGED <<memories, memoryIndex>>
      BY <1>7 DEF UncacheMemory, MemoryAt
  <2>2. memoryCache' \in [Item -> CachedMemory \cup {Out}]
    <3>1. Fresh \in MemoryRecord /\ k.at \in Item
        BY <1>1, <2>1 DEF MemoryInv, MemoryTypeOK, MemoryCallFits, Fresh, MemoryRecord
    <3> QED BY <1>2, <2>1, <3>1, MemoryCacheTyped
  <2>3. CASE k.op = "purge"
    <3> DEFINE l == [k EXCEPT !.step = "next"]
    <3>1. /\ l \in MemoryCallType /\ l.op = k.op /\ l.todo = k.todo /\ l.found = k.found /\ l.step = "next"
        BY <1>3
    <3>2. memoryCall' = [memoryCall EXCEPT ![a] = l]
        BY <2>1, <2>3
    <3> HIDE DEF l
    <3>3. Visiting(k) = {} /\ Visiting(l) = {} /\ FoundBy(l) = FoundBy(k)
        BY <2>1, <3>1 DEF Visiting, FoundBy
    <3>4. MemoryCallFits(a, l, storing)
        BY <1>1, <3>1, <3>3 DEF MemoryCallFits
    <3>5. \A J : TakesOneOf(k, J) => TakesOneOf(l, J)
        BY <2>1, <2>3, <3>1, <3>3 DEF TakesOneOf
    <3> QED BY <1>1, <2>1, <2>2, <3>1, <3>2, <3>4, <3>5, MemoryCallKeeps
  <2>4. CASE k.op # "purge"
    <3>1. \A J : ~TakesOneOf(k, J)
        BY <1>1, <2>1, <2>4 DEF TakesOneOf
    <3> QED BY <1>1, <2>1, <2>2, <2>4, <3>1, MemoryCallEnds
  <2> QED BY <2>3, <2>4
<1> QED BY <1>5, <1>6, <1>7
\* ListBySession scans the index.
LEMMA ScanStep == ASSUME MemoryInv, NEW a \in MemoryActor, ScanMemories(a) PROVE MemoryInv'
<1> DEFINE k == memoryCall[a]
           l == [k EXCEPT !.step = "next", !.todo = memoryIndex]
<1>1. /\ k.step = "scan" /\ memoryCall' = [memoryCall EXCEPT ![a] = l]
      /\ UNCHANGED <<memories, memoryIndex, memoryCache, storing, hour>>
    BY DEF ScanMemories, MemoryAt
<1>2. /\ k \in MemoryCallType /\ MemoryCallFits(a, k, storing) /\ k # NoMemoryCall
      /\ k.op \in {"evict", "decay"}
    BY <1>1, MemoryCallFacts, NoMemoryCallFits DEF MemoryCallFits
<1>3. /\ memoryIndex \subseteq Listed(storing) /\ memoryIndex \subseteq Item
      /\ memoryCache \in [Item -> CachedMemory \cup {Out}]
    BY DEF MemoryInv, IndexBacked, MemoryTypeOK, Listed
<1>4. /\ l \in MemoryCallType /\ l.op = k.op /\ l.todo = memoryIndex /\ l.found = k.found /\ l.step = "next"
    BY <1>2, <1>3 DEF MemoryCallType
<1> HIDE DEF l
<1>5. Visiting(l) = {} /\ FoundBy(l) = FoundBy(k)
    BY <1>4 DEF Visiting, FoundBy
<1>6. MemoryCallFits(a, l, storing)
    BY <1>2, <1>3, <1>4, <1>5 DEF MemoryCallFits
<1>7. ASSUME NEW J \in SUBSET memoryIndex, TakesOneOf(k, J) PROVE TakesOneOf(l, J)
    BY <1>1, <1>2, <1>4, <1>7 DEF TakesOneOf
<1> QED BY <1>1, <1>3, <1>4, <1>6, <1>7, MemoryCallKeeps

\* The next memory of a list, or, at the end of the list, its surplus.
LEMMA NextMemoryStep == ASSUME MemoryInv, NEW a \in MemoryActor, NextMemory(a) PROVE MemoryInv'
<1> DEFINE k == memoryCall[a]
           items == FoundBy(k)
<1>1. /\ k.step = "next" /\ UNCHANGED <<memories, memoryIndex, memoryCache, storing, hour>>
    BY DEF NextMemory, MemoryAt
<1>2. /\ k \in MemoryCallType /\ MemoryCallFits(a, k, storing) /\ k # NoMemoryCall /\ k.op # "none"
    BY <1>1, MemoryCallFacts, NoMemoryCallFits DEF MemoryCallFits
<1>3. /\ memoryCache \in [Item -> CachedMemory \cup {Out}] /\ IsFiniteSet(Begun(storing))
      /\ memoryIndex \subseteq Item
    BY DEF MemoryInv, MemoryTypeOK, IndexBacked, Listed
<1>4. /\ Visiting(k) = {} /\ k.todo \subseteq Listed(storing) /\ items \subseteq Listed(storing)
      /\ Listed(storing) \subseteq Begun(storing) /\ Begun(storing) \subseteq Item
      /\ IsFiniteSet(items) /\ items \subseteq Item
  <2>1. Visiting(k) = {}
      BY <1>1 DEF Visiting
  <2>2. k.todo \subseteq Listed(storing) /\ items \subseteq Listed(storing)
      BY <1>2 DEF MemoryCallFits
  <2>3. Listed(storing) \subseteq Begun(storing) /\ Begun(storing) \subseteq Item
      BY DEF Listed, Begun
  <2>4. IsFiniteSet(items)
      BY <1>3, <2>2, <2>3, FS_Subset
  <2> QED BY <2>1, <2>2, <2>3, <2>4
<1>5. ASSUME NEW l \in MemoryCallType, MemoryCallFits(a, l, storing), memoryCall' = [memoryCall EXCEPT ![a] = l],
             \A J \in SUBSET memoryIndex : Cardinality(J) > Window /\ TakesOneOf(k, J) => TakesOneOf(l, J)
      PROVE  MemoryInv'
    BY <1>1, <1>3, <1>5, MemoryCallKeeps
<1>6. ASSUME NEW m \in k.todo, k.op \in {"evict", "decay", "purge"},
             memoryCall' = [memoryCall EXCEPT ![a] = Visit(k, m)]
      PROVE  MemoryInv'
  <2> DEFINE l == Visit(k, m)
  <2>1. m \in Item /\ m \in Listed(storing)
      BY <1>4
  <2>2. /\ l \in MemoryCallType /\ l.op = k.op /\ l.at = m /\ l.todo = k.todo \ {m} /\ l.found = k.found
        /\ l.step = "lookup"
      BY <1>2, <2>1 DEF MemoryCallType, Visit
  <2>3. memoryCall' = [memoryCall EXCEPT ![a] = l]
      BY <1>6
  <2> HIDE DEF l
  <2>4. Visiting(l) = {m} /\ FoundBy(l) = items
      BY <2>2 DEF Visiting, FoundBy
  <2>5. MemoryCallFits(a, l, storing)
      BY <1>2, <1>4, <1>6, <2>1, <2>2, <2>4 DEF MemoryCallFits
  <2>6. \A J : TakesOneOf(k, J) => TakesOneOf(l, J)
      BY <1>1, <1>4, <2>2, <2>4 DEF TakesOneOf
  <2> QED BY <1>5, <2>2, <2>3, <2>5, <2>6
<1>7. ASSUME NEW m \in k.todo, k.op = "fade", memoryCall' = [memoryCall EXCEPT ![a] = Fade(k, m)]
      PROVE  MemoryInv'
  <2> DEFINE r == (CHOOSE f \in k.found : f.item = m).copy
             touching == [k EXCEPT !.step = "touch", !.at = m, !.copy = r, !.todo = k.todo \ {m}]
             passing == [k EXCEPT !.todo = k.todo \ {m}]
  <2>1. Fade(k, m) = touching \/ Fade(k, m) = passing
      BY DEF Fade
  <2>2. m \in Item /\ m \in Listed(storing)
      BY <1>4
  <2>3. r \in MemoryRecord
    <3>1. m \in items
        BY <1>2, <1>7 DEF MemoryCallFits
    <3>2. \E f \in k.found : f.item = m
        BY <3>1 DEF FoundBy
    <3>3. (CHOOSE f \in k.found : f.item = m) \in k.found
        BY <3>2
    <3>4. k.found \subseteq [item : Item, copy : MemoryRecord]
        BY <1>2 DEF MemoryCallType
    <3> QED BY <3>3, <3>4
  <2> HIDE DEF r
  <2>4. \A J : ~TakesOneOf(k, J)
      BY <1>1, <1>7 DEF TakesOneOf
  <2>5. CASE Fade(k, m) = touching
    <3>1. /\ touching \in MemoryCallType /\ touching.op = k.op /\ touching.at = m /\ touching.copy = r
          /\ touching.todo = k.todo \ {m} /\ touching.found = k.found /\ touching.step = "touch"
        BY <1>2, <2>2, <2>3 DEF MemoryCallType
    <3>2. memoryCall' = [memoryCall EXCEPT ![a] = touching]
        BY <1>7, <2>5
    <3> HIDE DEF touching
    <3>3. Visiting(touching) = {m} /\ FoundBy(touching) = items
        BY <3>1 DEF Visiting, FoundBy
    <3>4. MemoryCallFits(a, touching, storing)
        BY <1>2, <1>4, <1>7, <2>2, <2>3, <3>1, <3>3 DEF MemoryCallFits
    <3> QED BY <1>5, <2>4, <3>1, <3>2, <3>4
  <2>6. CASE Fade(k, m) = passing
    <3>1. /\ passing \in MemoryCallType /\ passing.op = k.op /\ passing.todo = k.todo \ {m}
          /\ passing.found = k.found /\ passing.step = "next"
        BY <1>1, <1>2 DEF MemoryCallType
    <3>2. memoryCall' = [memoryCall EXCEPT ![a] = passing]
        BY <1>7, <2>6
    <3> HIDE DEF passing
    <3>3. Visiting(passing) = {} /\ FoundBy(passing) = items
        BY <3>1 DEF Visiting, FoundBy
    <3>4. MemoryCallFits(a, passing, storing)
        BY <1>2, <1>4, <1>7, <3>1, <3>3 DEF MemoryCallFits
    <3> QED BY <1>5, <2>4, <3>1, <3>2, <3>4
  <2> QED BY <2>1, <2>5, <2>6
<1>8. CASE k.todo = {} /\ k.op = "evict" /\ Surplus(items) # {}
           /\ memoryCall' = [memoryCall EXCEPT ![a] = [k EXCEPT !.op = "purge", !.todo = Surplus(items), !.found = {}]]
  <2> DEFINE l == [k EXCEPT !.op = "purge", !.todo = Surplus(items), !.found = {}]
  <2>1. Surplus(items) \subseteq items
      BY DEF Surplus
  <2>2. /\ l \in MemoryCallType /\ l.op = "purge" /\ l.todo = Surplus(items) /\ l.found = {} /\ l.step = "next"
      BY <1>1, <1>2, <1>4, <2>1 DEF MemoryCallType
  <2>3. memoryCall' = [memoryCall EXCEPT ![a] = l]
      BY <1>8
  <2> HIDE DEF l
  <2>4. Visiting(l) = {} /\ FoundBy(l) = {}
      BY <2>2 DEF Visiting, FoundBy
  <2>5. \A m \in Surplus(items) : Overtaken(m, storing)
    <3>1. items \in SUBSET Begun(storing)
        BY <1>4
    <3> QED BY <1>3, <3>1, SurplusOvertaken
  <2>6. MemoryCallFits(a, l, storing)
      BY <1>2, <1>4, <2>1, <2>2, <2>4, <2>5 DEF MemoryCallFits
  <2>7. ASSUME NEW J \in SUBSET memoryIndex, Cardinality(J) > Window, TakesOneOf(k, J)
        PROVE  TakesOneOf(l, J)
    <3>1. J \subseteq items
        BY <1>1, <1>4, <1>8, <2>7 DEF TakesOneOf
    <3>2. Surplus(items) \cap J # {}
        BY <1>4, <2>7, <3>1, SurplusMeets
    <3> QED BY <2>2, <2>4, <3>2 DEF TakesOneOf
  <2> QED BY <1>5, <2>2, <2>3, <2>6, <2>7
<1>9. CASE k.todo = {} /\ k.op = "decay"
           /\ memoryCall' = [memoryCall EXCEPT ![a] = [k EXCEPT !.op = "fade", !.todo = items]]
  <2> DEFINE l == [k EXCEPT !.op = "fade", !.todo = items]
  <2>1. /\ l \in MemoryCallType /\ l.op = "fade" /\ l.todo = items /\ l.found = k.found /\ l.step = "next"
      BY <1>1, <1>2, <1>4 DEF MemoryCallType
  <2>2. memoryCall' = [memoryCall EXCEPT ![a] = l]
      BY <1>9
  <2> HIDE DEF l
  <2>3. Visiting(l) = {} /\ FoundBy(l) = items
      BY <2>1 DEF Visiting, FoundBy
  <2>4. MemoryCallFits(a, l, storing)
      BY <1>2, <1>4, <2>1, <2>3 DEF MemoryCallFits
  <2>5. \A J : ~TakesOneOf(k, J)
      BY <1>1, <1>9 DEF TakesOneOf
  <2> QED BY <1>5, <2>1, <2>2, <2>4, <2>5
<1>10. CASE k.todo = {} /\ ~(k.op = "evict" /\ Surplus(items) # {})
            /\ memoryCall' = [memoryCall EXCEPT ![a] = NoMemoryCall]
  <2>1. ASSUME NEW J \in SUBSET memoryIndex, Cardinality(J) > Window, TakesOneOf(k, J) PROVE FALSE
    <3>1. k.op = "evict" /\ J \subseteq items
        BY <1>1, <1>4, <1>10, <2>1 DEF TakesOneOf
    <3>2. Surplus(items) \cap J # {}
        BY <1>4, <2>1, <3>1, SurplusMeets
    <3> QED BY <1>10, <3>1, <3>2
  <2> QED BY <1>1, <1>3, <1>10, <2>1, MemoryCallEnds
<1>11. \/ k.op \in {"evict", "decay"} /\ \E m \in k.todo : memoryCall' = [memoryCall EXCEPT ![a] = Visit(k, m)]
       \/ k.op = "purge" /\ \E m \in k.todo : memoryCall' = [memoryCall EXCEPT ![a] = Visit(k, m)]
       \/ k.op = "fade" /\ \E m \in k.todo : memoryCall' = [memoryCall EXCEPT ![a] = Fade(k, m)]
       \/ /\ k.todo = {}
          /\ memoryCall' = [memoryCall EXCEPT ![a] =
                IF k.op = "evict" /\ Surplus(items) # {}
                THEN [k EXCEPT !.op = "purge", !.todo = Surplus(items), !.found = {}]
                ELSE IF k.op = "decay" /\ items # {} THEN [k EXCEPT !.op = "fade", !.todo = items]
                ELSE NoMemoryCall]
    BY DEF NextMemory, Newest, FoundBy
<1> HIDE DEF k, items
<1> QED BY <1>6, <1>7, <1>8, <1>9, <1>10, <1>11

\* StoreShortTerm goes on with a memory: the calls stand as they did.
LEMMA StagesKeepFits ==
    ASSUME MemoryInv, IsFiniteSet(Begun(storing')), Begun(storing) \subseteq Begun(storing'),
           Listed(storing) \subseteq Listed(storing'),
           \A m \in Item : storing'[m] # "done" => storing[m] # "done",
           NEW b \in MemoryActor, NEW k, MemoryCallFits(b, k, storing)
    PROVE  MemoryCallFits(b, k, storing')
<1>1. k.op = "purge" => \A m \in k.todo \cup Visiting(k) : Overtaken(m, storing')
  <2> SUFFICES ASSUME k.op = "purge", NEW m \in k.todo \cup Visiting(k) PROVE Overtaken(m, storing')
      OBVIOUS
  <2>1. Overtaken(m, storing) /\ m \in Item
      BY DEF MemoryCallFits, Listed
  <2> QED BY <2>1, OvertakenStays
<1> QED BY <1>1 DEF MemoryCallFits

\* StoreShortTerm: the record, the index entry, the cache and the eviction.
LEMMA StoreMemoryStep ==
    ASSUME MemoryInv, NEW m \in Item, StoreMemory(m) \/ IndexMemory(m) \/ CacheMemory(m)
    PROVE  MemoryInv'
<1>1. /\ storing \in [Item -> {"new", "stored", "indexed", "done"}]
      /\ memories \in [Item -> MemoryRecord \cup {NoItem}]
      /\ memoryCache \in [Item -> CachedMemory \cup {Out}]
      /\ memoryCall \in [MemoryActor -> MemoryCallType]
      /\ hour \in 0..MaxHour /\ IsFiniteSet(Begun(storing)) /\ m \in MemoryActor
    BY DEF MemoryInv, MemoryTypeOK, MemoryActor
<1>2. Fresh \in MemoryRecord /\ Fresh # NoItem
  <2>1. Fresh \in MemoryRecord
      BY <1>1 DEF Fresh, MemoryRecord
  <2> QED BY <2>1, NoItemAssumption
<1>3. PICK stage \in {"stored", "indexed", "done"} :
         /\ storing' = [storing EXCEPT ![m] = stage] /\ storing[m] # "done" /\ hour' = hour
         /\ storing[m] = IF stage = "stored" THEN "new" ELSE IF stage = "indexed" THEN "stored" ELSE "indexed"
    BY DEF StoreMemory, IndexMemory, CacheMemory
<1>4. /\ storing' \in [Item -> {"new", "stored", "indexed", "done"}] /\ storing'[m] = stage
      /\ \A n \in Item \ {m} : storing'[n] = storing[n]
    BY <1>1, <1>3
<1>5. Begun(storing') = Begun(storing) \cup {m} /\ Listed(storing) \subseteq Listed(storing')
    BY <1>3, <1>4 DEF Begun, Listed
<1>6. IsFiniteSet(Begun(storing')) /\ Begun(storing) \subseteq Begun(storing')
    BY <1>1, <1>5, FS_AddElement
<1>7. \A n \in Item : storing'[n] # "done" => storing[n] # "done"
    BY <1>3, <1>4
<1>8. ASSUME NEW b \in MemoryActor PROVE MemoryCallFits(b, memoryCall[b], storing')
    BY <1>5, <1>6, <1>7, StagesKeepFits DEF MemoryInv, MemoryCallsFit
<1>9. memoryCall[m] = NoMemoryCall
    BY <1>1, <1>3 DEF MemoryInv, MemoryCallsFit, MemoryCallFits
<1>10. CASE StoreMemory(m)
  <2>1. /\ memories' = [memories EXCEPT ![m] = Fresh] /\ UNCHANGED <<memoryIndex, memoryCache, memoryCall>>
        /\ stage = "stored" /\ storing[m] = "new"
      BY <1>1, <1>4, <1>10 DEF StoreMemory
  <2>2. /\ memories' \in [Item -> MemoryRecord \cup {NoItem}] /\ memories'[m] # NoItem
        /\ \A n \in Item \ {m} : memories'[n] = memories[n]
      BY <1>1, <1>2, <2>1
  <2>3. MemoryTypeOK'
      BY <1>1, <1>3, <1>4, <1>6, <2>1, <2>2 DEF MemoryTypeOK
  <2>4. MemoryCallsFit'
      BY <1>8, <2>1 DEF MemoryCallsFit
  <2>5. IndexBacked'
    <3>1. memoryIndex' \subseteq Listed(storing') /\ memoryIndex' \subseteq Item
        BY <1>5, <2>1 DEF MemoryInv, IndexBacked, Listed
    <3>2. \A n \in Item : storing'[n] = "stored" => memories'[n] # NoItem
        BY <1>4, <2>2 DEF MemoryInv, IndexBacked
    <3>3. ASSUME NEW n \in memoryIndex', memories'[n] = NoItem
          PROVE  \E b \in MemoryActor : memoryCall'[b].step = "unindex" /\ memoryCall'[b].at = n
      <4>1. memories[n] = NoItem /\ n \in memoryIndex
          BY <2>1, <2>2, <3>1, <3>3
      <4> QED BY <2>1, <4>1 DEF MemoryInv, IndexBacked
    <3> QED BY <3>1, <3>2, <3>3 DEF IndexBacked
  <2>6. WindowRestored'
    <3>1. \A n \in Item : storing[n] = "indexed" => storing'[n] = "indexed"
        BY <1>4, <2>1
    <3> QED BY <2>1, <3>1 DEF MemoryInv, WindowRestored
  <2> QED BY <2>3, <2>4, <2>5, <2>6 DEF MemoryInv
<1>11. CASE IndexMemory(m)
  <2>1. /\ memoryIndex' = memoryIndex \cup {m} /\ UNCHANGED <<memories, memoryCache, memoryCall>>
        /\ stage = "indexed" /\ storing[m] = "stored"
      BY <1>1, <1>4, <1>11 DEF IndexMemory
  <2>2. MemoryTypeOK'
      BY <1>1, <1>3, <1>4, <1>6, <2>1 DEF MemoryTypeOK
  <2>3. MemoryCallsFit'
      BY <1>8, <2>1 DEF MemoryCallsFit
  <2>4. IndexBacked'
    <3>1. memoryIndex' \subseteq Listed(storing')
        BY <1>4, <1>5, <2>1 DEF MemoryInv, IndexBacked, Listed
    <3>2. \A n \in Item : storing'[n] = "stored" => memories'[n] # NoItem
        BY <1>4, <2>1 DEF MemoryInv, IndexBacked
    <3>3. memories[m] # NoItem
        BY <2>1 DEF MemoryInv, IndexBacked
    <3> QED BY <2>1, <3>1, <3>2, <3>3 DEF MemoryInv, IndexBacked
  <2>5. WindowRestored'
      BY <1>4, <2>1 DEF WindowRestored
  <2> QED BY <2>2, <2>3, <2>4, <2>5 DEF MemoryInv
<1>12. CASE CacheMemory(m)
  <2> DEFINE k == MemoryCall("evict", "scan", NoItem)
  <2>1. /\ memoryCache' = CachePut(memoryCache, m, Fresh) /\ UNCHANGED <<memories, memoryIndex>>
        /\ memoryCall' = [memoryCall EXCEPT ![m] = k] /\ stage = "done" /\ storing[m] = "indexed"
      BY <1>1, <1>4, <1>12, MemoryBounds DEF CacheMemory, Evicts
  <2>2. memoryCache' \in [Item -> CachedMemory \cup {Out}]
      BY <1>1, <1>2, <2>1, MemoryCacheTyped
  <2>3. k.op = "evict" /\ k.step = "scan" /\ k.todo = {} /\ k.found = {}
      BY DEF MemoryCall, NoMemoryCall
  <2>4. k \in MemoryCallType
      BY <1>1 DEF MemoryCall, NoMemoryCall, MemoryCallType
  <2> HIDE DEF k
  <2>5. k.op = "evict" /\ k.step = "scan" /\ k.todo = {} /\ FoundBy(k) = {} /\ Visiting(k) = {}
      BY <2>3 DEF FoundBy, Visiting
  <2>6. MemoryCallFits(m, k, storing')
      BY <1>4, <2>1, <2>5 DEF MemoryCallFits
  <2>7. memoryCall'[m] = k /\ \A b \in MemoryActor \ {m} : memoryCall'[b] = memoryCall[b]
      BY <1>1, <2>1
  <2>8. MemoryTypeOK'
    <3>1. memoryCall' \in [MemoryActor -> MemoryCallType]
        BY <1>1, <2>1, <2>4
    <3> QED BY <1>1, <1>3, <1>4, <1>6, <2>1, <2>2, <3>1 DEF MemoryTypeOK
  <2>9. MemoryCallsFit'
      BY <1>8, <2>6, <2>7 DEF MemoryCallsFit
  <2>10. IndexBacked'
    <3>1. memoryIndex' \subseteq Listed(storing')
        BY <1>5, <2>1 DEF MemoryInv, IndexBacked
    <3>2. \A n \in Item : storing'[n] = "stored" => memories'[n] # NoItem
        BY <1>4, <2>1 DEF MemoryInv, IndexBacked
    <3>3. ASSUME NEW n \in memoryIndex', memories'[n] = NoItem
          PROVE  \E b \in MemoryActor : memoryCall'[b].step = "unindex" /\ memoryCall'[b].at = n
      <4>1. PICK b \in MemoryActor : memoryCall[b].step = "unindex" /\ memoryCall[b].at = n
          BY <2>1, <3>3 DEF MemoryInv, IndexBacked
      <4>2. b # m
          BY <1>9, <4>1, NoMemoryCallFits
      <4> QED BY <2>7, <4>1, <4>2
    <3> QED BY <3>1, <3>2, <3>3 DEF IndexBacked
  <2>11. WindowRestored'
    <3>1. TakesOneOf(k, {}) /\ \A J : TakesOneOf(k, J)
        BY <2>5 DEF TakesOneOf
    <3> QED BY <1>1, <2>7, <3>1 DEF WindowRestored
  <2> QED BY <2>8, <2>9, <2>10, <2>11 DEF MemoryInv
<1> QED BY <1>10, <1>11, <1>12

\* Whatever is stored, read, deleted and decays meanwhile: the calls hold on to memories that
\* were indexed, index entries have records, and somebody sees to every surplus.
THEOREM MemoryHolds == MemorySpec => []MemoryInv
<1>1. MemoryInit => MemoryInv
  <2> SUFFICES ASSUME MemoryInit PROVE MemoryInv
      OBVIOUS
  <2>1. Begun(storing) = {} /\ IsFiniteSet(Begun(storing))
      BY FS_EmptySet DEF MemoryInit, Begun
  <2>2. MemoryTypeOK
    <3>1. memoryCache \in [Item -> CachedMemory \cup {Out}]
        BY DEF MemoryInit, EmptyCache
    <3>2. memoryCall \in [MemoryActor -> MemoryCallType]
        BY NoMemoryCallFits DEF MemoryInit
    <3>3. hour \in 0..MaxHour
        BY MemoryBounds DEF MemoryInit
    <3> QED BY <2>1, <3>1, <3>2, <3>3 DEF MemoryInit, MemoryTypeOK
  <2>3. MemoryCallsFit
    <3> SUFFICES ASSUME NEW a \in MemoryActor PROVE MemoryCallFits(a, memoryCall[a], storing)
        BY DEF MemoryCallsFit
    <3>1. memoryCall[a] = NoMemoryCall
        BY DEF MemoryInit
    <3> QED BY <3>1, NoMemoryCallFits
  <2>4. IndexBacked
      BY DEF MemoryInit, IndexBacked
  <2>5. WindowRestored
    <3> SUFFICES ASSUME NEW J \in SUBSET memoryIndex, Cardinality(J) > Window PROVE FALSE
        BY DEF WindowRestored
    <3>1. J = {}
        BY DEF MemoryInit
    <3> QED BY <3>1, FS_EmptySet, MemoryBounds
  <2> QED BY <2>2, <2>3, <2>4, <2>5 DEF MemoryInv
<1>2. MemoryInv /\ [MemoryNext]_memoryVars => MemoryInv'
  <2> SUFFICES ASSUME MemoryInv, [MemoryNext]_memoryVars PROVE MemoryInv'
      OBVIOUS
  <2>1. ASSUME NEW m \in Item, StoreMemory(m) \/ IndexMemory(m) \/ CacheMemory(m) PROVE MemoryInv'
      BY <2>1, StoreMemoryStep
  <2>2. ASSUME NEW c \in MemoryClient, NEW m \in Item, NEW op \in {"get", "access", "delete"},
               StartMemoryCall(c, op, m)
        PROVE  MemoryInv'
    <3>1. c \in MemoryActor \ Item /\ m \in Listed(storing)
        BY <2>2, ItemAssumption DEF MemoryActor, StartMemoryCall, Listed
    <3> QED BY <2>2, <3>1, MemoryCallBegins DEF StartMemoryCall
  <2>3. CASE StartDecay
    <3>1. Decayer \in MemoryActor \ Item
        BY ItemAssumption DEF MemoryActor
    <3> QED BY <2>3, <3>1, MemoryCallBegins DEF StartDecay
  <2>4. ASSUME NEW a \in MemoryActor, MemoryAccess(a) PROVE MemoryInv'
      BY <2>4, MemoryGetStep, TouchStep, RecacheStep, DeleteStep, ScanStep, NextMemoryStep DEF MemoryAccess
  <2>5. CASE HourPasses
    <3>1. /\ UNCHANGED <<memories, memoryIndex, memoryCache, storing, memoryCall>>
          /\ hour' = hour + 1 /\ hour < MaxHour
        BY <2>5 DEF HourPasses
    <3>2. hour' \in 0..MaxHour
        BY <3>1, MemoryBounds DEF MemoryInv, MemoryTypeOK
    <3> QED BY <3>1, <3>2 DEF MemoryInv, MemoryTypeOK, MemoryCallsFit, IndexBacked, WindowRestored
  <2>6. CASE UNCHANGED memoryVars
      BY <2>6 DEF memoryVars, MemoryInv, MemoryTypeOK, MemoryCallsFit, IndexBacked, WindowRestored
  <2> QED BY <2>1, <2>2, <2>3, <2>4, <2>5, <2>6 DEF MemoryNext
<1> QED BY <1>1, <1>2, PTL DEF MemorySpec

\* evictShortTerm: once all stores and evictions are through, the session lists no more
\* memories than its window holds, and each it lists is stored.
THEOREM WindowHolds == MemorySpec => []WindowKept
<1>1. MemoryInv => WindowKept
  <2> SUFFICES ASSUME MemoryInv, Quiet
               PROVE  Cardinality(memoryIndex) <= Window /\ \A m \in memoryIndex : memories[m] # NoItem
      BY DEF WindowKept
  <2>1. \A a \in MemoryActor : memoryCall[a].step = "idle" /\ \A J : ~TakesOneOf(memoryCall[a], J)
      BY NoMemoryCallFits DEF Quiet
  <2>2. \A m \in memoryIndex : memories[m] # NoItem
      BY <2>1 DEF MemoryInv, IndexBacked
  <2>3. \A m \in Item : storing[m] # "indexed"
      BY DEF Quiet, AllStored
  <2>4. ~(Cardinality(memoryIndex) > Window)
      BY <2>1, <2>3 DEF MemoryInv, WindowRestored
  <2>5. IsFiniteSet(memoryIndex)
    <3>1. memoryIndex \in SUBSET Begun(storing)
        BY DEF MemoryInv, IndexBacked, Listed, Begun
    <3> QED BY <3>1, FS_Subset DEF MemoryInv, MemoryTypeOK
  <2>6. Cardinality(memoryIndex) \in Nat /\ Window \in Nat
      BY <2>5, FS_CardinalityType, MemoryBounds
  <2> QED BY <2>2, <2>4, <2>6
<1> QED BY <1>1, MemoryHolds, PTL

\* A memory goes because a client deletes it, or because as many newer ones as the window holds
\* were stored: evictions that overlap mislead none into deleting more.
THEOREM EvictsOnlySurplus == MemorySpec => OnlySurplusEvicted
<1> DEFINE Due == \A m \in Item : memories[m] # NoItem /\ memories'[m] = NoItem =>
                      \/ \E c \in MemoryClient : memoryCall[c].op = "delete" /\ memoryCall[c].at = m
                      \/ Cardinality({n \in Item : n > m /\ storing[n] # "new"}) >= Window
<1>1. MemoryInv /\ [MemoryNext]_memoryVars => [Due]_memories
  <2> SUFFICES ASSUME MemoryInv, [MemoryNext]_memoryVars, NEW m \in Item,
                      memories[m] # NoItem, memories'[m] = NoItem
               PROVE  \/ \E c \in MemoryClient : memoryCall[c].op = "delete" /\ memoryCall[c].at = m
                      \/ Overtaken(m, storing)
      BY DEF Overtaken
  <2>1. memories \in [Item -> MemoryRecord \cup {NoItem}] /\ hour \in 0..MaxHour
      BY DEF MemoryInv, MemoryTypeOK
  <2>2. ASSUME NEW a \in MemoryActor, DropMemory(a)
        PROVE  \/ \E c \in MemoryClient : memoryCall[c].op = "delete" /\ memoryCall[c].at = m
               \/ Overtaken(m, storing)
    <3> DEFINE k == memoryCall[a]
    <3>1. k.step = "drop" /\ memories' = [memories EXCEPT ![k.at] = NoItem]
        BY <2>2 DEF DropMemory, MemoryAt
    <3>2. k.at = m
        BY <2>1, <3>1
    <3>3. MemoryCallFits(a, k, storing) /\ Visiting(k) = {m}
        BY <3>1, <3>2, MemoryCallFacts DEF Visiting
    <3> HIDE DEF k
    <3>4. (k.op = "delete" /\ a \in MemoryClient) \/ (k.op = "purge" /\ Overtaken(m, storing))
      <4>1. k.op \in {"delete", "purge"} /\ (k.op = "delete" => a \in MemoryClient)
          BY <3>1, <3>3 DEF MemoryCallFits
      <4>2. k.op = "purge" => Overtaken(m, storing)
          BY <3>3 DEF MemoryCallFits
      <4> QED BY <4>1, <4>2
    <3> QED BY <3>2, <3>4 DEF k
  <2>3. ASSUME NEW a \in MemoryActor, TouchMemory(a) PROVE FALSE
    <3> DEFINE k == memoryCall[a]
               r == IF k.op = "fade" THEN Decayed(k) ELSE [k.copy EXCEPT !.accessed = hour]
    <3>1. k.step = "touch" /\ memories' = [memories EXCEPT ![k.at] = r]
        BY <2>3 DEF TouchMemory, MemoryAt
    <3>2. k.copy \in MemoryRecord /\ k.began \in 0..MaxHour
        BY <3>1, MemoryCallFacts DEF MemoryCallFits, MemoryCallType
    <3>3. r \in MemoryRecord
      <4>1. Decayed(k) \in MemoryRecord
          BY <3>2 DEF Decayed, MemoryRecord
      <4>2. [k.copy EXCEPT !.accessed = hour] \in MemoryRecord
          BY <2>1, <3>2 DEF MemoryRecord
      <4> QED BY <4>1, <4>2
    <3> HIDE DEF r
    <3>4. memories'[m] = memories[m] \/ memories'[m] = r
        BY <2>1, <3>1
    <3> QED BY <3>3, <3>4, NoItemAssumption
  <2>4. ASSUME NEW n \in Item, StoreMemory(n) PROVE FALSE
    <3>1. Fresh \in MemoryRecord /\ memories' = [memories EXCEPT ![n] = Fresh]
        BY <2>1, <2>4 DEF Fresh, MemoryRecord, StoreMemory
    <3>2. memories'[m] = memories[m] \/ memories'[m] = Fresh
        BY <2>1, <3>1
    <3> QED BY <3>1, <3>2, NoItemAssumption
  <2>5. memories' # memories
      OBVIOUS
  <2>6. \/ \E n \in Item : StoreMemory(n)
        \/ \E a \in MemoryActor : DropMemory(a) \/ TouchMemory(a)
      BY <2>5 DEF MemoryNext, memoryVars, IndexMemory, CacheMemory, StartMemoryCall, StartDecay, HourPasses,
                  MemoryAccess, LookupMemory, ReadMemory, FillMemory, RecacheMemory, UnlistMemory,
                  UncacheMemory, ScanMemories, NextMemory
  <2> QED BY <2>2, <2>3, <2>4, <2>6
<1> QED BY <1>1, MemoryHolds, PTL DEF MemorySpec, OnlySurplusEvicted

=============================================================================
