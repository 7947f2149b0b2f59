---------------------------- MODULE Coordinator ----------------------------
(***************************************************************************)
(* One room of the coordinator: internal/agent/coordinator.go.             *)
(*                                                                         *)
(* A room is an object in memory, found through c.rooms, and a record in   *)
(* the store, which every change writes under c.mu. After a restart the    *)
(* first calls load the room, each into an object of its own. Of a message *)
(* the model keeps that it was accepted.                                   *)
(***************************************************************************)
EXTENDS Integers, Sequences

CONSTANTS RoomAgent, RoomClient,
          RoomCreator,
          NoRoom,
          MaxRoomCrash    \* bound on restarts

ASSUME CreatorAssumption == RoomCreator \in RoomAgent
ASSUME NoRoomAssumption == \A members \in SUBSET RoomAgent : NoRoom # members
ASSUME RoomBound == MaxRoomCrash \in Nat

VARIABLES
    storedRoom,    \* the members in the stored record
    rooms,         \* the room objects of this process: sets of members
    known,         \* the number of the object in c.rooms, 0 for none
    roomCall,      \* what each client is doing
    member,        \* what the last finished call said of an agent's membership
    roomCrashes

roomVars == <<storedRoom, rooms, known, roomCall, member, roomCrashes>>

\* A call: the object it holds, the members it loaded, whether its reading of the member
\* list met a change of it.
NoRoomCall == [op |-> "none", agent |-> RoomCreator, step |-> "idle", object |-> 0, loaded |-> {},
               raced |-> FALSE]

RoomInit ==
    /\ storedRoom = NoRoom
    /\ rooms = << >>
    /\ known = 0
    /\ roomCall = [c \in RoomClient |-> NoRoomCall]
    /\ member = [a \in RoomAgent |-> "out"]
    /\ roomCrashes = 0

RoomAt(c, step) == roomCall[c].step = step

\* CreateRoom holds the lock throughout, and nobody knows the room's ID before it returns.
CreateRoom ==
    /\ storedRoom = NoRoom /\ roomCrashes = 0
    /\ storedRoom' = {RoomCreator}
    /\ rooms' = <<{RoomCreator}>>
    /\ known' = 1
    /\ member' = [member EXCEPT ![RoomCreator] = "in"]
    /\ UNCHANGED <<roomCall, roomCrashes>>

-----------------------------------------------------------------------------
(* GetRoom.                                                                *)

\* A join or a leave puts in doubt what the calls before it said of the agent.
CallRoom(c, op, a) ==
    /\ storedRoom # NoRoom /\ roomCall[c] = NoRoomCall
    /\ roomCall' = [roomCall EXCEPT ![c] = [NoRoomCall EXCEPT !.op = op, !.agent = a, !.step = "get"]]
    /\ member' = IF op = "send" THEN member ELSE [member EXCEPT ![a] = "unsure"]
    /\ UNCHANGED <<storedRoom, rooms, known, roomCrashes>>

\* Mutant: GetRoom reads the store every time.
AlwaysLoad == FALSE

InMemory == known # 0

WithRoom(k, object) == [k EXCEPT !.object = object, !.step = IF k.op = "send" THEN "look" ELSE "change"]

FindRoom(c) ==
    /\ RoomAt(c, "get")
    /\ roomCall' = [roomCall EXCEPT ![c] =
          IF InMemory THEN WithRoom(@, known) ELSE [@ EXCEPT !.step = "load"]]
    /\ UNCHANGED <<storedRoom, rooms, known, member, roomCrashes>>

LoadRoom(c) ==
    /\ RoomAt(c, "load")
    /\ roomCall' = [roomCall EXCEPT ![c] = [@ EXCEPT !.loaded = storedRoom, !.step = "install"]]
    /\ UNCHANGED <<storedRoom, rooms, known, member, roomCrashes>>

InstallRoom(c) ==
    /\ RoomAt(c, "install")
    /\ rooms' = Append(rooms, roomCall[c].loaded)
    /\ known' = Len(rooms) + 1
    /\ roomCall' = [roomCall EXCEPT ![c] = WithRoom(@, Len(rooms) + 1)]
    /\ UNCHANGED <<storedRoom, member, roomCrashes>>

-----------------------------------------------------------------------------
(* JoinRoom and LeaveRoom, under the lock.                                 *)

\* Mutant: a leave is not persisted.
SaveJoins(k, members) == IF k.op = "leave" THEN storedRoom ELSE members

RoomSaved(k, members) == members

\* Joining twice and leaving from outside are refused: nothing changes, but the answer
\* tells where the agent is. Calls that read this list meanwhile race with the change.
Change(c) ==
    LET k == roomCall[c]
        members == IF k.op = "join" THEN rooms[k.object] \cup {k.agent} ELSE rooms[k.object] \ {k.agent}
        changed == members # rooms[k.object]
    IN  /\ RoomAt(c, "change")
        /\ rooms' = [rooms EXCEPT ![k.object] = members]
        /\ storedRoom' = IF changed THEN RoomSaved(k, members) ELSE storedRoom
        /\ member' = [member EXCEPT ![k.agent] = IF k.op = "join" THEN "in" ELSE "out"]
        /\ roomCall' = [d \in RoomClient |->
              IF d = c THEN NoRoomCall
              ELSE [roomCall[d] EXCEPT !.raced = @ \/ (changed /\ RoomAt(d, "look") /\ roomCall[d].object = k.object)]]
        /\ UNCHANGED <<known, roomCrashes>>

-----------------------------------------------------------------------------
(* SendMessage.                                                            *)

\* HasMember reads the list without the lock. Beside a change of the list it may find or
\* miss anybody: LeaveRoom moves the members behind the one that goes, and a slice is
\* three words.
Finds(k) == IF k.raced THEN BOOLEAN ELSE {k.agent \in rooms[k.object]}

Look(c) ==
    /\ RoomAt(c, "look")
    /\ \E found \in Finds(roomCall[c]) :
          roomCall' = [roomCall EXCEPT ![c] = IF found THEN [@ EXCEPT !.step = "save", !.raced = FALSE]
                                              ELSE NoRoomCall]
    /\ UNCHANGED <<storedRoom, rooms, known, member, roomCrashes>>

\* After the message and its index entry, the room is saved: this call's object.
SaveRoom(c) ==
    /\ RoomAt(c, "save")
    /\ storedRoom' = rooms[roomCall[c].object]
    /\ roomCall' = [roomCall EXCEPT ![c] = NoRoomCall]
    /\ UNCHANGED <<rooms, known, member, roomCrashes>>

NoneKnown == 0

\* The process dies; NewCoordinator starts with an empty map.
RoomRestart ==
    /\ roomCrashes < MaxRoomCrash
    /\ roomCrashes' = roomCrashes + 1
    /\ rooms' = << >>
    /\ known' = NoneKnown
    /\ roomCall' = [c \in RoomClient |-> NoRoomCall]
    /\ UNCHANGED <<storedRoom, member>>

RoomAccess(c) == FindRoom(c) \/ LoadRoom(c) \/ InstallRoom(c) \/ Change(c) \/ Look(c) \/ SaveRoom(c)

RoomNext ==
    \/ CreateRoom
    \/ \E c \in RoomClient : \/ \E op \in {"join", "leave", "send"}, a \in RoomAgent : CallRoom(c, op, a)
                             \/ RoomAccess(c)
    \/ RoomRestart

RoomSpec == RoomInit /\ [][RoomNext]_roomVars

-----------------------------------------------------------------------------
\* Nobody begins a call on a room that a restart left on disk while another call loads it.
LoadedAlone == known = 0 => \A c, d \in RoomClient :
                   roomCall[c] # NoRoomCall /\ roomCall[d] # NoRoomCall => c = d

RoomSpecAlone == RoomInit /\ [][RoomNext /\ LoadedAlone']_roomVars

\* An agent that was told it is in the room is in it, in the object and on disk, until a
\* call says otherwise, and the same for one outside: whatever calls of others interleave
\* and whenever the process restarts. (Two first calls after a restart get two objects, and
\* the joins of one are lost; see LoadedAlone.)
MembershipKept ==
    storedRoom # NoRoom =>
        \A a \in RoomAgent :
            /\ member[a] = "in" => a \in storedRoom /\ (known # 0 => a \in rooms[known])
            /\ member[a] = "out" => a \notin storedRoom /\ (known # 0 => a \notin rooms[known])

\* SendMessage takes no message from an agent that was told it is outside and refuses none
\* from one that was told it is inside, unless a join or a leave changed the list under it.
SendersAreMembers ==
    [][\A c \in RoomClient :
          RoomAt(c, "look") /\ ~roomCall[c].raced /\ ~roomCall'[c].raced =>
              /\ roomCall'[c].step = "save" => member[roomCall[c].agent] # "out"
              /\ roomCall'[c].step = "idle" /\ UNCHANGED rooms => member[roomCall[c].agent] # "in"]_roomCall

-----------------------------------------------------------------------------
(* The inductive invariant behind both, of calls that load alone.          *)

\* A room is stored before it has calls, objects or members.
RoomTypeOK ==
    /\ storedRoom \in (SUBSET RoomAgent) \cup {NoRoom}
    /\ known \in {0, 1}
    /\ roomCall \in [RoomClient -> [op : {"none", "join", "leave", "send"}, agent : RoomAgent,
                                    step : {"idle", "get", "load", "install", "change", "look", "save"},
                                    object : {0, 1}, loaded : SUBSET RoomAgent, raced : BOOLEAN]]
    /\ member \in [RoomAgent -> {"in", "out", "unsure"}]

\* The process has one object of the room at most, which is what is stored.
OneObject ==
    /\ known = 0 => rooms = << >>
    /\ known = 1 => rooms = <<storedRoom>> /\ storedRoom # NoRoom

\* A call that has found its object has that one. A call that loads it is about to install
\* what is still stored.
CallsHoldRoom ==
    \A c \in RoomClient :
        /\ RoomAt(c, "idle") <=> roomCall[c] = NoRoomCall
        /\ ~RoomAt(c, "idle") => storedRoom # NoRoom
        /\ RoomAt(c, "change") \/ RoomAt(c, "look") \/ RoomAt(c, "save")
              => known = 1 /\ roomCall[c].object = 1
        /\ RoomAt(c, "load") \/ RoomAt(c, "install") => known = 0
        /\ RoomAt(c, "install") => roomCall[c].loaded = storedRoom

\* What calls were told is what is stored.
MembersTold ==
    \A a \in RoomAgent :
        /\ storedRoom = NoRoom => member[a] = "out"
        /\ storedRoom # NoRoom /\ member[a] = "in" => a \in storedRoom
        /\ storedRoom # NoRoom /\ member[a] = "out" => a \notin storedRoom

RoomInv == RoomTypeOK /\ OneObject /\ CallsHoldRoom /\ MembersTold /\ LoadedAlone
=============================================================================
