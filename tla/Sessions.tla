------------------------------ MODULE Sessions ------------------------------
(***************************************************************************)
(* Sessions: internal/agent/{session,session_enhanced}.go, over the cache  *)
(* of internal/storage/cache.go.                                           *)
(*                                                                         *)
(* The manager takes no lock: a call is a sequence of accesses to the      *)
(* store and to the cache, each a step of its own, and calls of different  *)
(* clients interleave, at the same sessions too. The clean-up goroutine    *)
(* is one more client. Of a session the model keeps the state and when it  *)
(* was updated. History variables note which calls crossed, and how.       *)
(***************************************************************************)
EXTENDS LRUCache, FiniteSets

CONSTANTS Session, SessionClient,
          Owner,            \* Owner[s]: the agent the session belongs to
          Cleaner,          \* the clean-up goroutine
          Quota,            \* MaxSessionsPerAgent, 0 for no limit
          NoSession,
          MaxNow,           \* bound on the clock; a tick is longer than Timeout
          MaxSessionCrash   \* bound on crashes

SessionState == {"active", "paused", "completed", "failed"}
SessionRecord == [state : SessionState, stamp : 0..MaxNow]
SessionActor == SessionClient \cup {Cleaner}

ASSUME CleanerAssumption == Cleaner \notin SessionClient
ASSUME NoSessionAssumption == NoSession \notin Session /\ NoSession \notin SessionRecord
ASSUME OutAssumption == Out \notin [value : SessionRecord, rank : Nat]
ASSUME SessionBounds == Quota \in Nat /\ MaxNow \in Nat /\ MaxSessionCrash \in Nat

VARIABLES
    sessions,      \* the stored records
    sessionIndex,         \* the sessions in the agent index
    sessionCache,
    sessionCall,          \* what each client is doing
    made,          \* the sessions that were ever stored
    now,
    torn,          \* history: sessions that may have a record or an index entry alone
    crossed,       \* history: sessions the cache may be wrong about with nobody at work on them
    outrun,        \* history: who will act on what is so no more
    sessionCrashes

crossVars == <<torn, crossed, outrun>>
sessionVars == <<sessions, sessionIndex, sessionCache, sessionCall, made, now, crossVars, sessionCrashes>>

\* A call: what it does to which session, the next step, the session Get is at
\* (another one than the target while sessions are listed), and its locals.
SessionCall(op, target, to, step) ==
    [op |-> op, target |-> target, to |-> to, step |-> step, at |-> target,
     copy |-> NoSession, todo |-> {}, count |-> 0]

NoSessionCall == SessionCall("none", NoSession, "active", "idle")

SessionInit ==
    /\ sessions = [s \in Session |-> NoSession]
    /\ sessionIndex = {}
    /\ sessionCache = EmptyCache(Session)
    /\ sessionCall = [c \in SessionActor |-> NoSessionCall]
    /\ made = {}
    /\ now = 0
    /\ torn = {} /\ crossed = {} /\ outrun = {}
    /\ sessionCrashes = 0

-----------------------------------------------------------------------------
\* Mutant: a paused session does not count.
ActiveOnly(r) == r.state = "active"

Open(r) == r.state \in {"active", "paused"}

\* Mutant: a completed session may be retried like a failed one.
RetryAny(from, to) == from # to /\ (from = "paused" => to # "completed")

\* Mutant: a paused session cannot fail.
PausedNeverFails(from, to) ==
    <<from, to>> \in {<<"active", "paused">>, <<"active", "completed">>, <<"active", "failed">>,
                      <<"paused", "active">>, <<"failed", "active">>}

\* canTransition over validTransitions.
CanTransition(from, to) ==
    <<from, to>> \in {<<"active", "paused">>, <<"active", "completed">>, <<"active", "failed">>,
                      <<"paused", "active">>, <<"paused", "failed">>, <<"failed", "active">>}

\* A call that is over; the clean-up goroutine goes on with its list.
EndCall(k) == IF k.op = "clean" THEN [k EXCEPT !.step = "next", !.copy = NoSession] ELSE NoSessionCall

WriteBack(k, r) == [k EXCEPT !.step = "write", !.copy = r]

\* What a call does with the session its Get returned, up to its next access.
AfterGet(k, r) ==
    CASE k.op = "get" -> NoSessionCall
      [] k.op \in {"list", "create"} ->
            [k EXCEPT !.step = "next", !.copy = NoSession, !.count = IF Open(r) THEN @ + 1 ELSE @]
      [] k.op = "delete" -> [k EXCEPT !.step = "drop", !.copy = NoSession]
      [] k.op = "beat" -> WriteBack(k, [r EXCEPT !.stamp = now])
      [] k.op = "set" -> WriteBack(k, [r EXCEPT !.state = k.to])
      [] k.op \in {"move", "clean"} ->
            IF CanTransition(r.state, k.to) THEN WriteBack(k, [state |-> k.to, stamp |-> now])
            ELSE EndCall(k)

-----------------------------------------------------------------------------
(* Calls that cross.                                                       *)

AtStep(c, step) == sessionCall[c].step = step

\* A call is about to put a copy of s into the cache; it is between its change of the record
\* of s and the cache; it is between the record and the index.
Caching(c, s) == sessionCall[c].at = s /\ sessionCall[c].step \in {"fill", "index", "recache"}
Recaching(c, s) == sessionCall[c].at = s /\ sessionCall[c].step \in {"index", "recache", "unindex", "uncache"}
Relisting(c, s) == sessionCall[c].at = s /\ sessionCall[c].step \in {"index", "unindex"}

\* The cached copy of s may differ from the record.
Behind(s) == s \in crossed \/ \E d \in SessionActor : Recaching(d, s)

\* Heartbeat, TransitionState and the clean-up judge the session they hold; Create judges the
\* agent's sessions until it stores its own.
Judges(k) == k.op \in {"beat", "move", "clean"} /\ k.step \in {"fill", "write"}
Counts(k) == k.op = "create" /\ k.step \in {"next", "lookup", "read", "fill", "record"}

SameState(r, q) == r # NoSession /\ q # NoSession /\ r.state = q.state
IsOpen(r) == r # NoSession /\ Open(r)

\* What call k goes by is so no more when the record of s becomes r.
Outruns(k, s, r) ==
    \/ Judges(k) /\ k.at = s /\ ~SameState(sessions[s], r)
    \/ Counts(k) /\ Owner[k.target] = Owner[s] /\ IsOpen(r) /\ ~IsOpen(sessions[s])

\* The call of c changes the record of s. Copies of the old one that are about to be cached
\* make the cache wrong; with none of them about, c will set the cache right.
ChangeRecord(c, s, r) ==
    /\ sessions' = [sessions EXCEPT ![s] = r]
    /\ crossed' = IF \E d \in SessionActor \ {c} : Caching(d, s) THEN crossed \cup {s} ELSE crossed \ {s}
    /\ outrun' = (outrun \ {c}) \cup {d \in SessionActor \ {c} : Outruns(sessionCall[d], s, r)}

\* Client c goes on with call k.
Onward(c, k) == IF Judges(k) \/ Counts(k) THEN outrun ELSE outrun \ {c}

-----------------------------------------------------------------------------
(* The beginnings of calls.                                                *)

BeginCall(c, k) ==
    /\ sessionCall[c] = NoSessionCall
    /\ sessionCall' = [sessionCall EXCEPT ![c] = k]
    /\ UNCHANGED <<sessions, sessionIndex, sessionCache, made, now, torn, crossed, sessionCrashes>>

\* ListByAgent scans the index; its Gets follow.
AgentSessions(agent) == {s \in sessionIndex : Owner[s] = agent}

\* A session of the agent is stored but not in the index yet.
Unlisted(agent) == \E d \in SessionActor : AtStep(d, "index") /\ Owner[sessionCall[d].target] = agent

\* Create checks the quota first, over a list of the agent's sessions.
StartCreate(c, s) ==
    /\ s \notin made
    /\ \A d \in SessionActor : sessionCall[d].target # s
    /\ BeginCall(c, IF Quota = 0 THEN SessionCall("create", s, "active", "record")
                ELSE [SessionCall("create", s, "active", "next") EXCEPT !.todo = AgentSessions(Owner[s])])
    /\ outrun' = IF Unlisted(Owner[s]) THEN outrun \cup {c} ELSE outrun

StartList(c, s) ==
    /\ UNCHANGED outrun
    /\ BeginCall(c, [SessionCall("list", s, "active", "next") EXCEPT !.todo = AgentSessions(Owner[s])])

\* Get, Delete, Heartbeat, UpdateState, TransitionState: all begin with a Get.
StartCall(c, s, op, to) ==
    /\ s \in made /\ UNCHANGED outrun
    /\ BeginCall(c, SessionCall(op, s, to, "lookup"))

\* cleanupExpired: ListAll reads the store, then the expired sessions are failed.
StartCleanup ==
    LET expired == {s \in Session : /\ sessions[s] # NoSession /\ Open(sessions[s])
                                    /\ sessions[s].stamp < now}
    IN  /\ expired # {} /\ UNCHANGED outrun
        /\ BeginCall(Cleaner, [SessionCall("clean", NoSession, "failed", "next") EXCEPT !.todo = expired])

-----------------------------------------------------------------------------
(* Get.                                                                    *)

\* The cache first.
LookupSession(c) ==
    LET k == sessionCall[c]
        found == AfterGet(k, sessionCache[k.at].value)
    IN  /\ AtStep(c, "lookup")
        /\ IF InCache(sessionCache, k.at)
           THEN /\ sessionCache' = CacheUse(sessionCache, k.at)
                /\ sessionCall' = [sessionCall EXCEPT ![c] = found]
                /\ outrun' = IF Behind(k.at) /\ (Judges(found) \/ Counts(found)) THEN outrun \cup {c}
                             ELSE Onward(c, found)
           ELSE /\ sessionCall' = [sessionCall EXCEPT ![c].step = "read"]
                /\ UNCHANGED <<sessionCache, outrun>>
        /\ UNCHANGED <<sessions, sessionIndex, made, now, torn, crossed, sessionCrashes>>

\* Then the store: a missing session ends the call, or is passed over in a list.
ReadSession(c) ==
    LET k == sessionCall[c]
    IN  /\ AtStep(c, "read")
        /\ sessionCall' = [sessionCall EXCEPT ![c] =
              IF sessions[k.at] # NoSession THEN [k EXCEPT !.step = "fill", !.copy = sessions[k.at]]
              ELSE IF k.op \in {"list", "create", "clean"} THEN [k EXCEPT !.step = "next"]
              ELSE NoSessionCall]
        /\ UNCHANGED <<sessions, sessionIndex, sessionCache, made, now, crossVars, sessionCrashes>>

FillCache(c) ==
    LET k == sessionCall[c]
    IN  /\ AtStep(c, "fill")
        /\ sessionCache' = CachePut(sessionCache, k.at, k.copy)
        /\ sessionCall' = [sessionCall EXCEPT ![c] = AfterGet(k, k.copy)]
        /\ outrun' = Onward(c, AfterGet(k, k.copy))
        /\ UNCHANGED <<sessions, sessionIndex, made, now, torn, crossed, sessionCrashes>>

\* The next session of a list; at its end Create goes on if the quota allows it.
NextListed(c) ==
    LET k == sessionCall[c]
    IN  /\ AtStep(c, "next")
        /\ \/ \E s \in k.todo :
                 /\ sessionCall' = [sessionCall EXCEPT ![c] = [k EXCEPT !.step = "lookup", !.at = s, !.todo = @ \ {s}]]
                 /\ UNCHANGED outrun
           \/ /\ k.todo = {} /\ k.op = "create" /\ k.count < Quota
              /\ sessionCall' = [sessionCall EXCEPT ![c] = [k EXCEPT !.step = "record", !.at = k.target, !.count = 0]]
              /\ UNCHANGED outrun
           \/ /\ k.todo = {} /\ ~(k.op = "create" /\ k.count < Quota)
              /\ sessionCall' = [sessionCall EXCEPT ![c] = NoSessionCall]
              /\ outrun' = outrun \ {c}
        /\ UNCHANGED <<sessions, sessionIndex, sessionCache, made, now, torn, crossed, sessionCrashes>>

-----------------------------------------------------------------------------
(* Create, Update, Delete.                                                 *)

StoreSession(c) ==
    LET k == sessionCall[c]
        r == [state |-> "active", stamp |-> now]
    IN  /\ AtStep(c, "record")
        /\ ChangeRecord(c, k.target, r)
        /\ made' = made \cup {k.target}
        /\ sessionCall' = [sessionCall EXCEPT ![c] = [k EXCEPT !.step = "index", !.copy = r]]
        /\ UNCHANGED <<sessionIndex, sessionCache, now, torn, sessionCrashes>>

IndexSession(c) ==
    /\ AtStep(c, "index")
    /\ sessionIndex' = sessionIndex \cup {sessionCall[c].target}
    /\ sessionCall' = [sessionCall EXCEPT ![c].step = "recache"]
    /\ UNCHANGED <<sessions, sessionCache, made, now, crossVars, sessionCrashes>>

\* Update writes the record whether or not it is still there, and only the record: one that
\* is gone comes back without an index entry.
WriteSession(c) ==
    LET k == sessionCall[c]
    IN  /\ AtStep(c, "write")
        /\ ChangeRecord(c, k.at, k.copy)
        /\ torn' = IF sessions[k.at] = NoSession THEN torn \cup {k.at} ELSE torn
        /\ sessionCall' = [sessionCall EXCEPT ![c].step = "recache"]
        /\ UNCHANGED <<sessionIndex, sessionCache, made, now, sessionCrashes>>

\* Mutant: an update leaves the cache alone.
NotRecached(k) == sessionCache

Recached(k) == CachePut(sessionCache, k.at, k.copy)

Recache(c) ==
    /\ AtStep(c, "recache")
    /\ sessionCache' = Recached(sessionCall[c])
    /\ sessionCall' = [sessionCall EXCEPT ![c] = EndCall(sessionCall[c])]
    /\ UNCHANGED <<sessions, sessionIndex, made, now, crossVars, sessionCrashes>>

\* A creation that is overtaken here may enter the session into the index after all.
DropRecord(c) ==
    LET s == sessionCall[c].at
    IN  /\ AtStep(c, "drop")
        /\ ChangeRecord(c, s, NoSession)
        /\ torn' = IF \E d \in SessionActor : AtStep(d, "index") /\ sessionCall[d].at = s
                   THEN torn \cup {s} ELSE torn \ {s}
        /\ sessionCall' = [sessionCall EXCEPT ![c].step = "unindex"]
        /\ UNCHANGED <<sessionIndex, sessionCache, made, now, sessionCrashes>>

\* Mutant: the index entry stays.
StillIndexed(s) == sessionIndex

Unindexed(s) == sessionIndex \ {s}

DropIndex(c) ==
    /\ AtStep(c, "unindex")
    /\ sessionIndex' = Unindexed(sessionCall[c].at)
    /\ sessionCall' = [sessionCall EXCEPT ![c].step = "uncache"]
    /\ UNCHANGED <<sessions, sessionCache, made, now, crossVars, sessionCrashes>>

Uncache(c) ==
    /\ AtStep(c, "uncache")
    /\ sessionCache' = CacheDelete(sessionCache, sessionCall[c].at)
    /\ sessionCall' = [sessionCall EXCEPT ![c] = NoSessionCall]
    /\ UNCHANGED <<sessions, sessionIndex, made, now, crossVars, sessionCrashes>>

-----------------------------------------------------------------------------
SessionTick ==
    /\ now < MaxNow
    /\ now' = now + 1
    /\ UNCHANGED <<sessions, sessionIndex, sessionCache, sessionCall, made, crossVars, sessionCrashes>>

\* The process dies: the cache and the calls are gone.
SessionCrash ==
    /\ sessionCrashes < MaxSessionCrash
    /\ sessionCrashes' = sessionCrashes + 1
    /\ torn' = torn \cup {s \in Session : \E c \in SessionActor : Relisting(c, s)}
    /\ crossed' = {} /\ outrun' = {}
    /\ sessionCache' = EmptyCache(Session)
    /\ sessionCall' = [c \in SessionActor |-> NoSessionCall]
    /\ UNCHANGED <<sessions, sessionIndex, made, now>>

SessionAccess(c) ==
    \/ LookupSession(c) \/ ReadSession(c) \/ FillCache(c) \/ NextListed(c) \/ StoreSession(c) \/ IndexSession(c)
    \/ WriteSession(c) \/ Recache(c) \/ DropRecord(c) \/ DropIndex(c) \/ Uncache(c)

\* Client c at work on sessions of S.
ClientNext(c, S) ==
    \/ \E s \in S :
          \/ StartCreate(c, s) \/ StartList(c, s)
          \/ \E op \in {"get", "delete", "beat"} : StartCall(c, s, op, "active")
          \/ \E op \in {"set", "move"}, to \in SessionState : StartCall(c, s, op, to)
    \/ SessionAccess(c)

CleanupNext == SessionTick \/ StartCleanup \/ SessionAccess(Cleaner)

SessionNext == (\E c \in SessionClient : ClientNext(c, Session)) \/ CleanupNext \/ SessionCrash

SessionSpec == SessionInit /\ [][SessionNext]_sessionVars

-----------------------------------------------------------------------------
\* Nobody is in the middle of a call that could touch s.
AtRest(s) == \A c \in SessionActor : s \notin {sessionCall[c].at, sessionCall[c].target}

\* session.go:66: Get fills the cache behind the store. Any clients at work on any sessions, and the clean-up beside them.
\* The cache that all of them share, and push each other's entries out of, agrees with the
\* store about every session that is at rest, unless the record was changed while another
\* call was about to put its copy into the cache, and nothing has changed it since.
CacheCoherent ==
    \A s \in Session \ crossed :
        AtRest(s) /\ InCache(sessionCache, s) => sessionCache[s].value = sessions[s]

\* Likewise an agent's index lists exactly the sessions in the store, but for those whose
\* creation or deletion a crash cut short, that an update wrote back after their deletion,
\* or whose deletion overtook their creation.
IndexAgrees ==
    \A s \in Session \ torn : AtRest(s) => (s \in sessionIndex <=> sessions[s] # NoSession)

\* session_enhanced.go:49: completed is a final state. Only two calls take a session out of it:
\* UpdateState, which checks no transition, and one that was outrun: it holds a copy of the
\* session that was not completed, and that is when another call completed it.
StaysCompleted(s) ==
    /\ sessions[s] # NoSession /\ sessions[s].state = "completed"
    /\ sessions'[s] # NoSession /\ sessions'[s].state # "completed"
    => \E c \in SessionActor :
          /\ AtStep(c, "write") /\ sessionCall'[c].step = "recache" /\ sessionCall[c].at = s
          /\ sessionCall[c].op = "set" \/ c \in outrun

CompletedIsFinal == [][\A s \in Session : StaysCompleted(s)]_sessions

\* Whatever becomes of an agent's sessions and whoever works on them, a creation leaves no
\* more of them open than its quota, although it counts what an LRU cache says of an index:
\* unless it was outrun, by a call that opened another session of the agent after this one had
\* begun to count, or that had not yet told the index or the cache. (What has a record and no
\* index entry is not counted.)
QuotaKept ==
    [][\A s \in made' \ made :
          Quota > 0 /\ (\A c \in outrun : sessionCall[c].target # s) =>
          Cardinality({t \in Session \ torn : /\ Owner[t] = Owner[s] /\ sessions'[t] # NoSession
                                              /\ sessions'[t].state \in {"active", "paused"}}) <= Quota]_made

\* An open session nobody refreshes is failed by the clean-up, whatever its client does
\* meanwhile: as long as the cache agreed with the store when it expired, and no call was
\* about to cache what it had read or written before.
Expired(s) == sessions[s] # NoSession /\ Open(sessions[s]) /\ sessions[s].stamp < now

Settled(s) ==
    /\ InCache(sessionCache, s) => sessionCache[s].value = sessions[s]
    /\ \A c \in SessionActor : sessionCall[c].at = s => sessionCall[c].step \notin {"fill", "recache"}

FailedInTime(s) == Expired(s) /\ Settled(s) ~> ~Expired(s)
-----------------------------------------------------------------------------
(* The inductive invariant behind CacheCoherent and IndexAgrees.           *)

SessionCallType ==
    [op : {"none", "create", "list", "get", "delete", "beat", "set", "move", "clean"},
     target : Session \cup {NoSession}, to : SessionState,
     step : {"idle", "next", "lookup", "read", "fill", "record", "index", "write", "recache",
             "drop", "unindex", "uncache"},
     at : Session \cup {NoSession}, copy : SessionRecord \cup {NoSession},
     todo : SUBSET Session, count : Nat]

CachedSession == [value : SessionRecord, rank : Nat]

SessionTypeOK ==
    /\ sessions \in [Session -> SessionRecord \cup {NoSession}]
    /\ sessionIndex \subseteq Session
    /\ sessionCache \in [Session -> CachedSession \cup {Out}]
    /\ sessionCall \in [SessionActor -> SessionCallType]
    /\ made \subseteq Session /\ \A s \in Session : sessions[s] # NoSession => s \in made
    /\ now \in 0..MaxNow

\* Which calls come to which step, at which session.
CallShape(k, stored) ==
    /\ IF k.step = "idle" THEN k = NoSessionCall ELSE k.op # "none"
    /\ k.step \notin {"idle", "next"} => k.at \in Session
    /\ k.step = "next" => k.op \in {"create", "list", "clean"}
    /\ k.step \in {"record", "index"} => k.op = "create"
    /\ k.step = "write" => k.op \in {"beat", "set", "move", "clean"}
    /\ k.step \in {"drop", "unindex", "uncache"} => k.op = "delete"
    /\ k.op \notin {"none", "create", "list"} /\ k.step # "next" => k.at \in stored
    /\ k.op = "clean" => k.todo \subseteq stored
    /\ k.op = "create" => k.target \in Session
    /\ k.op = "create" /\ k.step \in {"record", "index", "recache"} => k.at = k.target
    /\ Counts(k) => k.target \notin stored
    /\ k.step \in {"fill", "write", "index", "recache"} => k.copy \in SessionRecord

\* What a call is about to cache or to index is stored, and what it is about to remove from
\* the index is not stored any more, unless other calls crossed it.
CallFits(k, records, astray, crossing) ==
    /\ k.step \in {"fill", "index", "recache"} /\ k.at \notin crossing => k.copy = records[k.at]
    /\ k.step = "index" /\ k.at \notin astray => records[k.at] # NoSession
    /\ k.step = "unindex" /\ k.at \notin astray => records[k.at] = NoSession

CallsFit ==
    /\ \A c \in SessionActor : /\ CallShape(sessionCall[c], made)
                               /\ CallFits(sessionCall[c], sessions, torn, crossed)
    /\ \A c, d \in SessionActor :
          c # d /\ Counts(sessionCall[c]) /\ Counts(sessionCall[d])
          => sessionCall[c].target # sessionCall[d].target

\* The cache is wrong about a session, or the index, only while a call is there to mend it.
CacheSettles ==
    \A s \in Session \ crossed : \/ InCache(sessionCache, s) => sessionCache[s].value = sessions[s]
                                 \/ \E c \in SessionActor : Recaching(c, s)

IndexSettles ==
    \A s \in Session \ torn : \/ s \in sessionIndex <=> sessions[s] # NoSession
                              \/ \E c \in SessionActor : Relisting(c, s)

SessionInv == SessionTypeOK /\ CallsFit /\ CacheSettles /\ IndexSettles

-----------------------------------------------------------------------------
(* The judgements that hold until they are acted on, but for those that    *)
(* are outrun.                                                             *)

\* The sessions that count against an agent's quota, by the records and the index.
OpenOf(agent, records, astray) == {t \in Session \ astray : Owner[t] = agent /\ IsOpen(records[t])}

\* What a list has still to get.
Unseen(k) == IF k.step \in {"lookup", "read", "fill"} THEN k.todo \cup {k.at} ELSE k.todo

\* An update has read the state the session is in, and writes it or one that it may be followed
\* by; a creation has counted the open sessions it has seen.
CallJudged(k, records, astray) ==
    /\ Judges(k) => records[k.at] # NoSession
    /\ Judges(k) /\ (k.step = "fill" \/ k.op = "beat") => k.copy.state = records[k.at].state
    /\ Judges(k) /\ k.step = "write" /\ k.op # "beat" => CanTransition(records[k.at].state, k.copy.state)
    /\ Counts(k) /\ k.step = "fill" /\ k.at \in OpenOf(Owner[k.target], records, astray) => Open(k.copy)
    /\ Counts(k) /\ Quota > 0 =>
          IF k.step = "record" THEN Cardinality(OpenOf(Owner[k.target], records, astray)) < Quota
          ELSE Cardinality(OpenOf(Owner[k.target], records, astray) \ Unseen(k)) <= k.count

QuotaInv ==
    /\ IsFiniteSet(made)
    /\ \A c \in SessionActor \ outrun : CallJudged(sessionCall[c], sessions, torn)
=============================================================================
