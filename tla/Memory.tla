------------------------------- MODULE Memory -------------------------------
(***************************************************************************)
(* The short-term memories of one session:                                 *)
(* internal/agent/{memory,memory_enhanced}.go.                             *)
(*                                                                         *)
(* There is no lock. Every Get writes the memory back with a new access    *)
(* time, so readers, the goroutines that evict old memories and the one    *)
(* that decays them are writers too. Memories are numbered in the order of *)
(* their creation; of one the model keeps when it was accessed and whether *)
(* its importance has decayed.                                             *)
(***************************************************************************)
EXTENDS LRUCache, FiniteSets

CONSTANTS Item,           \* the memories: numbers
          MemoryClient,   \* callers of Get, UpdateAccess and Delete
          Decayer,        \* the goroutine of decayLoop
          Window,         \* ShortTermWindow
          NoItem,
          MaxHour         \* bound on the clock, which ticks by the hour

MemoryRecord == [accessed : 0..MaxHour, decayed : BOOLEAN]

\* StoreShortTerm starts a goroutine for each memory, named by it.
MemoryActor == Item \cup MemoryClient \cup {Decayer}

ASSUME ItemAssumption == Item \subseteq Nat /\ MemoryClient \cap Item = {} /\ Decayer \notin Item \cup MemoryClient
ASSUME NoItemAssumption == NoItem \notin MemoryRecord /\ NoItem \notin Item
ASSUME MemoryBounds == Window \in Nat \ {0} /\ MaxHour \in Nat

VARIABLES
    memories,      \* the stored records
    memoryIndex,   \* the memories in the session index
    memoryCache,
    storing,       \* how far StoreShortTerm has come with a memory
    memoryCall,    \* what each actor is doing
    hour

memoryVars == <<memories, memoryIndex, memoryCache, storing, memoryCall, hour>>

\* A call: the memories still to visit and the copies found so far, the memory Get is at
\* and the copy it has read, the hour the call began.
NoMemoryCall ==
    [op |-> "none", step |-> "idle", at |-> NoItem, copy |-> NoItem, todo |-> {}, found |-> {}, began |-> 0]

MemoryCall(op, step, at) == [NoMemoryCall EXCEPT !.op = op, !.step = step, !.at = at, !.began = hour]

MemoryInit ==
    /\ memories = [m \in Item |-> NoItem]
    /\ memoryIndex = {}
    /\ memoryCache = EmptyCache(Item)
    /\ storing = [m \in Item |-> "new"]
    /\ hour = 0
    /\ memoryCall = [a \in MemoryActor |-> NoMemoryCall]

MemoryAt(a, step) == memoryCall[a].step = step

-----------------------------------------------------------------------------
(* StoreShortTerm: the record, its index entry, the cache; then a          *)
(* goroutine evicts what has left the window.                              *)

\* What StoreShortTerm marshalled; the clock stands still during the call.
Fresh == [accessed |-> hour, decayed |-> FALSE]

StoreMemory(m) ==
    /\ storing[m] = "new" /\ \A n \in Item : n < m => storing[n] # "new"
    /\ storing' = [storing EXCEPT ![m] = "stored"]
    /\ memories' = [memories EXCEPT ![m] = Fresh]
    /\ UNCHANGED <<memoryIndex, memoryCache, memoryCall, hour>>

IndexMemory(m) ==
    /\ storing[m] = "stored"
    /\ storing' = [storing EXCEPT ![m] = "indexed"]
    /\ memoryIndex' = memoryIndex \cup {m}
    /\ UNCHANGED <<memories, memoryCache, memoryCall, hour>>

\* Mutant: the goroutine is started for the first memory only.
EvictOnce(m) == m = 1

Evicts(m) == Window > 0

CacheMemory(m) ==
    /\ storing[m] = "indexed"
    /\ storing' = [storing EXCEPT ![m] = "done"]
    /\ memoryCache' = CachePut(memoryCache, m, Fresh)
    /\ memoryCall' = IF Evicts(m) THEN [memoryCall EXCEPT ![m] = MemoryCall("evict", "scan", NoItem)]
                     ELSE memoryCall
    /\ UNCHANGED <<memories, memoryIndex, hour>>

-----------------------------------------------------------------------------
(* What a call does with the memory its Get returned.                      *)

AfterMemoryGet(k, r) ==
    CASE k.op = "get" -> NoMemoryCall
      [] k.op = "access" -> [k EXCEPT !.op = "get", !.step = "touch", !.copy = r]
      [] k.op \in {"delete", "purge"} -> [k EXCEPT !.step = "drop", !.copy = NoItem]
      [] k.op \in {"evict", "decay"} ->
            [k EXCEPT !.step = "next", !.copy = NoItem, !.found = @ \cup {[item |-> k.at, copy |-> r]}]
      [] k.op = "fade" -> [k EXCEPT !.step = "next", !.copy = NoItem]

\* A memory that is not there ends a call, or is passed over by one that visits many.
MemoryMissing(k) == IF k.op \in {"get", "access", "delete"} THEN NoMemoryCall
                    ELSE [k EXCEPT !.step = "next"]

-----------------------------------------------------------------------------
(* Get: the cache, else the store and then the cache; touchMemory writes   *)
(* the copy back to both.                                                  *)

StartMemoryCall(c, op, m) ==
    /\ memoryCall[c] = NoMemoryCall /\ storing[m] = "done"
    /\ memoryCall' = [memoryCall EXCEPT ![c] = MemoryCall(op, "lookup", m)]
    /\ UNCHANGED <<memories, memoryIndex, memoryCache, storing, hour>>

LookupMemory(a) ==
    LET k == memoryCall[a]
        hit == InCache(memoryCache, k.at)
    IN  /\ MemoryAt(a, "lookup")
        /\ memoryCache' = IF hit THEN CacheUse(memoryCache, k.at) ELSE memoryCache
        /\ memoryCall' = [memoryCall EXCEPT ![a] =
              IF hit THEN [k EXCEPT !.step = "touch", !.copy = memoryCache[k.at].value]
              ELSE [k EXCEPT !.step = "read"]]
        /\ UNCHANGED <<memories, memoryIndex, storing, hour>>

ReadMemory(a) ==
    LET k == memoryCall[a]
    IN  /\ MemoryAt(a, "read")
        /\ memoryCall' = [memoryCall EXCEPT ![a] =
              IF memories[k.at] = NoItem THEN MemoryMissing(k)
              ELSE [k EXCEPT !.step = "fill", !.copy = memories[k.at]]]
        /\ UNCHANGED <<memories, memoryIndex, memoryCache, storing, hour>>

FillMemory(a) ==
    LET k == memoryCall[a]
    IN  /\ MemoryAt(a, "fill")
        /\ memoryCache' = CachePut(memoryCache, k.at, k.copy)
        /\ memoryCall' = [memoryCall EXCEPT ![a].step = "touch"]
        /\ UNCHANGED <<memories, memoryIndex, storing, hour>>

Decayed(k) == [k.copy EXCEPT !.decayed = TRUE, !.accessed = k.began]

\* The record is written whether or not it is still there.
TouchMemory(a) ==
    LET k == memoryCall[a]
        r == IF k.op = "fade" THEN Decayed(k) ELSE [k.copy EXCEPT !.accessed = hour]
    IN  /\ MemoryAt(a, "touch")
        /\ memories' = [memories EXCEPT ![k.at] = r]
        /\ memoryCall' = [memoryCall EXCEPT ![a] = [k EXCEPT !.step = "recache", !.copy = r]]
        /\ UNCHANGED <<memoryIndex, memoryCache, storing, hour>>

RecacheMemory(a) ==
    LET k == memoryCall[a]
    IN  /\ MemoryAt(a, "recache")
        /\ memoryCache' = CachePut(memoryCache, k.at, k.copy)
        /\ memoryCall' = [memoryCall EXCEPT ![a] = AfterMemoryGet(k, k.copy)]
        /\ UNCHANGED <<memories, memoryIndex, storing, hour>>

-----------------------------------------------------------------------------
(* Delete, after its Get: the record, the index entry, the cache.          *)

DropMemory(a) ==
    /\ MemoryAt(a, "drop")
    /\ memories' = [memories EXCEPT ![memoryCall[a].at] = NoItem]
    /\ memoryCall' = [memoryCall EXCEPT ![a].step = "unindex"]
    /\ UNCHANGED <<memoryIndex, memoryCache, storing, hour>>

UnlistMemory(a) ==
    /\ MemoryAt(a, "unindex")
    /\ memoryIndex' = memoryIndex \ {memoryCall[a].at}
    /\ memoryCall' = [memoryCall EXCEPT ![a].step = "uncache"]
    /\ UNCHANGED <<memories, memoryCache, storing, hour>>

UncacheMemory(a) ==
    LET k == memoryCall[a]
    IN  /\ MemoryAt(a, "uncache")
        /\ memoryCache' = CacheDelete(memoryCache, k.at)
        /\ memoryCall' = [memoryCall EXCEPT ![a] = IF k.op = "purge" THEN [k EXCEPT !.step = "next"] ELSE NoMemoryCall]
        /\ UNCHANGED <<memories, memoryIndex, storing, hour>>

-----------------------------------------------------------------------------
(* evictShortTerm and decayImportance: ListBySession scans the index and   *)
(* gets what it finds.                                                     *)

ScanMemories(a) ==
    /\ MemoryAt(a, "scan")
    /\ memoryCall' = [memoryCall EXCEPT ![a] = [@ EXCEPT !.step = "next", !.todo = memoryIndex]]
    /\ UNCHANGED <<memories, memoryIndex, memoryCache, storing, hour>>

Newest(n, items) == {m \in items : Cardinality({o \in items : o > m}) < n}

\* Mutant: the list is sorted the other way.
Youngest(items) == {m \in items : Cardinality({o \in items : o < m}) >= Window}

\* toDelete: what is left of the list behind the window.
Surplus(items) == items \ Newest(Window, items)

Visit(k, m) == [k EXCEPT !.step = "lookup", !.at = m, !.todo = @ \ {m}]

\* decayImportance passes over what was accessed in the hour before it began.
Fade(k, m) ==
    LET r == (CHOOSE f \in k.found : f.item = m).copy
    IN  IF k.began - r.accessed >= 1 /\ ~r.decayed
        THEN [k EXCEPT !.step = "touch", !.at = m, !.copy = r, !.todo = @ \ {m}]
        ELSE [k EXCEPT !.todo = @ \ {m}]

\* A scan visits the memories in the order of their random IDs. At its end, the surplus of
\* the window is deleted from the newest on, or what was found decays.
NextMemory(a) ==
    LET k == memoryCall[a]
        items == {f.item : f \in k.found}
        Goes(next) == memoryCall' = [memoryCall EXCEPT ![a] = next]
    IN  /\ MemoryAt(a, "next")
        /\ \/ k.op \in {"evict", "decay"} /\ \E m \in k.todo : Goes(Visit(k, m))
           \/ k.op = "purge" /\ \E m \in Newest(1, k.todo) : Goes(Visit(k, m))
           \/ k.op = "fade" /\ \E m \in k.todo : Goes(Fade(k, m))
           \/ /\ k.todo = {}
              /\ Goes(IF k.op = "evict" /\ Surplus(items) # {}
                      THEN [k EXCEPT !.op = "purge", !.todo = Surplus(items), !.found = {}]
                      ELSE IF k.op = "decay" /\ items # {} THEN [k EXCEPT !.op = "fade", !.todo = items]
                      ELSE NoMemoryCall)
        /\ UNCHANGED <<memories, memoryIndex, memoryCache, storing, hour>>

StartDecay ==
    /\ memoryCall[Decayer] = NoMemoryCall
    /\ \E m \in Item : memories[m] # NoItem
    /\ memoryCall' = [memoryCall EXCEPT ![Decayer] = MemoryCall("decay", "scan", NoItem)]
    /\ UNCHANGED <<memories, memoryIndex, memoryCache, storing, hour>>

AllStored == \A m \in Item : storing[m] \in {"new", "done"}

HourPasses ==
    /\ hour < MaxHour /\ AllStored
    /\ hour' = hour + 1
    /\ UNCHANGED <<memories, memoryIndex, memoryCache, storing, memoryCall>>

MemoryAccess(a) ==
    \/ LookupMemory(a) \/ ReadMemory(a) \/ FillMemory(a) \/ TouchMemory(a) \/ RecacheMemory(a)
    \/ DropMemory(a) \/ UnlistMemory(a) \/ UncacheMemory(a) \/ ScanMemories(a) \/ NextMemory(a)

MemoryNext ==
    \/ \E m \in Item : StoreMemory(m) \/ IndexMemory(m) \/ CacheMemory(m)
    \/ \E c \in MemoryClient, m \in Item, op \in {"get", "access", "delete"} : StartMemoryCall(c, op, m)
    \/ \E a \in MemoryActor : MemoryAccess(a)
    \/ StartDecay \/ HourPasses

MemorySpec == MemoryInit /\ [][MemoryNext]_memoryVars

-----------------------------------------------------------------------------
Quiet == AllStored /\ \A a \in MemoryActor : memoryCall[a] = NoMemoryCall

\* However stores and evictions overlap, and although every eviction works on a list that
\* others shorten and refresh meanwhile: once they are through, the session lists no more
\* short-term memories than its window holds, and each it lists is stored.
WindowKept ==
    Quiet =>
        /\ Cardinality(memoryIndex) <= Window
        /\ \A m \in memoryIndex : memories[m] # NoItem

\* A memory goes because a client deletes it or because as many newer ones as the window
\* holds were stored since: no eviction is misled by the others into deleting more.
OnlySurplusEvicted ==
    [][\A m \in Item : memories[m] # NoItem /\ memories'[m] = NoItem =>
          \/ \E c \in MemoryClient : memoryCall[c].op = "delete" /\ memoryCall[c].at = m
          \/ Cardinality({n \in Item : n > m /\ storing[n] # "new"}) >= Window]_memories

Unread(m) == memories[m] # NoItem /\ hour - memories[m].accessed >= 1

\* memory_enhanced.go:232: importance decays in the background. A memory that nobody has
\* read for an hour decays.
UnreadDecays == \A m \in Item : Unread(m) ~> memories[m] = NoItem \/ memories[m].decayed-----------------------------------------------------------------------------
(* The inductive invariant behind WindowKept and OnlySurplusEvicted.       *)

CachedMemory == [value : MemoryRecord, rank : Nat]

MemoryCallType ==
    [op : {"none", "get", "access", "delete", "evict", "purge", "decay", "fade"},
     step : {"idle", "scan", "next", "lookup", "read", "fill", "touch", "recache", "drop", "unindex", "uncache"},
     at : Item \cup {NoItem}, copy : MemoryRecord \cup {NoItem}, todo : SUBSET Item,
     found : SUBSET [item : Item, copy : MemoryRecord], began : 0..MaxHour]

\* The memories that StoreShortTerm has stored, and those it has indexed, when it has come as
\* far as stages says.
Begun(stages) == {m \in Item : stages[m] # "new"}
Listed(stages) == {m \in Item : stages[m] \in {"indexed", "done"}}

MemoryTypeOK ==
    /\ memories \in [Item -> MemoryRecord \cup {NoItem}]
    /\ memoryCache \in [Item -> CachedMemory \cup {Out}]
    /\ storing \in [Item -> {"new", "stored", "indexed", "done"}]
    /\ memoryCall \in [MemoryActor -> MemoryCallType]
    /\ hour \in 0..MaxHour
    /\ IsFiniteSet(Begun(storing))

FoundBy(k) == {f.item : f \in k.found}

\* The memory that a Get, or the deletion after it, is at.
Visiting(k) ==
    IF k.step \in {"lookup", "read", "fill", "touch", "recache", "drop", "unindex"} THEN {k.at} ELSE {}

\* As many newer memories as the window holds were stored.
Overtaken(m, stages) == Cardinality({n \in Item : n > m /\ stages[n] # "new"}) >= Window

\* A call works on memories that were indexed, and an eviction deletes overtaken ones only.
MemoryCallFits(a, k, stages) ==
    /\ k.op = "none" => k = NoMemoryCall
    /\ a \in Item /\ stages[a] # "done" => k = NoMemoryCall
    /\ k.op = "delete" => a \in MemoryClient
    /\ k.step = "scan" => k.op \in {"evict", "decay"}
    /\ k.step \in {"drop", "unindex", "uncache"} => k.op \in {"delete", "purge"}
    /\ k.step \in {"fill", "touch", "recache"} => k.copy \in MemoryRecord
    /\ k.step = "uncache" => k.at \in Item
    /\ k.todo \cup FoundBy(k) \cup Visiting(k) \subseteq Listed(stages)
    /\ k.op = "fade" => k.todo \subseteq FoundBy(k)
    /\ k.op = "purge" => \A m \in k.todo \cup Visiting(k) : Overtaken(m, stages)

MemoryCallsFit == \A a \in MemoryActor : MemoryCallFits(a, memoryCall[a], storing)

\* What is indexed was stored, and is still, or somebody is about to remove its entry.
IndexBacked ==
    /\ memoryIndex \subseteq Listed(storing)
    /\ \A m \in Item : storing[m] = "stored" => memories[m] # NoItem
    /\ \A m \in memoryIndex : memories[m] = NoItem =>
          \E a \in MemoryActor : memoryCall[a].step = "unindex" /\ memoryCall[a].at = m

\* The call will take one of the memories J away: its eviction has still to list them, has all
\* of them before it or in its list, or is about to delete one.
TakesOneOf(k, J) ==
    \/ k.op = "evict" /\ k.step = "scan"
    \/ k.op = "evict" /\ J \subseteq k.todo \cup FoundBy(k) \cup Visiting(k)
    \/ k.op = "purge" /\ (k.todo \cup Visiting(k)) \cap J # {}
    \/ k.step = "unindex" /\ k.at \in J

\* No set of memories that the window cannot hold stays: the one indexed last sees to it.
WindowRestored ==
    \A J \in SUBSET memoryIndex : Cardinality(J) > Window =>
        \/ \E m \in Item : storing[m] = "indexed"
        \/ \E a \in MemoryActor : TakesOneOf(memoryCall[a], J)

MemoryInv == MemoryTypeOK /\ MemoryCallsFit /\ IndexBacked /\ WindowRestored
=============================================================================
