# AgentNativeDB in TLA+

AgentNativeDB is a database for AI agents in one Go process: an embedded
key-value store (Badger) under a SQL engine, a vector index, a graph store and a
set of agent services, with an optional Raft layer that replicates the
key-value operations. These modules model the parts whose correctness depends on
the order of steps, check them with TLC on small instances, and prove the main
results with TLAPS for all instances. Paths below are relative to the repository
(`src/` in `PROJECT.json`).

## 1. Inventory

| component | code | state | operations | what is hard |
|---|---|---|---|---|
| Raft node | `internal/raft/{node,run,transport}.go` | persisted term, vote, log, commit and apply index; role, timers, per-peer indices, registered proposals | election with pre-vote, `Propose`, replication, the RPC handlers, applying, restart | goroutines that use what they read before an unlock; reordered, lost and late RPCs; crashes |
| Raft log store | `internal/raft/storage.go` | Badger keys per index, four scalars | `StoreLog`, `DeleteRange`, `LogEntries`, `LastIndex` | gaps: the log is a map, not a sequence |
| Raft engine, membership | `internal/raft/engine.go`, `node.go` | the wrapped engine; peers, saved and configured | encode a write or a change of peers as a command, propose it, apply it, replay it | the command byte decides who interprets the entry; writes to two databases with crashes between them |
| Task queue | `internal/agent/taskqueue.go` | records and an index in the store; heap and one-token channel in memory | `Enqueue`, `Dequeue`, `Complete`/`Fail`/`Cancel` | lost wake-ups, two consumers, unlocked read-modify-write |
| Sessions | `internal/agent/session*.go` | records and an index in the store, LRU cache, cleanup goroutine | create, get, update, delete, transition, heartbeat, expire | read-through cache against deletes; check-then-act quota; final states |
| LRU cache | `internal/storage/cache.go` | map, recency list, counters | get, set, delete, evict | recency and capacity together |
| Memory | `internal/agent/memory*.go` | records, type/session/time indices, cache, decay goroutine | store, get (which counts accesses), delete, decay, evict | write-backs of stale copies; a counter updated on reads |
| Permissions | `internal/agent/permission.go` | roles and agent-role sets in memory and in the store | create/delete role, assign, revoke, check, load | memory changes under the lock, the store after it |
| Coordinator | `internal/agent/coordinator.go` | rooms in memory and in the store, messages | create, join, leave, send, share, list | a room loaded twice; a membership check outside the lock |
| Decisions, audit, RAG | `internal/agent/{decision,audit,rag}.go` | records with time-ordered keys | append, list, build a tree | little: single writes and prefix scans |
| Table manager | `internal/storage/table_manager.go` | table metadata, key prefixes | init, create, drop, alter | prefix reuse over a restart; memory changed before a persist that fails |
| SQL indexes | `internal/query/sql/index/` | index entries per row and column | insert/update/delete row, unique check, backfill, lookup | unique check before the batch; several writers |
| SQL planner, executor | `internal/query/sql/{planner,executor,stats}.go` | none but the slow-query ring | plan and run a statement | NULLs, ordering, plan rewrites |
| SQL front end | `internal/query/sql/{lexer,parser,ast}.go` | none | text to syntax tree | - |
| Badger engine | `internal/storage/badger/`, `internal/storage/{engine,keyencode}.go` | iterators, transactions | get, set, scan forwards and backwards, batch | the ends of reverse ranges |
| Vector index | `internal/vector/` | HNSW layers, entry point, persisted vectors | insert, search, delete, update | reachability after deletes, pruning |
| Graph, lineage | `internal/graph/`, `internal/knowledge/` | nodes, edges in two directions | add/delete, neighbours, k hops, shortest path, trace | dangling edges, cycles |
| APIs, commands, SDKs, UI, installers | `api/ cmd/ sdk/ ui/ npm/ pypi/` | none of their own | decode, call a component, encode | - |

How they interact: the APIs call the agent services, the SQL engine and the
stores; all of them write through one storage engine, either Badger itself or
`RaftEngine`, which turns each write into a proposal of the Raft node and applies
committed entries to Badger. Services share nothing but the engine and (sessions,
memory) an LRU cache, which the server makes one for both. Every HTTP request is a goroutine of its own,
and most services guard their maps with a mutex and the store with nothing.

What makes each component correct, in short: committed writes survive and every
state machine sees the same ones (Raft); a queued task is given out once and not
forgotten (task queue); the cache never answers what the store has lost, an ended
session stays ended (sessions); a permission that was granted or revoked is so after
a restart too (permissions); every row has its entry in every
index and no two rows one value in a UNIQUE column (indexes); no two tables, old or new,
share a key prefix (tables); a query answers what its clauses mean, with whatever indexes
(planner, executor); keys order as values do (index keys); what is stored is found, the
nearest first (vectors); records and index entries match, and walks follow the edges
that are stored (graph).
The places where this could go wrong are listed line by line under `hazards` in
`PROJECT.json`, each with the properties that watch it.

## 2. Modules

| module | what it is |
|---|---|
| `RaftLog` | the log store as a partial map from indices to entries, and the log arithmetic of the handlers as operators: `AppendLoop`, `LogEntries`, `LastIndex`, `UpToDate` |
| `Raft` | the nodes of one group: run loops, RPC handlers, one goroutine per call, applying, crash and restart |
| `CommittedLog` | the abstract promise: one sequence of committed entries that grows at its end, and what each node knows of it |
| `RaftProperties` | type invariant, safety, fairness and liveness of `Raft`, its refinement of `CommittedLog`, the inductive invariants `ReplicationInv` and `ApplyInv` |
| `MCRaft` | small groups for TLC; a start state in which the election is over |
| `TaskQueue` | the task queue with its properties |
| `LRUCache` | the cache as operators on a map from keys to values and recency ranks |
| `Sessions` | both session managers over `LRUCache`, clients and the clean-up goroutine |
| `Permissions` | roles and their assignment, in memory and in the store, and checks |
| `Coordinator` | one room: its objects in memory, its record, joins, leaves, messages |
| `Memory` | the short-term memories of one session over `LRUCache`, evictions and decay |
| `MCAgent` | small agent services for TLC, one in each behaviour |
| `Tables` | SQL tables, their rows and indexes: the statements that write, step by step, over the table and the index manager |
| `Queries` | `SELECT` as a function from the statement, the indexes and the rows to the answer: the planner, then the plan's operators |
| `IndexKeys` | the byte strings of index entries and the scans and lookups over them |
| `VectorIndex` | the HNSW graph of one vector index and the store's calls around it |
| `Graph` | nodes, edges and their entries, the calls that write them step by step, recorded lineage; its inductive invariant `GraphInv` |
| `GraphWalks` | the traversals and lineage trees over `Graph` |
| `RaftEngine` | what one node makes of the committed log: its engine and its peers, over failing writes and restarts |
| `MCData` | small data services for TLC, one in each behaviour |
| `RaftProofs`, `RaftReplicationProofs`, `RaftApplyProofs`, `RaftEngineProofs`, `AgentProofs`, `PermissionsProofs`, `TablesProofs`, `GraphProofs` | the theorems and lemmas |

### Raft: how the state and actions correspond to the code

A node is one run loop, the handlers of the RPCs it receives and one goroutine
for every RPC it sends. **An action is one critical section of `n.mu`**, or one step
of the run loop between two of them; what the code carries from one section to
the next in local variables is in `loop` (run loop), `ballots` (vote calls),
`appends` (AppendEntries calls) and `beat` (the `sendHeartbeats` goroutine a proposal
starts). The leader check of `handleProposal` and the append it decides on are
therefore two actions (`TakeProposal`, `AppendProposal`), and so are the two halves of
`becomeLeader` (`BecomeLeader`, `AppendNoOp`), the check and the spawning of
`sendHeartbeats` (`Tick` or `CheckBeat`, then `SpawnReplicators`), the request and the
response section of `replicateToPeer` (`Replicate`, then `StepDown`, `ReplicateOk`,
`ReplicateRefused` or `ReplicateIgnored`), and `collectApplyOps` (inside the section that
commits) and `doApply` (`Apply`, one operation at a time, batches in any order).

The persisted scalars are written in the critical section that assigns them, so one
variable stands for the copy in memory and the one in Badger. `Crash` drops the rest.
`Restart` is `NewNode` and `Start` up to `applyCommitted`, which gives one entry after the other to
the state machine (`ReplayEntry`) and saves how far it has come at its end only (`FinishStart`); a crash or a
failing `Apply` in between (`Crash`, `FailStart`) leaves entries that the next start replays again. No RPC reaches the node
before `Start` has returned, and a `Start` that fails ends the program (`cmd/andb/server.go:104`). `applied` is what
`Apply` was called with: commands and configuration entries, never a NoOp (`run.go:446`).
A call may be lost, its answer may be lost, it may time out while the request travels
on (`orphan`), and calls are delivered in any order.

### Task queue

`Enqueue` is four steps (the record, its index entry, the push under `q.mu`, the token),
`Dequeue` loops over looking (`Take` or `Block`) and waiting (`Wake` or `Expire`), and an
update is a read and a write of the record with no lock between. `QueueCrash` loses the
heap and the calls; `NewTaskQueue` reads nothing back. A heap is a set from which a most
urgent element is taken (`container/heap` is outside the repository).

### Sessions, permissions, rooms, memories

None of these services holds a lock over an access to the store. A call is therefore a
sequence of steps, one for each access to the store or the cache and one for each critical
section, and its local variables are a record in `sessionCall`, `adminCall`, `roomCall` or
`memoryCall`. Calls of different clients interleave at every step.

* `Sessions`: `LookupSession`, `ReadSession`, `FillCache` are the three accesses of `Get`, which begins every
  other call; `AfterGet` says what each does with the result. `NextListed` walks the list of
  `ListByAgent` (also the quota check of `Create`) or of `cleanupExpired`. One tick of the clock is longer
  than the timeout.
* `LRUCache`: `Get` and `Set` hold the cache's lock from start to end, so they are operators. The recency
  list is represented by the rank of each entry, 1 at the front.
* `Permissions`: `PutRole` then `RememberRole` (store, then memory); `FindRole`, `Assign`, `PersistList` (two critical
  sections, then the store, whose write may fail: `FailPersist`); `Reload` is a restart.
* `Coordinator`: a room object has a number, so that a call may hold one that `c.rooms` no longer
  names. `JoinRoom` and `LeaveRoom` save inside their critical section (`Change`). `HasMember` reads the list
  without the lock: when a change meets it (`raced`), it may answer anything.
* `Memory`: every `Get` ends in `TouchMemory` and `RecacheMemory`. Each stored memory has an eviction goroutine,
  which scans the index, gets each memory, and then deletes the surplus of the window.

### Tables and indexes

A statement reads the metadata (under `tm.mu` or `Manager.mu`), scans rows, validates, and writes
one `BatchWrite` per row; nothing is locked in between, so **an action is one access to
the store or to one of the two managers**, and `sqlCall` has the statement's local variables: the prefix
it got first, the rows it found, the indexes it listed. `insert`, `update` and `delete` share the steps `BeginWrite`,
`CheckKey` (`validateRowForWrite`), `CheckIndexes` (`InsertRowOps`, `UpdateRowOps`, `DeleteRowOps`) and `WriteRow`.
`CREATE INDEX` is `CheckTable`, `CreateIndex`, `ScanForIndex`, `Rebuild`; `DROP INDEX`, a failed backfill and
`DROP TABLE` go through `Forget`, `DropIndexMeta`, `ListEntries`, `EraseEntries`; `DROP TABLE` then holds the
lock over `DropTable`, `DropRows`, `DropMeta`. A write to the store may fail at each of them (`Fault`), and `SQLCrash` loads
the metadata anew. A table has one column beside the id; `Folded` says which values have the
same index key; a batch is a set of rows and entries to drop and to put.

Five history variables say what a property leaves out, because the code does not give it:
`unlisted` (a row whose writer had listed the indexes before the index was there, or which the
backfill passes over), `unbuilt` (an index whose `CREATE` was cut short), `unclean` (an index whose
`DROP` has not succeeded), `strays` (rows written under the prefix of a table that is gone), and `crowded` (a statement has begun
while another was in progress: only until then are entries and UNIQUE values promised to be right).

### Queries and index keys

`Queries` has no concurrency: `PlanSelect` and `Execute` are functions, and the one action `Select` applies them.
A plan is a sequence of nodes from the scan up, since only a join has two
inputs and its right one is always a scan. Values are numbers in the order of `compareValues`, `IndexOrder` is
the order of the index keys, in which case is folded, and `Printed` the text `%v` makes of a value, which groups go by. What `IndexEqual` and `IndexRange` take for
granted, that a lookup returns the rows of a range in the order of the values, is what `IndexKeys`
shows of `EncodeValue`, `entryKey`, `PrefixRange` and the two lookups, with bytes 0 to 3.

### Vectors, graph, lineage

`VectorIndex`: the operations of `HNSWIndex` hold its lock and are operators (`SearchLayer` with its two lists, `Connect`,
`Prune`, `InsertNode`, `UpdateNode`, `RemoveNode`); `VectorStore` writes the store and then the graph, in steps. The level
that `randomLevel` draws and the order in which Go walks a map are chosen freely (one order
per call). A vector is a number.

`Graph`: `AddNode`, `AddEdge`, `DeleteNode`, `DeleteEdge` write record and entries one by one without a transaction, so a
call is the list of writes it has still to do, and each may fail, be the last before a crash, or
meet another call. In `GraphWalks` a traversal reads at one moment and is an operator; `LineageTracker` likewise.

### The state machine behind Raft

`RaftEngine` takes from `Raft` what `CommittedLog` promises, one sequence of committed commands, and follows one node.
`CollectOp` and `ApplyOp` are the loops of `collectApplyOps` and `doApply`, one index each, because every index
is a write of its own; `ApplyCmd` is `applyCmd` with `applyConfigChange`. `StartNode` is `NewNode` and
`BootstrapCluster`, `ReplayOp` and `FinishStart` are `applyCommitted`, whose error ends the start. The write of a
command or of the peers may fail, and the process may end between any two steps. Two
history variables name what the property leaves out: `passedBy` (indices saved as applied whose command failed or was cut
short by a crash) and `drifted` (peers whose change could not be saved, or that `cfg.Peers` brings back at a start).

## 3. What is checked

| run | instance | shows |
|---|---|---|
| `raft_replication` | 3 nodes, one leader, 2 commands, calls in any order | what counts as committed or was answered with nil is on a majority |
| `raft_recovery` | 2 nodes, one candidate, lossy calls, 1 crash, 2 terms | the group implements `CommittedLog`; `ReplicationInv` holds, and with it that logs are prefixes of the candidate's |
| `raft_contest` | 2 nodes, both candidates, 2 terms | types; nobody is answered twice, so no answer blocks `doApply`; the group never ends with all election timers disarmed |
| `raft_alone` | 1 node, 2 commands, 2 crashes or failed starts, 3 terms | no index is applied twice, but those that a start replayed and did not live to save |
| `raft_progress` | 2 nodes, one candidate, no failures, fair | every queued proposal is answered; acknowledged commands reach every state machine |
| `agent_services` | one service in each behaviour, see below | the properties of the agent services |
| `data_services` | one mix of calls in each behaviour, see below | the properties of storage, queries, vectors, graph and of a node's state under Raft |

`agent_services` chooses in its initial state:

| `service` | instance | shows |
|---|---|---|
| tasks | 2 tasks, 2 consumers, 1 updater, 1 crash, fair | no task is stranded while all sleep, none is handed out twice or goes back to pending, every queued task is taken |
| sessions | 2 clients at one session, one with every call, one that creates, deletes and refreshes it; a cache for one entry, quota 1, 1 crash | the cache and the index agree with the store once a session is at rest, a completed session stays so, but for calls that crossed as described below |
| quota | 2 clients with a session each of one agent, of which one is also deleted; quota 1, 1 crash | the same, and a creation that was not outrun leaves no more sessions open than the quota |
| clean-up | 1 client beside the clean-up goroutine at one session, 2 ticks, fair | the same, and an expired session is failed |
| roles | 2 administrators of one agent and of 2 built-in roles, 1 failing write, 1 restart | what a finished call answered is so in memory and in the store, unless changes overlapped or a write failed, and decides what is allowed |
| room | 2 clients, 2 agents, 1 restart | memberships survive; messages are accepted from members and only from them |
| evict | 3 memories, window 1 | the session keeps the window, and no eviction deletes a memory inside it |
| recall | 2 memories, a client that reads and deletes | the same beside readers and deletions |
| decay, fade | 1 memory, a reader, the decay | the steps of the decay |

The services share only the engine, under prefixes of their own, and the cache, whose
entries of other services can only be pushed out; therefore one runs at a time.
Nothing keeps callers of one session or administrators of one agent apart, in the code or in the
model, and some of what they do to each other the code does not repair. History variables say what, step by step, and
the properties hold for everything else:

* `crossed`: the record of the session was changed while another call held an older copy that it was about to put into
  the cache (`Get` between the store and the cache, `Create` and `Update` before it). A later change of
  the record with no such call about sets the cache right again.
* `torn`: a crash cut a creation or a deletion short between record and index, an `Update` wrote a deleted record back, or a
  deletion overtook the creation. Another deletion of the session sets it right.
* `outrun`: a call that judges a session it holds a copy of (`Heartbeat`, `TransitionState`, the clean-up), or the sessions of
  its agent (`Create`), and what it goes by is so no more, or was not when it read it: the session's state was changed, a session of
  the agent was opened, or the copy came from a cache that may be behind, or from an index that does not have a stored session yet.
  Such a call may write a transition that is not allowed, out of completed too, or exceed the quota.
* `rolesApart`, `listsApart`: a change of the role or the list began while another was between its two writes, or the write of a list
  failed. Then memory and store may end up different; a change that begins alone sets both right, and calls that meet this
  state count as `Unsure`. (`AssignRole` of a role the list in memory has already returns success without persisting anything.)

TLC finds each of these exceptions to be needed. One condition on callers remains: after a restart one call loads a room before others begin
(`LoadedAlone`; otherwise a join can be lost).

`data_services` chooses in its initial state:

| `data` | instance | shows |
|---|---|---|
| rows | 2 clients, an indexed table or not, 2 row ids (one stored as a string, one as a number), 3 values of which 2 differ in case, 2 statements on 1 or 2 rows | every row has its entries, whoever writes; as long as statements come one at a time, no entry is wrong and UNIQUE values stay apart |
| alone | any 3 statements one after the other, 1 failed write, 1 crash | the same, also through a backfill, `DROP` and what failures leave |
| schema | 2 tables, 3 prefixes, one client that creates, alters, drops and indexes, one that inserts, 4 statements, 1 failed write, 1 crash | prefixes stay apart, entries complete |
| filter | 3 rows with NULL, a missing column and two cases of a value, the last with one value in every heap; every set of indexes; every comparison from both sides, BETWEEN, OR; 1 or 2 conjuncts; ORDER BY | an index changes nothing but the order, and the order is the one asked for |
| page | the same with LIMIT and OFFSET, ORDER BY two columns | pages are in order |
| group | 3 rows with NULL, the text `<nil>` and a text that contains a NUL; 0 to 2 grouping columns, COUNT, SUM, MIN, MAX, AVG, HAVING | no row is lost or counted twice, no two groups are alike; where different values print differently the groups partition the chosen rows and the aggregates are theirs |
| join | INNER and LEFT, 2 rows and 0 to 2 rows, `=` and `<=`, WHERE on the right table | the pairs ON accepts, each once, and the left rows alone |
| keys | 2 indexes of which one name extends the other, 2 row ids of which one extends the other, texts that extend each other, negative numbers, every range | lookups return exactly the range, in order |
| calls | 2 clients, of which the second calls while the first is busy; 3 calls, 2 ids, payloads, 1 failed write, 1 restart | graph and store hold the same vectors |
| searches | up to 6 vectors, 3 calls one at a time, any levels, M = 2 | the nearest are found, in order |
| walks | 4 nodes, one without a record, any 3 edges, self-loops and parallel ones included | neighbours, k hops and paths are those of the edges |
| writes | 2 clients, of which the second calls while the first is busy, 2 nodes, 2 edges, each with two choices of ends; 3 calls, failures and crashes together; then a walk | entries match records, and a walk is exact wherever no edge is torn |
| lineage | 3 pieces of data, any sources, cycles included, depth up to 3 | trees reach what is upstream up to the depth, and no more |
| engine | 1 node of 3 members, 2 of them configured; 3 commands (set, delete, batch, add, remove; of the two values, which are alike, the first one set is always the same; node 1 stays), 1 failed write, 2 crashes | a node that is ready holds the values and the peers of the log |

These services share only the engine under prefixes of their own, so one runs at a time.
Two statements are the fewest in which one can overtake another at every step; three in sequence
let an index be built over rows that were changed, dropped or left by a failure; creating, dropping and
creating a table again beside an insert takes four. Two rows and one more value are what a
duplicate, a swap and a move need. With `EfConstruction` 6 and `MMax` 4, five or six vectors are where layer 0
prunes. Three commands are a write, a later one and a change between them; two crashes let a replay
be cut short and begin again. What the code does beyond the properties' conditions:

* **Indexes.** Several writers of one row can leave an entry of an older value (`executor.go:645`), so that only
  completeness holds with two. An `UPDATE` that moves a row loses a UNIQUE violation in a shadowed `err`
  (`executor.go:742`; `index_test.go:262` expects duplicates to be rejected) and writes no entries for the row. A
  row whose id is no string is neither backfilled nor deleted. A `DROP INDEX` that fails after
  the map was changed comes back, stale, after a restart. One that runs beside a `CREATE INDEX` of the same name erases the
  new index's entries (it lists them by name), so completeness is for indexes changed one statement at a time. After `DROP COLUMN` old rows cannot be updated.
* **Prefixes.** An insert that `DROP TABLE` overtakes leaves rows under a prefix which is given away
  again after a restart. A failed `ALTER TABLE` is in force until a restart.
* **Queries.** `BETWEEN`, `IN`, `LIKE` and `IS NULL` are never true without an index (`evalExpr` has no case for them, though
  `skills/andb/references/andb.md:168` lists them); `HAVING` with an aggregate call answers no rows (`andb.md:181`); a range bounded
  by NULL is unbounded through an index; `ORDER BY` on a column with a BTREE index replaces aggregation,
  joins and projection (`planner.go:265`); rows without the column are not in an index scan; sorting comes
  after projection, by columns that may be gone; groups go by the printed values joined by NUL (`executor.go:1248`), so NULL and the text `<nil>` share one, and so do
  two texts with a NUL in between and one that contains it; MIN starts afresh after a NULL and AVG counts NULLs; LEFT
  JOIN overrides bare names with NULL, and pads nothing when the right table is empty.
* **Keys.** -0 sorts below every other number and a text with a NUL byte among those it extends.
* **Vectors.** Updating the entry leaves it without links (`hnsw.go:417`, though `hnsw.go:94` says links are rebuilt);
  `Search` can meet an index that was emptied since it looked (`hnsw.go:184`); two calls on one id may
  leave graph and store with different vectors; inserting again without a payload keeps the old one.
  `SearchExact` is stated for graphs of up to `mMax` + 1 nodes (33 in the code), beyond which HNSW is approximate.
* **Graph.** An edge added again with other ends leaves its old entries, which mislead walks in both
  directions; records written in part, or by two calls at a time, keep or lose entries.
* **Raft engine.** A batch starts with the byte 2, which is also `LogAddPeer` (`engine.go:294`), so batches, and with
  them transactions and every row that SQL writes, fail on a cluster, although `docs/raft-review.md:36` lists them
  as supported; and a batch among the entries to replay makes every later start fail. A command whose write
  fails counts as applied on that node (`run.go:446`). A removed peer that is in `cfg.Peers` is back after a restart.

Five runs show that the code does otherwise than its documents say; each ends in the
counterexample that the finding in `PROJECT.json` describes:

| run | what the documents say | what the code does |
|---|---|---|
| `raft_lost_commit` | a write commits only when it is on a majority (`docs/cluster.md:7`) | a follower that deletes a clashing entry stores nothing in its place and answers with success; the leader counts it, and commits an entry that is on one node of two (`transport.go:351-366`) |
| `raft_skipped_on_crash` | a restart applies what was committed (`docs/raft-review.md:31`) | `lastApplied` is durable before `Apply` has run (`run.go:429`): a command that was committed never reaches the state machine |
| `raft_noop_stall` | the NoOp commits entries of earlier terms (`run.go:236`) | `advanceCommitIndex` stops at the first entry of an earlier term |
| `agent_no_decay` | importance decays in the background (`memory_enhanced.go:232`) | the decay reads through `Get`, which sets the access time to now, then skips what was just accessed |
| `raft_out_of_order` | writes are linearizable (`docs/raft-review.md:32`) | two batches are applied by two goroutines in either order: the state machine gets the second command first |

**Why one candidate in the replication runs.** With two nodes standing for election the
model reaches what the four runs show and more: a late vote reply lowers the term
(`run.go:107`, `run.go:191`), so two leaders of one term exist, a deposed leader appends, and a
proposal is answered for the entry of another leader. The hazards say so at
each line. The safety results are therefore stated for groups in which the timer of one
node expires before the others' (which is what Raft's randomised timers aim at),
across that node's crashes and re-elections, whatever is lost, delayed or reordered;
and separately what still holds when everybody stands (`raft_contest`).

**Bounds.** `MaxTerm`, `MaxLog`, `MaxCrash` stop elections, appends and crashes at the bound;
`MaxInFlight` is the number of outstanding AppendEntries calls per peer and `MaxBatch`
how many entries fit into a request of 1 MB. Two terms suffice for an entry of an
earlier term, a stale call and a re-election; three log entries for a NoOp, an
acknowledged entry and one behind it, so for a batch that ends inside the log; one
crash falls at every point of every handler. Three nodes are needed only for a
majority that is not everybody, so only `raft_replication` has three, and it starts after the
election (`Elected`, a state every undisturbed election ends in). The runs do not
check for deadlock because the bounds end every behaviour. `Electable` says in its stead
that the system does not come to rest without a timer.

**Fairness.** Weak fairness for every step of a goroutine that is ready (the Go scheduler
runs them), for timers and tickers, and for the delivery of a call between two
running nodes. Strong fairness for taking a proposal and for the tick: the run loop's
`select` picks at random among the channels that are ready, so neither is passed over
for ever although each is disabled while the loop is busy with the other. No fairness
for clients, crashes and lost calls. In the task queue, a worker calls `Dequeue` in a loop. The clean-up
goroutine and the decay come back for ever, and a call that has begun goes on.
Progress is checked with one candidate and two nodes: with three, a late answer to a
PreVote deposes the new leader (`run.go:107`), and progress then depends on another election.

## 4. What is proved

All for every value of the constants, under the assumptions named in the modules
(finite `Node`, `Nil` and `NoOp` different from the values they stand beside, bounds
that are naturals).

* `RaftProofs!TypeCorrect`: `Spec => []TypeOK`. One lemma per action (or family of actions); the
  log arithmetic (`Min`, `Max`, `ReachedFrom`, `AppendLoop`) is typed once, at the beginning. That
  a follower's commit index does not pass the largest index, that `next` never falls to
  0 and that a response's batch names an index are the parts that are not obvious.
* `RaftProofs!ElectionsHold`, `AlwaysElectable`: with any candidates, although terms can fall and `becomeLeader`
  compares no term. That some timer is armed is not inductive, since a candidate disarms its own. `ElectionInv`
  says instead that some node is down, armed, or holds an election in which nobody has voted for it
  (`NobodyVoted`): whoever votes is armed from then on, so if the last such election begins to succeed, its voter
  takes over. A vote is answered to the election it was asked in, or to none (`LiveCalls`).
* `RaftReplicationProofs`, under the hypothesis `Candidates = {c}` (section 3 says why): `ReplicationHolds`
  (`Spec => []ReplicationInv`), `CommitsOnMajority`, `AcksReplicated`, `NothingLost` (no step removes or replaces
  a stored entry or lowers a commit index) and `ImplementsCommittedLog` (`Spec => RefinesCommittedLog`). The
  cluster, the bounds, the calls that are lost or delayed, the crashes and `c`'s re-elections are arbitrary.
  `LogsArePrefixes` is not inductive by itself: `ReplicationInv` adds that every request in flight is a
  contiguous piece of `c`'s log (`RequestsFromLog`), that a peer stores what a response or `matchIndex`
  says it does (`AnswersHold`, `MatchHolds`), that a majority stores what `c` counts as committed, and
  that a proposal waits at the index of its own entry (`ProposalsMatch`). Each step either leaves
  all logs alone (`CalmSteps`) or lets one grow at its end. The refinement maps a step to the choice of new
  entries (`advanceCommitIndex` at `c`), to a node that learns of them, or to a stutter.
* `RaftApplyProofs`, whoever stands for election: `ApplyHolds` (`Spec => []ApplyInv`), `NeverAppliedTwice`,
  `NeverAnsweredTwice`. `AppliedBehind` says that what a running node has applied or is about to lies at or below
  `lastApplied`, which `collectApplyOps` moves as it takes an operation, and what one that starts has, at or below where its replay
  is, unless an earlier start replayed it and did not finish (`redone`): such an index is applied again, and no other. `OnePlaceEach` says that a command is in one place
  at most (a queue, a run loop, the proposals or the operations to apply of some node) and in none once answered.
* `RaftEngineProofs!EngineHolds`, `NodeFollows`: what a node that is ready answers reads from, and its peers,
  are those of the log, for any number of failures, crashes, replays and failed starts. `StateCommand` may be
  anything. A key and a peer are followed in the same way (`Follows`: of the commands that touch it,
  the last one applied decides, wherever a replay stands), so the lemmas are stated once, for any
  set of indices, and used for both.
* `AgentProofs!QueueTypeCorrect`: types, and the heap and the index name only stored tasks.
* `AgentProofs!NoTaskTwice`: no task is handed out twice. The invariant relates how far
  `Enqueue` has come to the heap and the count: a task is in the heap or handed out only after it
  was pushed, pushed once, and not both.
* `AgentProofs!NeverPendingAgainHolds`: from the same invariant, since a record is set to
  pending only while nobody can know the task.
* `AgentProofs!NoWakeUpIsLost`: with any number of enqueuers and consumers and one token, tasks
  never wait while every consumer sleeps and no token is on its way.
* `PermissionsProofs!AdminTypeCorrect`, `AnswersAlwaysSurvive`, `AnswersAlwaysDecide`: `AdminSpec => ...`, for any administrators
  at work on any agents and roles, any failing writes and any restarts. The
  invariant adds to the types that a call between its two writes is about to write what the other place holds (`CallsKept`),
  and that memory and store agree wherever no call is between its two writes (`RolesSettled`, `ListsSettled`), both but for the roles and
  lists of `rolesApart` and `listsApart`. What the checks decide then follows from where the answers are.
* `AgentProofs!RoomHolds`, `MembershipSurvives`, `SendersTold`: `RoomSpecAlone => ...`, which is `RoomSpec` with
  `LoadedAlone` at every step: after a restart one call loads a room before others begin. Any agents and
  clients, any number of restarts. `RoomInv` says that the process has one object of the room at most,
  that it is what is stored, that every call past its lookup holds it, and that agents were told what is stored.
* `AgentProofs!SessionsHold`, `CacheFollowsStore`, `IndexFollowsStore`, `JudgementsHold`, `QuotaAlwaysKept`,
  `CompletedStays`: `SessionSpec => ...`, for any clients with any calls at any sessions, the clean-up goroutine beside them, crashes, any
  quota and size of the cache. `SessionInv` says which steps of a call are about to mend the
  cache or the index (`Recaching`, `Relisting`), that what such a call, or one that fills the cache, holds is the record (`CallFits`), and that
  only while there is one do they differ from the store, all of it but for what is `crossed` or `torn`. A step
  either leaves the records alone (`StepFits`) or changes one (`ChangeFits`), and notes whom it crosses. `QuotaInv`
  carries what a call that is not outrun decided on to the moment it writes: the session is in a state that the transition may
  start from, and the open sessions of the agent are among those that the walk of its quota check has counted or has still
  to visit, so that the count it compares with the quota is not too low.
* `AgentProofs!MemoryHolds`, `WindowHolds`, `EvictsOnlySurplus`: for any number of memories, any window, any
  readers, deletions, evictions and decays. The index may hold more than the window while evictions
  run; `MemoryInv` says that of every set of listed memories too large for the window somebody
  will take one: a store whose eviction has not begun, one that has still to list them, holds all of them, or is
  about to delete one (`WindowRestored`). And a memory that an eviction purges has been overtaken by as many newer
  ones as the window holds, which stays so whatever others do (`Overtaken`).
* `TablesProofs!PrefixesStayApart`: `TablesSpec => []PrefixesApart`, where `TablesSpec` starts from any store
  in which tables have prefixes of their own and runs any statements with any arguments. The invariant
  `PrefixInv` says that memory and store agree on the prefixes (`Mirrored`), that those in use differ and
  are below the next one (`Allotted`), and, what makes a prefix safe to give away again after a restart, that
  all rows under a prefix no table has are strays (`Vacated`). That is disturbed by `DROP TABLE` alone, so the
  invariant follows it: one client at a time is between its lock and its end (`OneDrops`), and the rows it has
  not listed, or not deleted, were written by statements it overtook (`Emptied`). The remaining steps only move a
  statement on (`Calm`). TLC checked `PrefixInv` on the instances of `data_services` first.
* `TablesProofs!IndexesComplete`: `TablesSpecAlone => []IndexComplete`, where `TablesSpecAlone` is `TablesSpec` with one
  statement at a time that creates or drops indexes (`IndexesChangedAlone`); any number of clients write meanwhile.
  `Owing` is the set of rows an index ought to have an entry for and has not. `IndexInv` says that an
  index with such a row is not built or not quite dropped (`Completed`); that a write whose rows are ready puts, in the
  same batch, their entries in every index it listed, and that what it did not list it will mark
  (`BatchFits`, `WriterFits`); that a backfill holds in its snapshot, or will find, every entry its index owes (`Fills`);
  and that a restart loads no index but those in memory or left by a failed `DROP` (`IndexesMirrored`).
  It needs `PrefixInv`: a batch goes to the prefix its statement read first, which must not be another table's.
* `TablesProofs!IndexesSound`, `UniqueValues`: `TablesSpec => []IndexSound`, and `[]UniqueKept` if UNIQUE values are
  apart in the store that the process starts on. Both promise something until a statement begins beside another
  (`crowded`), whatever the statements, failures and crashes. `SoundInv` adds to the invariants above that until then one
  call at most is in progress, and what it knows is still true (`CallAlone`): the rows a writer has to change are as it
  found them (`TodoFits`), its batch drops the entries of the row's old value and puts those of a new one
  that the indexes, as they are, had free (`CheckedBatch`); a backfill has the rows there are (`FillerAlone`);
  `DROP TABLE` has its table's indexes before it and none behind it (`DropperAlone`); what `Manager.Drop` erases are all
  entries of the index (`EraserAlone`). Then no step leaves an entry that is false (`NoFalseEntry`). A UNIQUE
  value is compared with entries, not with rows, so it takes `Completed` as well: a row that is
  listed has an entry, and a value whose key is free is therefore in no such row.
* `GraphProofs!GraphHolds`, `EntriesFollowRecords`: `GraphSpec => []GraphIndexed`, where `GraphSpec` starts from any graph whose
  entries are whole and runs any calls of any clients, with failures and crashes. `GraphInv` says in which order the
  writes of a call still come (`CallFormed`: a record before its entries, the edges of a node before the node), and of
  each node and edge that is neither `torn` nor `stale` that one call adds it and puts precisely the missing entries of its
  record, or it is whole, or it is gone and deletions in progress drop what is left of it (`SettledAt`). A
  deletion of a node lists its edges, then reads and drops each; what it meets of others' writes is what `torn`
  and `stale` name. That a scan visits every number of a finite set (`AscendingSeq`) is proved on the way.

TLC checked every inductive invariant on the runs' instances, or on others like them, before it was
proved; `TypeOK` and `ReplicationInv` are invariants of the runs.

Only model-checked: liveness (`QueuedIsTaken`, `ClientsExpire`, `ProposalsAnswered`, `ReachesEveryone`; out of
the prover's reach) and what `Queries`, `IndexKeys`, `VectorIndex` and `GraphWalks` compute. Vector and graph walks are
recursive operators, which the prover does not take (`GraphAgrees` of the vector index is about insertions, which search
the graph so), and what `Queries` and `IndexKeys` compute would be proved by induction over rows and bytes, which is out
of its reach too.

## 5. What is not modelled

In the Raft node: the proposer's timeout and the capacity of `proposalCh` (1024); errors of Badger writes (of the log and of the four
persisted scalars, whose errors the code mostly drops); crashes inside a critical section. Membership, and an `Apply` that fails in `doApply`,
are in `RaftEngine`. Simplified:

* `startElection` reads term, log and peers in one step, before its first request;
* calls with equal content that have become late are one call;
* one `sendHeartbeats` goroutine started by a proposal at a time; no call is started
  to a peer that has `MaxInFlight` outstanding; a tick needs a peer with a free slot;
* a follower re-arms its timer in the critical section rather than after `doApply`;
* `ConflictIndex` is left out: the leader does not read it.

In the task queue: `GetTask`, `ListByAgent` and `Len`, which only read; a record is its status; a
task is enqueued once; `saveTask` is two steps in `Enqueue` and one elsewhere.
The hazards say what the model shows and no property forbids (a consumer that stays
blocked beside a queued task while another is busy, a cancelled task that runs, tasks
that a restart forgets).

In the agent services: errors of the engine, but for writes of role lists; `UpdateState` is modelled, HTTP's read-modify-write of a
session is not (the two calls it makes are). Of a session the model keeps its state and
the time of its update, of a memory the time of its access and whether it decayed, of a
role list the set. `BatchStore` (which writes neither the type index nor the cache and starts no
eviction), the `MaxMembers` of a room (stored and never compared with the number of members), long-term and working memories, embeddings and access counts, the copies `ShareMemory`
stores and the listing of messages are left out, and so are crashes in `Memory`; the clock
stands still during `StoreShortTerm`.

In the tables: the built-in tables (constant entries of the map, which DDL refuses), columns other than
one and their types and lengths, statements within a statement (`IF EXISTS` only turns an error into
nothing); in the runs one client at a time changes the schema. `CheckKey` is ready only while nobody holds the
lock of the table manager, `Rebuild` is the backfill's last look and its batch in one, and `CheckIndexes` lists the
indexes of a row once where an update lists them for the old and the new row. Inverted indexes with their tokenizer are not
modelled, and `LookupTerm` and `Match` with them. In the queries: functions, arithmetic and `AND`/`OR` nested otherwise than as
conjuncts of alternatives, `COUNT(DISTINCT)`, vector distances, column types other than one
per column, a text literal against a number, `SHOW` and `DESCRIBE`, the slow-query ring. In the keys: reverse
scans (nothing calls them). In the vector index: the map of indexes, which no lock guards; the metrics,
of which `L2Distance` on a line stands for all; calls that only read. In the graph: lists by type, name and
decision, which only read; a traversal during which others write.

In the Raft engine: the buffer of a write transaction, which its `Commit` sends as a batch; reads; the snapshot
stubs; failing writes of commit and applied index, whose errors the code drops; the `nextIndex` of a new peer, and the quorums of a
changed membership (the peers of `Raft` do not change). NoOp entries change nothing and are left out of its log.

Decisions, audit and RAG append records and scan them by prefix: no state is read
and written back, and nothing is shared. The SQL front end turns text into a syntax tree.
Models, utilities and configuration have no state; the APIs, commands and SDKs decode a request,
call one component and encode its answer; the user interface and the installers present and package.

## 6. Plan

1. **Proofs**: `GraphAgrees`, once the search of the vector index is in a module of its own.
2. **Membership**: the peers of `RaftEngine` as state of `Raft`, and what quorums of different nodes then commit.
3. **Agent services**: `ShareMemory`, long-term and working memories; an abstract
   store without a cache which sessions implement as far as no calls crossed.
4. **SQL**: transactions of several clients over `Queries` and `Tables` together; inverted indexes.
