# Reclaim Fabric in TLA+

Reclaim Fabric is a coordinator that decides which stored objects may be
physically deleted, and deletes them so that neither a crash, nor an error, nor a
concurrent request loses content somebody still refers to. This directory holds
TLA+ modules for its coordinator, its nodes and the connections between them, the TLC
configurations that check them on small
instances, and proofs checked by TLAPS for instances of any size.

File references are relative to the repository's `src/` directory
(`coordinator.rs` is `src/src/coordinator.rs` in `PROJECT.json`).

## 1. Inventory of the system

| Part | State | Operations | Talks to |
|---|---|---|---|
| Object lifecycle (`lifecycle.rs`, `object.rs`) | state and flags of an object, durability class | table of legal transitions, minimum number of valid copies | used by every handler |
| Lineage (`lineage.rs`) | typed edges between objects | `add_edge`, `remove_edge`, searches, `dependency_safe`, `validate` | asked by reclaim, validated by recovery |
| Store (`persistence.rs`) | SQLite tables: objects, replicas, dedup, archives, lineage, journal, reservations, attempts, coordinator (the claim), audit, policies, decisions, failures | one statement or one transaction per call | everything |
| Registration and sharing (`coordinator.rs` `create_object`, `dedup.rs`) | reference count per content hash and backend | acquire or write-and-insert each payload, publish the object, compensate on error | backends |
| Flags (`touch`, `pin`, `unpin`, `set_protected`) | flags in the object row | read the row, write the whole row | |
| Verify (`verify`, `integrity.rs`) | validity of replica rows | read each payload, invalidate every owner of a bad one | backends |
| Archive (`archive`, `archive.rs`) | archive records, archive payload | write payload, insert record, move the object; compensate on error | archive backend |
| Compress, restore (`compress`, `restore`, `compression.rs`) | replica rows, payloads | replace a payload by another | backends |
| Reclaim (`reclaim`, `abort_reclaim`, `indeterminate_reclaim`) | journal, reservation, attempt | reserve, validate, plan, delete, check, commit | all of the above |
| Recovery (`recovery.rs` `reconcile_store`) | open journal entries | roll back or commit each, expire, repair counts, validate lineage | store, backends |
| Process and authority (`Coordinator::open`, `with_inner`, heartbeat thread, `cli.rs` `run_coordinator`) | `authority_lost`, `shutdown`, claim with epoch, guards of active objects, payloads and recovery | claim, heartbeat, fence, shut down | store |
| Nodes (`node.rs`) | node registry in memory, routes to node-hosted backends | register, heartbeat, epoch check | transport |
| Transport (`transport.rs`, `protocol.rs`) | connections | framing with CRC, connection limit, drain at shutdown | coordinator |
| Policy, economics, pressure (`policy.rs`, `economics.rs`, `pressure.rs`) | rules, scores, levels | verdict on a reclaim | asked by reclaim |
| Audit (`audit.rs`) | append-only log | append, list | |

Every request runs on its own thread. Threads share the store behind one mutex
(`with_inner` takes it for one closure at a time), the backends, and three sets of
guards in memory: active objects, active payloads, active recovery. **A handler is
not a transaction.** It is a sequence of closures, a closure is a sequence of SQLite
statements, and between any two of them another thread may run (between closures), a
statement may fail, or the process may crash.

What is hard in this code, and what the properties are about:

* *Shared payloads.* Registrations, reclaims and compensations race for the
  reference count of one payload; the last reference decides whether bytes go.
* *Copies read before and written after.* `touch`, `pin`, the transitions of
  reclaim, its abort and recovery's rollback write whole object rows from copies.
* *Partial failure.* An error may leave reclaim at each of its steps, with four
  different consequences (refused, aborted, returned as is, fenced).
* *Crashes.* The journal must be enough to finish or undo any prefix of a reclaim,
  and of a recovery that crashed itself.
* *Authority.* `authority_lost` is loaded before the mutex is taken, so one more
  closure of each thread may run after the coordinator was fenced.
* *Waiting.* Threads hold an object guard while they poll for payload guards.
* *Take-over.* A process whose claim went stale is superseded while it runs; only its
  next heartbeat, its own or that of `with_inner`, tells it.
* *Nodes.* A node learns of a new coordinator by the errors of the old one, and the
  coordinator of a node's death by silence; names, leases and epochs must agree in the end.
* *Late replies.* A call that timed out leaves a reply, or half of one, in the stream.
* *Moving content.* `compress` and `restore` move an object from one shared payload to
  another by four statements and two backend calls, and undo any prefix of them.

`PROJECT.json` lists each hazard at its line with the properties that would notice
it going wrong.

## 2. Modules

```
Lifecycle   Lineage ---- LineageGraph ---- MCLineageGraph
     \        /
   CoordinatorState                         Fencing
    /      |      \                        /       \
ObjectOps ReclaimOps RecoveryOps    (EXTENDS)     (INSTANCE ... WITH)
    \      |      /                   Fabric          Authority ---- MCAuthority
     Coordinator                     /      \             |
          |                    MCFabric  Fabric_proofs  Authority_proofs
CoordinatorProperties ---- MCCoordinator
          |                         Transport ---- MCTransport, Transport_proofs
  Coordinator_proofs
          |                         Transform ---- MCTransform, Transform_proofs
   Recovery_proofs
          |
   Payload_proofs
          |
   Reclaim_proofs
```

`Fencing` says what the claim on a store promises. `Authority` is the claim as the code
has it, and is shown to implement `Fencing`; `Fabric` composes several coordinators, of
which it knows only what `Fencing` says, with nodes. `Coordinator` is the inside of one
process, `Transform` the part of it that changes the form of an object's content.

| Module | Models |
|---|---|
| `Lifecycle` | the transition table, durability classes, the route a reclaim takes through the states |
| `Lineage` | the searches of `lineage.rs` as layers of a breadth-first search, the cycle guard, `dependency_safe`, Kahn's algorithm. Constant level, recursive functions only |
| `LineageGraph` | the stored graph as clients build it, and reference definitions that do not search |
| `CoordinatorState` | the variables, their types, the store's writes, the guards, `with_inner` |
| `ObjectOps` | register, flags, verify, archive, lineage requests |
| `ReclaimOps` | `reclaim`, `abort_reclaim`, `indeterminate_reclaim` |
| `RecoveryOps` | `reconcile_store` |
| `Coordinator` | errors of store and backends, loss of authority, crash, shutdown, start; `Init`, `Next`, `Spec` |
| `CoordinatorProperties` | what the coordinator promises; `FairSpec` |
| `Fencing` | abstract: epochs are granted once, a closure is admitted only under the latest |
| `Authority` | the claim row, `Coordinator::open`, the heartbeat thread, `with_inner`, `run_coordinator` to its end; several processes, each with threads |
| `Fabric` | the node registry (`node_register`, `node_heartbeat`, `node_report_pressure`, `retire_stale_nodes`, `node_for_backend`, `node_operation`) and the node process (`Node::start`, `run_heartbeat_cycle`, `build_handler`) |
| `Transport` | `Server::serve`, `request_shutdown`, `handle_connection`, `Client::call` |
| `Transform` | `compress`, `archive`, `restore` and their compensations, for objects with the same content |
| `Coordinator_proofs`, `Recovery_proofs`, `Payload_proofs`, `Reclaim_proofs` | the theorems about `Coordinator`, each module building on the invariants of the one before |
| `Authority_proofs`, `Fabric_proofs`, `Transport_proofs`, `Transform_proofs` | the theorems about the other components |

### State of the coordinator

| Variable | In the code |
|---|---|
| `object`, `rows`, `dedup`, `arch`, `edges` | tables objects, replicas, dedup, archives, lineage |
| `phase`, `entry`, `plan`, `resv`, `attempt` | journal row (phase, prior object and deletion lists, planned physical deletions), reservation, attempt |
| `blob`, `ablob` | payloads on the backends (absent, ok, corrupt); the object's archive payload |
| `mode`, `lost`, `stop`, `archiveUp` | the process: down, starting, up; `authority_lost`; `shutdown`; whether an archive backend is configured |
| `grace` | threads that loaded `authority_lost` before it was set and have not yet used it |
| `pc`, `loc` | the next step and the local variables of each thread's handler; `loc[w].obj` and `loc[w].held` *are* the object and payload guards |
| `rpc`, `rec` | the same for `reconcile_store` |
| `budget` | faults, crashes and corruptions still allowed (only bounds the environment) |

One action is one SQLite statement (or transaction) or one backend call. A
statement that starts a closure takes the mutex and passes the authority check
(`Enter`); further statements of the same closure (`ClosurePCs`) run with the mutex
held (`Within`), but an error or a crash may come before each of them. Every step
that calls the store has a failing twin (`StatementError`, `EntryHeartbeatError`,
`AuthorityError`); where the handler goes then is `ErrorTarget`, read off the `?`
and the `match` at each call. Failing backend calls (`WriteError`, `DeleteError`,
`ReadError`, `VerifyReadError`, `ArchiveError`, `RecBackendError`) may or may not
have had their effect.

### The other modules

**`Authority`.** `row` is the row of table coordinator; its time stamp is `fresh`, `stale`
or `released` (the code's `last_seen_ms = 0`), and `GoesStale` is the clock. A coordinator
process is one boot: it passes the `mode`s in order and ends in `gone`. `mine`, `lost` and
`hb` are `epoch`, `authority_lost` and the heartbeat thread. A thread is `idle`, `busy` with
a request, has `loaded` the flag, is `inside` a closure, or has `applied` its statements:
every point of `with_inner` at which the row may change under it. `Holds` is the `WHERE`
clause of the heartbeat and of the release. Recovery's statements (`RecoverStatement`) ask
nobody; its `payload_exists` calls (`RecoverAsks`) and its first and last step do. A shutdown by
Ctrl-C leaves the heartbeat thread running until the release, one by a `SHUTDOWN` request ends it at
once (`coordinator.rs:434`): `Drain` allows both.

**`Fabric`.** `reg[c][n]` is the registration of node boot `n` with coordinator `c`: none,
fresh, or expired, that is, older than the heartbeat timeout. The map is in memory, so
that `Start` begins with an empty one and `End` forgets it. A node has one `call` under way;
`late` holds requests whose node has given up or was killed and which the coordinator still serves. A
coordinator whose heartbeat failed is `fenced`: it runs, accepts connections and refuses every call,
like one that is no longer current. A
cycle is register (if need be), beat, report pressure, on one connection; every error but that
of the report makes the next cycle register again. `ops` are operations on their way to a
node; they arrive in any order and after any delay.

**`Transport`.** A frame is a request id. `listed` is the server's list of threads, `fresh`
the connection that has a thread and is not in the list yet, `cut` the sockets that
`request_shutdown` shut down. An error of the listener during a shutdown begins the drain
(`AcceptFails`), one of an accepted socket's options ends `serve` in any case (`SocketFails`). `replies` keeps what a client has not read, a half-read frame
as its `rest`.

**`Transform`.** `refs` are the dedup rows of the plain and of the compressed content,
`rows` replica rows with ids that are never used again, `records` archive records in order, `blobs` archive
payloads by object and replica. `op[o]` is the handler that has the object guard of `o`, with
the flags that the code keeps to know what to undo (`done`, `wrote`) and its payload guards.
`InClosure` is the lock. `Crash` includes the recount of references at the next start.

### Abstractions, and why they are sound

* A payload is one content hash on one backend, the key of the dedup table. An
  object has at most one replica row per payload; its archive records share one
  archive key, which reclaim deletes in one step. In the code the key contains the replica id
  (`coordinator.rs:2311`), so records of two replicas have two keys, of which a failure may
  delete one: for `Coordinator` that is the same mixed presence as with two payloads. Hashes, sizes and keys are otherwise not represented; a payload is
  intact or corrupt. Replicas with an empty hash are left out.
* `begin_object_operation` up to `create_reclaim_reservation` is one action
  (`Reserve`): the object guard is held throughout, and the only thing another
  thread can do to the object meanwhile, invalidate a row, may as well come after.
* Policy verdict, `force` and retention can only refuse a reclaim before anything is
  written; a refused request is one that does not happen. The same holds for field
  validation.
* The id of a registration that failed is not used again while its rows are there.
* Recovery processes open entries in any order: the code sorts by creation time in
  milliseconds and then by a random id.
* Recovery restores archive records one by one under the journal's ids; with one
  key per object this is the maximum of the two numbers.
* `RecExpire` is one action for several statements; by `JournalCovers`, which is
  proved, it never finds anything to expire.
* Audits, decisions and failure records are written and never read back by these
  operations. The generation of an object is fixed.
* The payload poll notices lost authority without `grace`: a poll writes nothing.
* `Exit` acts with requests in flight: the server's drain deadline ends them.
* In `Coordinator` one process exists at a time. That a second one takes over while the
  first still runs is `Authority`; what a superseded closure may still write is
  any suffix of its statements, which `Coordinator` covers by `grace` and by crashes.
* `Authority` leaves out what closures do, and clocks that differ between machines: the
  store is one SQLite file on one machine.
* In `Fabric` a request is served in one step: its handler is one closure of `with_inner`.
  The audit entries after it may fail (`AuditFails`). An operation is let in and then executed
  on the node's backend; the model ends where it is let in. The epoch a node has before its
  first registration is `u64::MAX` in the code and 0 here: no coordinator has either.
* In `Fabric` an address leads to any coordinator that is up: two processes cannot listen on
  one address, but the operator may move it. The node itself resolves one address at its start
  (`node.rs:118`) and keeps to it.
* `Lineage` computes a search as the closure by layers. The queue and the set of seen nodes of
  `lineage.rs` are not there, so a mistake in the order of the traversal, such as the one the
  comment at `lineage.rs:220` guards against, cannot be expressed; what is checked is the rule.
* In `Transport` every connection has a client of its own. `Heartbeat` frames exist in
  `protocol.rs` but nobody sends them. A corrupt or oversized frame ends the connection like
  a slow one (`ThreadSlowFrame`). A frame is read in one step or not at all: a peer that sends
  a byte at a time (`ARCHITECTURE.md:376`) is seen as silent until its frame is there. A frame
  with a valid checksum and bad JSON is answered by an error with id 0 and the thread reads on
  (`transport.rs:674`); the clients of this code never send one, and it is left out.
* `Transform` has one hot backend, on disk, where a payload survives a crash. A memory
  backend loses its payloads at a restart, which the code leaves to `verify`. Hash checks of what is read
  pass: payloads do not rot here (they do in `Coordinator`). Compression that does not pay
  refuses before anything is written. The latest archive record is the one appended last; the code
  orders by creation time and then by id, so a clock that is set back between two archives of an
  object would make the older one the latest. The replicas that `compress` replaces share one
  dedup key, so its error for keys that disagree (`coordinator.rs:2113`) cannot happen.
* `Transform` and `Coordinator` share no state: in `Coordinator` an object keeps the payloads
  it was registered with. An object under `compress` or `restore` is under its object guard, so that reclaim
  and recovery of that object do not run; the payload guards, whose use by reclaim
  is in `Coordinator`, exclude reclaims of objects with the same content.

## 3. Runs

| Run | Instance | What it checks | Distinct states |
|---|---|---|---|
| `lineage_graph` | 4 nodes, `DEPENDS_ON` and `SUPERSEDES` | no sequence of additions and removals closes a cycle over edges of any kinds (`Acyclic`); `validate` accepts exactly the sound graphs among all graphs one row away (`ValidateExact`); `dependency_safe` blocks exactly for a live, non-reconstructible node reachable over `DEPENDS_ON` alone (`DependencyRule`); the searches agree with the least closed set (`SearchesAgree`) | 2,782 |
| `reclaim` | 2 objects with the same content, not yet registered, 2 threads, 2 attempts, 1 failed statement anywhere in a registration, in a heartbeat or where reclaim aborts or fences, 1 failed backend call; flags, edges, 1 crash and `RECOVER` on request, or 1 payload that rots and is verified | `RefcountCovers`, `LivePayloadPresent`, `LastReferenceOnly`, `JournalCovers`, `OpenJournalOwned`, `ReclaimedOwnsNothing`, `FlaggedNeverReclaimed`, `FlagsOnlyByRequest`, `PhysicalFailureFences`, `DependentsKept` | 1,254,199 |
| `recovery` | 2 objects sharing two payloads, 2 crashes, 1 failed statement anywhere in recovery or in reclaim outside its physical phase, up to the one by which an abort closes the reservation, 1 unreachable backend; `RECOVER` on request | `OneOpenJournal`, `ReclaimedTerminal`, `RecoveryEstablishes`, `RealityWins` | 393,823 |
| `durable` | a critical object with two copies shares one with an ephemeral object; archives; the archive backend may be missing after a restart | `DurableCopiesKept`, `DurableNeverReclaimed`, `ArchiveBacked` | 1,582,000 |
| `liveness` | 2 objects sharing two payloads, 2 threads, 2 attempts, shutdown at any time, 1 failed statement anywhere in reclaim, recovery or a heartbeat | every request returns (`RequestsReturn`); an object stays pending only if its entry was left open or recovery finds mixed presence (`PendingResolved`); only an error returned by `?` leaves an entry open (`LeftOpenOnlyUnaborted`) | 171,425 |
| `authority` | 2 processes with 1 thread, 2 pauses of a live holder beyond the stale window, 2 faults (kill, failed heartbeat, failed start) | the claim implements `Fencing` (`FencingImplemented`); a superseded process winds down (`SupersededWindsDown`); a claim is given back between closures only (`ReleasedBetweenClosures`); a crash does not lock the store (`AuthorityRecovers`); a shutdown ends (`ShutdownEnds`) | 65,471 |
| `fabric` | 2 coordinators, 2 boots of one node; four mixes of events (`MCFabric`): a boot is killed, a reply or audit entry is lost or a coordinator fenced, a live node is not heard; 2 operations under way | one registration per name and no orphan pressure (`RegistryConsistent`); a node lets in operations in the order of epochs (`OperationsInEpochOrder`); nodes follow the coordinator (`NodesFollow`) | 279,500 |
| `transport` | 2 clients with 2 calls each, room for 1 connection, 1 timeout, 1 fault (accept or socket error, panic, drain deadline) | replies match their calls (`ReplyMatches`); `serve` returns Ok only when drained (`OkMeansDrained`); at most one more request after shutdown (`OneMoreRequest`); shutdown drains without the deadline (`ShutdownDrains`) | 916,884 |
| `transform` | 2 objects of the same content, 4 replica rows and 2 archive records each, 1 failed statement, 1 failed backend call, 1 crash | no row without payload (`PayloadOfEveryRow`); exact reference counts outside the guards (`RefcountExact`); a copy is lost only in a crash inside the swap of rows (`CopyLostOnlyInSwap`); an archived object can be restored (`ArchiveRestorable`) | 544,822 |

Three further runs expect a violation (section 5). `LineageGraph`, `Fabric`, `Transport` and
`Transform` state a `TypeOK` of their own that holds in these runs as well; those of the
coordinator and of `Authority` are proved.

**Why the bounds are enough.** Sharing needs two objects and one payload; a race
needs two threads; a second reclaim of an object after a failed one needs two
attempts; a crash during the recovery from a crash needs two crashes. Where the failed
statement may be differs from run to run. In `liveness` it is any of reclaim, recovery or a
heartbeat, in `transform` any at all. In `reclaim` it is any of a registration or a heartbeat,
or one where reclaim aborts or fences, and not one whose error reclaim returns by `?`
(`failure_rolled_back` shows what follows, and `liveness` has all of them). In
`recovery` it is any of recovery, and of reclaim those before the physical phase with the ones of
`abort_reclaim` up to the closing of the reservation; the two after that are what
`reclaimed_terminal` is about. Two payloads per object appear where the number of
copies matters (`durable`) and where some planned deletions can be done and others not
(`recovery`, `liveness`); in `liveness` two threads also wait for the guards of the same two
payloads. The constraint `RotApart` keeps two groups of events of `reclaim` apart, which are about
different properties: `verify` runs only after a payload has rotted, and from then on nothing crashes or
recovers and no flag or edge is set; `durable` has `verify` next to crashes. Threads and attempts are interchangeable, in
`transform` the objects, and the runs without liveness use that symmetry. A take-over needs two processes and two boots of a node
stand for its restart; processes, boots and connections are numbered in the order they start
instead. One thread per process is enough for the lock's part in `authority`: the
theorems say so for any number. `fabric` splits its events into mixes because each of
its hazards needs one or two kinds of them, and all at once exceed the time of a run. Four
rows let an object be compressed, restored and compressed again. `shutdown` is in every set of requests of the coordinator: one
whose clients have nothing left to ask is not a deadlock. The other modules really may stop
(every process gone, every call made), so their runs do not check for deadlock; that
they do not stop early is what their liveness properties say.

**Fairness.** `FairSpec` has strong fairness of each thread's `WorkerStep` (a thread
waits for the mutex, which it may find taken again and again; the operating system's
mutex does not starve it for ever, and the poll for payload guards gives up after 30
seconds, so a thread is never disabled for good), and weak fairness of recovery, of the
exit of a process told to stop, and of the restart of one that is down (the
operator's supervisor). Faults, crashes and requests are not fair. `PendingResolved` names the two
ways in which an object stays pending for ever, and each was seen to be needed. `LeftOpen`: the
coordinator serves on with the entry of a reclaim that has returned, after an error returned
by `?` (`coordinator.rs:1703`), or because a failed heartbeat took its authority away without
requesting a shutdown, so that it refuses everything until somebody ends it. `MixedPresence`: the
process was stopped between two deletions, and at every start recovery finds one payload gone
and one there and keeps the entry open (`ARCHITECTURE.md:372`).

The fairness of the other modules: in `Authority` the clock moves (a claim nobody refreshes
goes stale), `open` and `run_coordinator` go on, a supervisor starts a process again that exits
because its claim was refused, a closure ends, and a handler, which asks for the lock a
bounded number of times, comes to its end (strong, as it is `busy` only between closures). In `Fabric`
the threads of both sides go on, the lease of a silent node passes, and the address a node
is given leads it to the coordinator that serves again and again (strong, per pair); that a live
node stays unheard, lost replies and operations are not fair. In `Transport` threads are
scheduled and their socket reads time out; `ShutdownDrains` counts neither on the drain
deadline nor on the idle limit nor on any client. `Transform` states no liveness: its handlers are
straight lines, and the one wait in them is the one of `liveness`.

**Conditions that are part of a property.** `ArchiveBacked` is stated for behaviours
without failed statements or backend calls: the compensation of a failed `archive`
deletes the archive payload even if an earlier record of the object refers to the same
key (`coordinator.rs:2349`). `PhysicalFailureFences` is checked with the archive
backend configured: if it is missing when reclaim reaches its archive deletions
(`coordinator.rs:1848`), the error is returned with the entry open in
`PHYSICAL_STARTED` and the coordinator keeps serving.
`OpenJournalOwned` and `FlagsOnlyByRequest` hold in `reclaim` for every statement whose error reclaim handles by
aborting or fencing; for those it returns as they are see section 5. `OneOpenJournal` and
`ReclaimedTerminal` are checked without failures of the two statements of `abort_reclaim` that
follow the closing of the reservation: one such failure, in the abort after a refused wait for the guards, breaks the
first, and with a crash the second (`reclaimed_terminal`).
`PayloadOfEveryRow` and `RefcountExact` hold for one failed statement and one failed backend call; for
two see section 5. `NodesFollow` exempts a node while another running node has its name:
the coordinator refuses it, as it should.

Every property has a mutant in `PROJECT.json`: a small, plausible change to a mapped
definition under which TLC finds the property violated. The mutated forms stand beside
the originals, marked "Mutant".

## 4. Proofs

### The coordinator

The theorems about the coordinator hold for *every* finite set of objects,
payloads, threads and attempts and every number of faults, crashes and corruptions at any step, from
`ConstantsAssumption` of `CoordinatorState` (which each TLC run evaluates). Each
invariant below was model-checked, with more faults than the runs allow, before it was proved.

**`TypeCorrect`: `Spec => []TypeOK`** (`Coordinator_proofs`). The type invariant alone
is not inductive: recovery writes through `entry[rec.att]` and a registration through
`loc[w].cur`, which may be `None`. `TypeInv` adds that recovery has an entry whenever it
is at a step that uses one (`RecoveryHasEntry`) and a registration a payload
(`WorkerHasPayload`). There is one lemma per group of actions and one step per
action; `StillTyped` carries what an action leaves alone.

**`JournalAlwaysCovers`: `Spec => []JournalCovers`** (`Coordinator_proofs`). An open
reservation or attempt has an open journal entry, and a `RECLAIM_PENDING` object one
with an open reservation, whatever fails. The inductive invariant `JournalInv` adds

* `GuardsExclusive`, `RecoveryExclusive`: no two threads at one object, none while
  recovery runs or before the process serves. Both follow from
  `begin_object_operation` and `begin_recovery`;
* `WorkerOwns`: a thread in a reclaim has an attempt, created for its object;
* `WorkerOrder`: the copy a handler writes back is not pending (for the flag
  requests: is in the state the object still has), and object, reservation and
  attempt are closed, in this order, before the steps that come after them;
* `RecoveryOrder`: the same for recovery;
* `EntriesKnown`: what an entry restores is never a pending object. `Reserve`
  preserves it *because* of `JournalCovers`: a pending object would have an open
  reservation, which reclaim refuses.

`FrameKeeps` reduces a step of one thread to what it does to its own object and
attempt; `Disjoint` (two threads share neither) is why that is enough. Most steps
touch neither objects nor journal and go through `QuietMove` and `RecoveryQuiet`.

**`Recovery_proofs`: what recovery may conclude.** Five theorems rest on `RecoveryInv`, which
adds to `JournalInv`

* `EntrySound`: an entry is made only for a class that needs no copies and for an object that is
  neither flagged nor `RECLAIMED`, and has planned deletions only from
  `start_journal_physical` on;
* `ReclaimSound`: a reclaim knows on which side of `start_journal_physical` its entry is, and
  nobody has flagged its object since the prechecks;
* `DecisionSound`: what the backends answered when recovery took up an entry is still true at
  every later step for that entry;
* `RecoveryCovers`: unless recovery has reported an error, an open entry is in the queue or at
  hand, and the counts are exact once they are repaired;
* `Fenced`: an entry in a physical phase belongs to a reclaim in progress, or authority is lost and
  no thread that may still write has the object.

`WorkStep` and `RecWork` say what any step of a thread, or of recovery, may do at all;
`WorkKeeps` and `RecWorkKeeps` show once that such steps keep the invariant, and every action is
shown to be one.

* **`NoDurableReclaim`**: `Spec => DurableNeverReclaimed`.
* **`RecoveryFollowsReality`**: `Spec => RealityWins`. Recovery commits only with every planned
  payload gone and rolls back only with every one there.
* **`StartsReconciled`**: `Spec => RecoveryEstablishes`. A process that begins to serve has no open
  entry and exact counts.
* **`NoFlaggedReclaim`** and **`ReclaimErrorsFence`**: `FlaggedNeverReclaimed` and
  `PhysicalFailureFences`, for `~ArchiveMayVanish`. The hypothesis is needed: if a restart finds no
  archive backend, `ArchiveMissing` returns with the entry in `PHYSICAL_STARTED` and the
  coordinator keeps serving, so the object can be flagged before recovery commits the entry.

**`Payload_proofs`: shared payloads and the records of an object.** Its theorems are for a
coordinator that gets no RECOVER request (`"recover" \notin Requests`). Such a request returns its
report and goes on serving even if a statement of recovery failed, say between the row of a
rollback and the repair of the counts; with several faults TLC then finds `RefcountCovers` and
`ReclaimedOwnsNothing` violated. At the start of the process the same failure keeps it down.

* **`CountsCoverRows`**: `Spec => []RefcountCovers`. `PayloadInv` says for each step of a handler
  which payloads it has the guards of (`Guarded`), which rows are there (`RowsThere`) and which
  payloads nobody else refers to (`Unreferenced`), and for each payload that its count covers its
  rows, with one to spare while a handler is between the reference and the row (`Covered`,
  `CountedPCs`). Guards of two threads are disjoint, so a step changes the counts of payloads
  that no other thread is at (`PayloadStep`, `StepKeepsPayloads`).
* **`LastReferenceDeletes`**: `Spec => LastReferenceOnly`. Whoever changes a payload has it at
  hand (`Touches`), and what it has at hand only its own object refers to (`OnlyOwner`).
* **`ReclaimedHoldsNothing`**: `Spec => []ReclaimedOwnsNothing`. A reclaim deletes the records its
  *entry* lists, so the entry has to list all the object has. The hard case is a second open
  entry of the same object, which an abort that failed half way leaves: `CommitTakes` says that an
  entry in a physical phase also lists whatever a rollback of any other entry of the object
  could bring back, and `RollbackGives` (an entry left before its physical phase lists no more than
  the object has) is why that is true when an entry becomes physical. `Holds` and `RecoveryHolds`
  carry the facts from step to step of a reclaim, a registration, an archive and recovery.
* **`DurableKeepsCopies`**: `Spec => []DurableCopiesKept`, for `MaxCorruptions = 0` (rot destroys copies
  whatever the coordinator does). `CopiesInv` is the property and its two reasons: an entry is made
  only for an object whose class needs no copy, so neither a reclaim nor recovery deletes rows
  of any other, and a payload some row points at is deleted only from the plan of such an entry
  (`RecoverySpares`); and a registration that is about to publish has a row and an intact payload for every target.

**`Reclaim_proofs`: the reclaim transaction against everything else**, also for a coordinator that gets
no RECOVER request.

* **`NoSecondJournal`**: `Spec => []OneOpenJournal`, if the statements of `abort_reclaim` that close the
  attempt and the entry do not fail (`{"abort_att", "abort_jrnl"} \cap FaultSites = {}`); every
  other statement may, any number of times. The hypothesis is needed: after such a failure the reservation
  is closed and the entry is open, and a second reclaim is accepted (section 5). `SingleInv` adds that
  an open entry has an open reservation, or its object is `RECLAIMED`, or its reclaim is still at
  work (`Accounted`, `Reserved`), which is what makes `Reserve` refuse.
* **`ReclaimedIsTerminal`**: `Spec => ReclaimedTerminal`, under the same hypothesis; the run
  `reclaimed_terminal` refutes the property as soon as a statement of `abort_reclaim` may fail.
  `TerminalInv` says that once something has been taken from the object of an open entry (`Taken`: it
  is `RECLAIMED` or a listed row is gone) the planned deletions are all done (`Finished`), so that
  recovery commits the entry, and stay so (`Sealed`: its reclaim holds the payload guards, or
  authority is lost and nobody holds them). `Deleted` carries this through the steps of a reclaim.
* **`RowsHaveTheirPayload`**: `Spec => []LivePayloadPresent`, under the same hypothesis. `PresentInv`
  says that a row's missing payload is in the plan of an open entry (`Backed`), that a registration adds a
  row only when it has written and read back the payload (`Written`), and that recovery closes a
  committed entry only without rows (`RecClosePCs`). A reclaim closes its entry only when its rows are gone
  (`AfterKeeps`); recovery adds no row, since from the object of an entry it rolls back nothing has been
  taken (`RecoveryRows`), and rolls back only with the planned payloads there (`DecisionSound`).
* **`LeftOpenByReturnedErrors`**: `Spec => LeftOpenOnlyUnaborted`, with no hypothesis on which statements
  fail. A reclaim that returns with authority has closed its entry, or is past the start of its physical
  phase, or has just met a failed statement of `UnabortedPCs`: of the transitions, the `VALIDATED` update,
  the planning closure or `abort_reclaim`. That the code does leave entries open there is the run
  `failure_rolled_back`; the theorem says that it does so nowhere else. `BeforeReturns` goes through the
  steps: every other error goes to the abort, the abort closes the entry, and the planning closure finds a
  count for every row because counts cover rows (`PlanFindsCounts`).
* **`OpenEntriesOwned`**: `Spec => []OpenJournalOwned`, if the statements of `UnabortedPCs` do not fail
  (`UnabortedPCs \cap FaultSites = {}`) and for `~ArchiveMayVanish` (see
  `ReclaimErrorsFence`). Both hypotheses are needed: each of these failures leaves an entry that nobody owns. Recovery lets a process serve only with no entry open, and a reclaim returns with its
  entry closed or authority lost (`ReclaimReturns`).
* **`FlagsSetByRequest`**: `Spec => FlagsOnlyByRequest`, under the same hypotheses. `archive`, reclaim, abort and
  rollback write a whole object row from an earlier copy. `FlagInv` says why no flag is lost: the
  object of an open entry is unflagged, and its reclaim still has the guard or authority is lost and nobody
  who may still write has the object (`EntryFenced`); and a copy that `archive` or a flag request
  writes back has the flags the object has (`CopyKnown`).
* **`ArchiveRecordsBacked`**: `Spec => []ArchiveBacked`; that
  nothing has failed is part of the property, and implies that no abort has, so that `SingleInv` and `TerminalInv`
  hold of every such state (`UnspentInv`, `NothingSpent`). `ArchiveInv` says in addition that nobody is at a compensating
  or fencing step and deletion has come as far as the step says (`Progress`), that an entry before its physical phase
  lists no more records than the object has, that recovery rolls back only where it adds no record or the
  payload is there (`GivesBacked`), and that it closes a committed entry only without records.

### The other components

**`Authority_proofs`**: four theorems, for every set of processes and threads and every number of
pauses and faults, from `AuthorityAssumption`. Their inductive invariant `Inv` is `TypeOK`,
`EpochsGranted` (no process has an epoch above the row's, and it has one exactly if it has
claimed), `ThreadsServe` (threads work only in processes that serve) and
`ReleasedBetweenClosures` itself.

* **`AuthorityTypeCorrect`**: `Spec => []TypeOK`.
* **`ClaimImplementsFencing`**: `Spec => FencingImplemented`, the refinement. `Claim` maps to
  `Grant` because a process that has not claimed has no epoch; every step that admits a closure
  maps to `Admit` because its heartbeat found the row's epoch to be its own; all others
  leave epochs and `admitted` alone.
* **`SupersededAlwaysWindsDown`**: once the row's epoch is above a process's own, no thread of the
  process gets into a closure. Only `Enter` could, and it needs `Holds`.
* **`ReleaseBetweenClosures`**: `Spec => []ReleasedBetweenClosures`. `Release` holds the lock, a start
  that fails has no threads, and a thread that enters later makes the claim fresh.

**`Fabric_proofs`**, for every set of nodes, names and backends and every number of epochs. `Inv` is
`TypeOK`, `RegistryConsistent` and `EpochsFollowed` (a node has no epoch until it is registered, and
has let in no operation of an epoch above its own). That every step of `Fabric` is one of
`Fencing` is the lemma `FabricKeepsToFencing`.

* **`RegistryStaysConsistent`**: `Spec => []RegistryConsistent`.
* **`NodesNeverGoBack`**: `Spec => OperationsInEpochOrder`.

**`Transport_proofs`**, for any number of connections and calls. `Inv` has the types and, for the
numbers, that every frame in the streams bears the number of its call and a client waits for the
last number it gave out (`FramesNumbered`, `ClientNumbered`); for the shutdown, that a running
thread is listed or about to be (`RunningListed`) and that one which began a request after the
shutdown reads no more (`ReadsNoMore`).

* **`RepliesMatch`**, **`OkIsDrained`**, **`ShutdownAdmitsOne`**: `ReplyMatches`, `OkMeansDrained` and
  `OneMoreRequest` always hold.

**`Transform_proofs`**, for every finite set of objects and any number of failing statements, backend
errors and crashes.

* **`ArchivesRestorable`**: `Spec => []ArchiveRestorable`. An archived object can be read back from its
  latest record whatever has happened before (`ArchivedHasPayload`): `archive` works on an object that is not
  archived, its payload is there before its record and its record is the last one when the
  object row follows (`ArchiveOrder`); and while `restore` is at work the object can be restored
  with the row its compensation would write back (`RestoreReturns`).
* **`RefcountsExact`**, **`RowsHavePayloads`**, **`CopiesLostOnlyInSwap`**: `RefcountExact`,
  `PayloadOfEveryRow` and `CopyLostOnlyInSwap`, for behaviours in which no statement of a compensation fails
  (`[][CompensationGoes]_vars`); any other statement and backend call may fail, any number of times,
  and the process may crash anywhere. Without the hypothesis they are false (section 5: the
  rest of the compensation is skipped). Their inductive invariant is `Books`: no two operations hold the same payload
  (`Disjoint`), a payload nobody holds is counted exactly (`FreeExact`), and for each operation
  (`Balanced`) the counts of what it holds differ from the rows by exactly what its closure has
  done of one and not of the other (`CompressRefs`, `RestoreRefs`), the rows and payloads its compensation
  needs are there (`CompressRows`, `CompressPayloads`, `RestoreRows`), what it wrote nobody else refers
  to, and the object has a replica its row describes except between the two row statements
  (`CopyKept`). A step changes only its own object and the payloads it holds (`Frame`); `StepBooks`
  concludes from that and from what it shows of these (`Own`), with one lemma per action.
* **`OneFaultCompensates`**: `MaxStoreFaults <= 1 /\ Spec => [][CompensationGoes]_vars`. A compensation runs
  only after a failure (`Paid`), so with one failing statement, as in the run, the three results
  hold of `Spec` alone.

### Only model-checked

* *Liveness* (`RequestsReturn`, `PendingResolved`, `AuthorityRecovers`, `ShutdownEnds`, `NodesFollow`,
  `ShutdownDrains`): out of the prover's reach.
* *What the searches of `Lineage` compute*, and with it the properties of `LineageGraph`: an induction
  over a recursive function.
* `DependentsKept`: it holds for the graphs of `reclaim` and not in general (section 5).

## 5. Where code and documentation disagree

| Run | What it shows |
|---|---|
| `reclaimed_terminal` | `ARCHITECTURE.md:121`: "`RECLAIMED` is terminal." `abort_reclaim` releases the reservation before the attempt and the journal; if a statement fails in between, a second reclaim of the object is accepted while the first entry is open. If the process crashes after the second one committed, rollback of the first (`recovery.rs:497`) revives the object. Theorem `ReclaimedIsTerminal` shows that nothing but a failing abort does this. |
| `failure_rolled_back` | `ARCHITECTURE.md:241`: "A failure before physical execution is rolled back." The two transitions of reclaim, the update to `VALIDATED` and the planning closure return their error with `?` (`coordinator.rs:1703`), without `abort_reclaim`: reservation, attempt and entry stay open until recovery, and the object stays `RECOMPUTABLE` or `RECLAIM_PENDING`. Theorem `LeftOpenByReturnedErrors` shows that no other failure does this. |
| `dependents_kept` | `ARCHITECTURE.md:169`: a live, non-reconstructible object blocks reclamation of any ancestor. The dependency check is not repeated after the wait for the payload guards, and `add_lineage` refuses only edges whose own ends are active: a dependent of a dependent can be added in between (`coordinator.rs:1746`). |

Further cases met while modelling, which no run of their own shows:

* An entry left open as in `failure_rolled_back` also breaks `FlagsOnlyByRequest`: a pin set while
  it is open is lost when recovery writes back the entry's copy of the row (`recovery.rs:497`).
  Theorem `FlagsSetByRequest` shows that, with the archive backend configured, nothing else does this.
* `ARCHITECTURE.md:250`: an entry in `RESERVED` or `VALIDATED` is rolled back whatever the
  physical state. If `verify` of another object invalidated a shared row meanwhile, rollback
  finds a row that differs from the journal's copy and leaves the entry open, and `open`
  refuses to start (`recovery.rs:554`).
* `tests/property.rs:11`: "A stale epoch cannot mutate authoritative state." The heartbeat at
  the entry of `with_inner` is the only check: a closure that was admitted before a take-over
  executes its remaining statements after it, and so does recovery at start, which runs
  before the heartbeat thread (`recovery.rs:210`). `SupersededWindsDown` bounds the former.
* `ARCHITECTURE.md:283`: clean shutdowns release the claim. A thread that loaded
  `authority_lost` before `release` set it refreshes the released row by its heartbeat; the
  next start then waits for the stale window.
* `ARCHITECTURE.md:363` speaks of an orphan payload or record after a crash in compression. A
  crash between `delete_replica` and `add_replica` (`coordinator.rs:2192`) loses the object's
  own replica row; the object stays `HOT` without a copy (`CopyLostOnlyInSwap`).
* The compensation of `compress` deletes the compressed payload even if undoing its metadata
  failed (`coordinator.rs:2224`): with two failing statements a row is left that points at
  nothing.
* The compensation of a failed second `archive` of the same replica deletes the payload the
  first record still names (`coordinator.rs:2349`). The object is not `ARCHIVED` then and
  keeps its replicas.
* A connection whose thread has ended stays open until the next accept joins the thread: the
  server's list keeps a handle of the socket, and a client waits for its own timeout.

## 6. What is not modelled

* **Several objects' reclaim next to `compress` and `restore`**: `Transform` and `Coordinator`
  are checked apart; the argument why is in section 2.
* **Backends' file operations** (temporary files, hard links, fsync), **framing and CRC**:
  byte-level input and output. A write has its effect or not, a frame is valid or not.
* **Operations on a node's backend** beyond the epoch check: they are backend calls, whose
  failures the other modules have. `ARCHITECTURE.md:369` says that an open journal entry of a
  node-hosted backend needs an operator after a restart; `RecBackendError` is that case.
* **Policy, economics, pressure levels**: floating-point scores without shared state; a
  verdict can only refuse.
* **Audit, schema migration, command line**: nothing modelled depends on them.

## 7. Plan

Done: the lineage graph; the coordinator with registration, flags, verify, archive,
reclaim, recovery, faults, crashes and shutdown; the claim with take-over and its
refinement of `Fencing`; nodes; connections; compress, archive and restore. Proved: type
correctness, `JournalCovers`, and the safety properties of recovery, of shared payloads and of
what a reclaimed object owns, the minimum of copies, one open entry per object, `RECLAIMED` being
terminal, the payloads of the rows, which failures of a reclaim are not rolled back, owned entries, flags and the
payloads of archive records for the coordinator; the safety properties of `Authority`, `Fabric`
and `Transport`; and for `Transform` that archives can be restored, that rows have payloads, exact
reference counts and that a copy is lost only inside the swap.

Next: an abstract specification of the content store (an object is absent, live or reclaimed;
content is there while a live object refers to it) and the coordinator shown to
implement it under the hypothesis of `NoSecondJournal`.
