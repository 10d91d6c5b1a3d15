# Verification of the labs storage and serving protocols

TLA+ models of the core protocols of this repository, TLC configurations that
check them on small instances, and TLAPS proofs of the most important theorems.
Paths below are relative to `src/packages/`.

## 1. The system

Users' data lives in **spaces**. A space is one SQLite store, an append-only log
of commits with a sequence number `seq`, kept by a *memory server*. Clients hold
replicas of documents, run reactive code on them, and send optimistic commits.
A *space server* runs the same reactive code next to the store and commits what
it derives.

| Component | Code | State | Operations | Hard behaviour |
|---|---|---|---|---|
| Engine (commit admission) | `memory/v2/engine.ts` | commits by `(session, localSeq)` and `seq`, revisions and heads per document, preconditions, event rows | `applyCommit`, `applyWaveCommit` | optimistic reads of *pending* commits, out-of-order arrival, replays, the identity fallback |
| Memory server sessions | `memory/v2/server.ts`, `session-registry.ts` | connections, sessions with tokens, watches, holdings | open/resume/take over, transact, watch, ack, expire | connection loss, takeover by another connection, frames undelivered, work awaited while the session is revoked |
| Memory client | `memory/v2/client.ts` | the connection, request ids, outstanding commits, watermarks | connect, reopen, replay, transact, terminate | lost responses, replay of what was accepted |
| Client replica | `runner/src/storage/v2.ts` | confirmed documents, a stack of pending commits, parked accepts, stale floor | commit, push, confirm, reject, cascade, preempt | answers and frames in any order, a rejected commit under later ones |
| Execution lease | `memory/v2/execution-lease.ts` | one row (holder, expiry) per space; a tenure counter in memory | acquire, renew, release, expire | expiry while work is in flight, crash, two servers of one process |
| Executor host | `runner/src/executor/host.ts` | the registered server per space, activations in flight, buffered notices | activate, park, re-activate | triggers racing a park |
| Space server | `runner/src/executor/space-server.ts`, `watermark.ts` | life cycle, open wave, feed, watermark W, event checkpoints | activate, renew, seal, wave cycle, drain, park | awaits between a read and its use, park in the middle of a cycle |
| Wave | `runner/src/executor/wave.ts`, `engine-wave-sink.ts` | contributions, per-document decisions | seal, commitWave with re-resolution | conflicts found inside the sink, several stores in one wave |
| Outbox | `runner/src/executor/outbox.ts`, `memory/v2/execution-outbox.ts` | durable outbound appends | admit, deliver, delete | crash between admit and delete |
| Client event queue | `runner/src/storage/event-append-queue.ts` | queued appends | send, retry | duplicates, order |
| Queries, frames, watches | `memory/v2/query.ts`, `server-sync.ts`, `frame-log.ts` | frames per session, dirty sets | stage, flush, catch up, roll back | a frame lost with its connection |
| Scheduler | `runner/src/scheduler/` | dependency graph, queues | invalidate, settle, dispatch | re-entrancy |
| Background pieces | `background-piece-service/src/` | workers, timers | start, run, terminate, reschedule | timeout racing a late answer |
| Others | FUSE bridge, shell, toolshed, compilers, encodings, labels | - | - | not modelled, see `PROJECT.json` |

Interactions: the client replica hands commits to the memory client, which sends
them over a session to the memory server, which decides them in the engine (one
synchronous transaction per commit). Accepted commits mark watched documents
dirty and reach other replicas as frames. Admission notices wake the executor
host, which activates a space server; it holds the execution lease of the space,
collects what it derives in a wave and commits the wave through the engine sink.

## 2. Execution lease: `ExecutionLease`

One space, any number of processes (`Process`) and of `SpaceServer` objects
(`Server`, each used for one activation by its host `HostOf`).

| Model | Code |
|---|---|
| `holder`, `left` | the `execution_lease` row; `left` is `expires_at - now`, so `Tick` lowers it and the row is live iff `left > 0` (one clock: lease and engine are co-hosted) |
| `registered` | `ExecutorHost.#spaces` |
| `phase` | `#initializing`, `#active`, a park in progress, parked |
| `held`, `tenure` | `ExecutionLeaseCycle.#held`, `#tenure` |
| `open`, `closing` | `#currentWave` and the wave detached from it that is inside `commitWave`; each remembers the tenure it was opened under and how much of the derived log it may have read (`basis`) |
| `stamped`, `solo` | a bookkeeping run stamped for a direct commit (`#stampRun`), and the commit on its own whose turn on `#sealChain` it is, between its activity check and its admission |
| `log` | derived commits the engine admitted: how, by whom, the tenure the work was sealed or stamped under and the one it was admitted in, and the `basis` of a wave |

Derived-class commits are admitted in four ways, and each looks at something else:

| Way | Actions | Tenure | Activity | Row |
|---|---|---|---|---|
| wave (`wave.ts:2303`) | `OpenWave`, `CloseWave`, `CommitWave`, `AbortAtEntry`, `AbortAtHome` | at entry and right before the sink | - | engine |
| direct commit (`space-server.ts:2696`) | `StampDirect`, `BeginDirect`, `CommitSolo` | never | before the await of the seal | engine |
| effect completion (`space-server.ts:2475`) | `BeginCompletion`, `CommitSolo` | never | before the await of the seal | engine |
| notice of a refused append (`outbox.ts:674`) | `Notice` | never | never | engine |

Every await in the code is a boundary between two actions: a park begins
(`BeginPark`) and ends (`ParkDone`, which has awaited `#sealChain`) in different
steps, a wave is opened, closed and committed in different steps, a commit on its
own is checked and admitted in different steps, and expiry, another process's
acquire or a crash can fall between any two. A store error is the disjunct of
`RenewThrows` and `ParkDone` in which the row survives. Host close is "no further
activation, park at any time", already among the behaviours. `CommitWave` may fall
between `BeginDirect` and `CommitSolo`, which `#sealChain` in part rules out: the
model has more schedules than the code.

`Activate` asks that nothing be registered. The host asks that of its callers
(`host.ts:365`, 461), chains what comes during a park behind `whenParked`, and inside
re-checks only for an *active* server (`host.ts:528`, 571, 585). The re-check after a
park follows an await of an engine that is open already; a server that parks in that
window would be overlooked (a hazard in `PROJECT.json`). The model makes check and
activation one step.

What is checked:

- `SingleDeriver`: from the moment a wave takes its basis to the moment it is
  admitted, no other tenure has had work admitted, by a wave, a direct commit or a
  completion. This is the purpose of the lease; it depends on the tenure check, the
  row check, the host's registration and the park that awaits `#sealChain` together.
  A wave takes its basis when its first seal opens it; what the run that seals had
  read before is held, document by document, by the conflict check of the engine
  (section 3), which is the refusal in `CommitWave`. Of a direct commit or a
  completion itself nothing is claimed: the engine holds those to the documents they
  read, and their tenure may have ended (next point). A notice derives nothing, and a
  parked server can write one under the row of its successor.
- `LapsedDirectAborts` says what `docs/specs/server-side-execution/serving-loop.md:321`
  says, that after a lapse the server stops committing at once, and is violated: the
  direct commit of a run stamped before the lapse lands in the tenure after it.
- `ReleaseSparesSuccessor`: RELEASE deletes by holder identity, which all
  servers of one process share, so the order "park, then activate the next" is
  all that protects a successor's row.
- `LostHolderStops` and `CrashedLeaseLapses` (liveness).

| Run | Instance | Checks |
|---|---|---|
| `lease_derivers` | one server on each of two hosts, the first through two tenures; waves on both, direct commits on the first, notices on the second; two derived commits; 2.0 million states | `TypeOK`, `SingleDeriver` |
| `lease_succession` | the first host serves twice, its first server through two tenures, and a competitor; a row that lives two ticks; no derived commits; 159 thousand states | `ReleaseSparesSuccessor`, `LostHolderStops`, `CrashedLeaseLapses` |
| `lease_direct` | as `lease_derivers`, one derived commit | violates `LapsedDirectAborts` |

Two processes are what a conflict needs; two servers of one process are the one
succession the host allows at a time; two log entries are the intervening commit
and the stale wave. Bounds: `MaxTenure`, `MaxLog`, and `Alone`, the kinds of commit
on its own a server makes (one bookkeeping run is on its way at a time).
`lease_derivers` with completions on the second host, and with both kinds there,
was run once and passed (3.1 and 4.4 million states). Fairness in
`lease_succession`: the renewal interval timer fires, `#sealChain` settles, a park in
progress completes (its disposal is under a deadline), and time passes; no other
action is fair. With `MaxTenure` reached a server cannot re-acquire, which is why
`LostHolderStops` names the bound.

Not in the model: conflicts inside a wave, foreign provisioning batches, and the
warm buffer.

### Proofs: `ExecutionLeaseProofs`

For all `Process`, `Server`, `HostOf`, `Alone`, `TTL > 0` and bounds: `TypeCorrect`,
`DeriverIsSingle`, `ReleaseIsOwn`. `SingleDeriver` is not inductive. The
inductive invariant `Inv` adds: a server that holds, or has a commit on its own under
way, is the one its host has registered (`OneHolder`); waves were opened under the
current or an earlier tenure (`SealedEarlier`); and while a server holds and the row
names its process, every commit since one of its waves of the current tenure was
opened is its own (`Undisturbed`). The key fact is `Continuity`: a row can come back to
a process only through an acquire, which starts a new tenure. A commit on its own
looks at no tenure, and still cannot fall under a wave of another one: when the row
names its process its server is the registered one, and a wave of an ended tenure is
withdrawn. Liveness stays with TLC.

## 3. Optimistic commits: `OptimisticCommit`

One space, any clients (`Client`), documents (`Doc`) with fields (`Field`), and
for each client the transactions it may run (`Tx`), the documents its view
covers (`Watched`) and how many commits it makes (`MaxLocal`).

| Model | Code |
|---|---|
| `log` | the commits the engine accepted, in `seq` order; a row keeps its commit, whether its operations were elided, and the documents as it left them (in the code, revisions and replay) |
| `toServer[c]`, `toClient[c]` | the requests, responses and sync frames on the session of `c`, first in first out |
| `dirty`, `origin`, `scheduled` | the server's dirty documents of the space, the accepted commit each is dirty from (`originSeq`, `originSession`), and the refresh timer |
| `flushed` | the seq to which the entity caches of the sessions are current |
| `owed[c]` | `session.pendingCaughtUpLocalSeq` |
| `confirmed[c][d]` | the replica's confirmed record of a document |
| `pending[c][l]` | the pending version of local commit `l`: `queued` or `doomed` before it is sent, `sent`, `parked` (accepted, its marker awaited), `repairing` (rejected, its layer still standing), `gone` |
| `caughtUp[c]` | `#caughtUpLocalSeq` |
| `fate[c][l]` | the promise `push` returned to the caller |

| Action | Code |
|---|---|
| `Commit` | `#commitOperations`, `#buildReads` and the first check of `#pushCommit` |
| `Send` | the session handle resolves in queue order; the second check; `session.transact` |
| `Transact` | `Server.#decideTransaction` with `applyCommit`: accepted, accepted as an identity with its operations elided, or refused with a staged refresh |
| `Flush` | one pass of `#refreshLoop` over all sessions |
| `Receive` | the verdict (`#settleAccept`, the catch of `#pushCommit`, `#suppressLateVerdict`) or a frame (`#applySessionSyncFrame`, then `#noteCaughtUpLocalSeq`) |
| `FinishRejection` | `#dropPending` with `#cascadeDroppedDependency`, once the repair gate is open |
| `RepairTimeout` | the same, when `CONFLICT_READ_REPAIR_TIMEOUT_MS` passes first |

What the model abstracts, and why it may:

- A document is a record of fields and a commit has one operation (`set`, `put`
  of a field, mergeable `add`) and at most one read (of a field or of the whole
  document). Those are the distinctions admission makes: path-blind replacement,
  overlapping and disjoint patches, operations that need no read.
- Seqs count from the snapshot the watches were opened on. An unwatched document
  has never been seen (seq -1); it is there already, written below the first seq,
  so a read of it is stale.
- The server's per-session entity caches are one number. All sessions of a space
  are evaluated in one pass under the publication lock, and no frame is lost, so
  the caches agree. For the same reason `owed` stands for the pair of pending and
  attached markers: with first-in-first-out queues it only grows between passes.
- `Commit` reads and builds in one step. In the code the reads precede the commit,
  but `claim` compares what was read with what is there before the commit is built
  (`runner/src/storage/v2.ts:7332`). A verdict is handled in one step though the
  handler resumes after microtasks; the only check that could tell the difference
  is the one of the caught-up marker, and it is made in both orders.
- Conflict admission mode is off, its default.

Left out here: lost connections and replay (`SessionProtocol`), failed fan-out
and changing watches (`WatchDelivery`), preconditions, deletes,
patches that do not apply, speculation overlays, waves, branches and scopes.

### What a space promises: `SerialSpace`

A transaction observes whatever it observes, and is then decided once: it commits
at an instant when the space still shows what it observed (or when its operation
changes nothing), or it aborts. `SerialSpace` says only that. The refinement
mapping of `OptimisticCommit` takes the stored documents as the content, the
undecided commits as the open transactions, the log as the committed names and
the callers' rejections as the aborted ones.

### Properties

- `ReadCoherence` (INV-1 of `docs/specs/memory-v2/09-invariants.md`): a commit
  that wrote was admitted on what the space held, through any stack of its own
  layers.
- `BaseIsDurable`: a replica's confirmed record is the document the space held at
  the seq it carries. Promotion, parking, echo suppression and frames all write
  it, each from different information.
- `FatesAgree`: no caller is told the wrong fate, although a rejection is told
  locally before the server has decided.
- `OwnWriteStays`: an accepted write does not disappear from its writer's view
  between its layer and its frame.
- `RepairedBaseIsFresh`: a retry starts on a base that has what refused it.
- `QuietReplicasAgree`: when nothing is in flight, every replica that watches a
  document shows what the space holds.
- `CommitsSettle` (liveness): every commit leaves the stack, and no repair needs
  its timeout.

### Runs

| Run | Instance | Checks |
|---|---|---|
| `commit_stack` | one document, two fields; every combination of the three operations and of no read, field read, document read; client `a` makes two commits, `b` one | `TypeOK`, `ReadCoherence`, `OwnWriteStays`, `QuietReplicasAgree` |
| `commit_cascade` | two documents; `a` stacks three commits that read through one another, `b` replaces the first document; with the fairness of `LiveSpec` | `BaseIsDurable`, `FatesAgree`, `RepairedBaseIsFresh`, `ImplementsSerialSpace`, `CommitsSettle` |
| `commit_unwatched` | `a` increments and reads a document outside its view | violates `ReadCoherence` |

Two clients are what a conflict takes: the server compares a commit with its own
session's rows and with everybody else's. Two stacked commits and a foreign one
give every relation of a read to its layers and basis; the third gives a chain of
dependencies, the shortest cascade in which an in-flight, a queued and a
rejected commit meet. The bounds are `MaxLocal` alone; seqs follow from it.
`CHECK_DEADLOCK FALSE` is in these configurations because a system whose clients
have made all their commits rests.

Fairness in `LiveSpec`: requests are sent and answered, frames and verdicts are
received, a scheduled flush runs, and a rejection whose gate is open is finished.
Nothing makes a client commit, and `RepairTimeout` is not fair.

`commit_unwatched` shows a divergence from INV-1. An accepted commit is promoted
by applying its operation to the replica's own base. Where no view covers the
document that base can lack other clients' writes, and no frame will correct it,
but the promoted record carries the seq of the commit. A later read names that
seq, nothing newer is found, and the read of a value the space never held is
accepted. In all other runs every document is watched.

### Proofs

Every invariant of this module and its refinement are proved, for all sets of
clients, documents, views and transactions. The one assumption on constants is
`TransactionsAssumption`, the type of the transactions. Each invariant below was
first checked by TLC on the two runs.

`OptimisticCommitProofs`: `FatesAlwaysAgree`. `FatesAgree` is not inductive: a caller
is told of a rejection while the commit waits at the server, and it has to be known
that the server will refuse it. `FatesInv` follows a commit from its layer to its
verdict. `LogClosed` says that what an accepted commit read through is accepted
too, so a commit in flight over a rejected layer is lost (`RejectedIsLost`);
`Unchanged` says that what is in flight is what the layer says, so that this can be
read off the layer; `NotSent`, `Once` and `VerdictsTrue` say that a commit is in one
place. Steps of replicas are proved through one lemma (`ReplicaTracked`) over what
they may do to a layer and its fate.

Its second part proves `TypeAlwaysOK`, with what each action does (one lemma per
action, used by all that follows) and the shapes `TypedInv`. A replica folds its stack of
layers and a promotion folds what a frame released; each fold is the last value of
its run, which `SetInduction` shows to exist. That is the induction over the length
of a stack all the rest needs, made over sets of naturals because the induction
theorems of the library cannot be instantiated here.

`CommitCoherenceProofs` has four invariants from `CoherentInv`, which adds to the
shapes:

- `Ordered`: the rows, the commits in flight and those not yet sent of a client follow
  one another in local order, and no marker runs ahead of the commits it covers.
- `Answers`: a verdict reaches its replica before the marker of its commit, and the
  rows that decided it lie in the window that marker ends.
- `Arrivals`: each foreign revision of a watched document is in the base, still dirty
  at the server, or in a frame that comes no later than any marker decided after it;
  a base is a document of the log and holds no own commit whose marker has not come;
  an accepted commit has its layer until the base of its document has it.

None is inductive without the others. A promotion writes the right base only because
nothing foreign lies between that base and the promoted row, which is `Arrivals`
through the order of verdicts and markers in `Answers`, which in turn needs
`Ordered` to know which commits a marker covers. From it: `BaseAlwaysDurable`,
`OwnWriteAlwaysStays`, `QuietReplicasAlwaysAgree`, `RepairedBaseAlwaysFresh`.

`ReadsAlwaysCohere` and `ProtocolImplementsSpace` have the hypothesis `ReadsWatched`:
a transaction reads documents its client watches. It cannot be dropped
(`commit_unwatched` violates `ReadCoherence`), and the instances of the two other
runs satisfy it. `ReadInv` adds `Reads`: what an open commit saw is its layers
replayed over its base, and stays so while layers are promoted, parked and dropped.
When the server finds those layers accepted and no other row that overlaps the read,
that replay meets the log at its head (`ReplayMeetsLog`), so what was seen is what
the space holds. The refinement follows action by action: `Transact` maps to a
commit, `Commit` to a begin, a local rejection to an abort, all else to a stutter.

`CommitsSettle` (liveness) is model-checked only.

## 4. A session over lost connections: `SessionProtocol`

One logical session of a space, the client that keeps its unanswered commits, the
registry that gives the session to one connection at a time, and the connections
of the server, each of which handles one frame at a time and may wait inside it.

| Model | Code |
|---|---|
| `phase`, `token`, `outstanding`, `replaying`, `through` | `SpaceSession` of `memory/v2/client.ts`: before, in and after `restore`; `#sessionToken`, `#outstandingCommits`, the replay tasks, `replayedThroughLocalSeq` |
| `told`, `waiters`, `caughtUp` | the promise of each commit, the waits for its catch-up marker, `#caughtUpLocalSeq` |
| `session` | the registry entry: token, owning connection, expiry, marker sent and marker owed |
| `handle[c]`, `work[c]` | `Connection.#sessions`, and the frame `c` is inside of, between its awaits |
| `applied`, `overwritten` | the commits the engine has under `(sessionId, localSeq)`, and those whose reads have since been written over |

Every await of `openSession` and of a transact request is a boundary between two
actions (`OpenSession`/`FinishOpen`, `TakeTransact`/`BeginDecide`/`Decide`), so a
takeover, an expiry or a restart falls between any two. `Lose` cuts the frames
under way at any point. A connection opens the session once, so its number also
names the token that this open mints.

`OnceSession` is what a session promises: each commit is recorded at most once,
whoever was told "accepted" finds it recorded, whoever was told "conflict" can
count on it never being recorded. `ImplementsOnceSession` is the refinement (the
mapping is the identity on `applied` and `told`). `RecordedInLocalOrder` says that
commits sent before, during and after a restore, over two connections, are
recorded in their local order. `NoSessionError`: no caller takes a missing session
for a refusal of its commit. `EveryCommitAnswered` and `MarkerArrives` are the
liveness of the two waits a caller has.

One run, `session_restored`, checks all of it: two commits, three connections (so two
reconnects), one restart and a rival client that resumes with the current token, 260
thousand states. Two commits are what order and a replay beside a first sending need;
the third connection is the one that takes over from a replay. `Contested = {1}` bounds
the commits whose reads others may write over. Fairness: the client reconnects, both
ends handle what they receive, a client finds out that its connection is closed, and
a scheduled fan-out runs. Losses are bounded by `MaxConns`; `Lose`, `Crash` and the
rival leave a last connection, since a session whose connections fail for ever is
answered by nobody.

Proofs (`SessionProtocolProofs`), for all constants: `TypeCorrect` and
`SessionKeepsPromise` (`Spec => ImplementsOnceSession`). The inductive invariant
`TruthInv` is the types with three parts: an answer in flight is true now and
stays true (`FramesTrue`), what was told is true (`ToldTrue`), and no commit is
recorded twice. The step that needs it is a conflict answered on one connection
while another carries the same commit: it stays a conflict because a commit once
refused keeps its reads overwritten.

The second part of the module proves `NeverWithoutSession` (`[]NoSessionError`) and
`LocalOrder` (`[]RecordedInLocalOrder`) for all other constants when
`AclActive = TRUE`. Three invariants, each needed by the next:

- `HoldInv`: a connection that is open and has its handle owns the session in the
  registry, a commit it is deciding captured its token, and an `open` is alone on
  its connection;
- `LinkInv`: a client whose connection has lost the handle has the revocation
  ahead of any refusal in what it is still to receive, so a refusal is never the
  first it hears;
- `OrderInv`: a commit is recorded once all before it are settled (recorded, or
  their reads overwritten). A connection that has the session carries no commit
  without those before it (`Pipeline`), and the client's carries all it was to
  send (`AllSent`); both survive the loss of the connection's tail, the replay of
  `ReceiveOpened` and the held commits sent at the end of the restore, since what
  the client no longer keeps is settled (`Answered`).

The assumption is what `openSession` does: only with the ACL mode on does it look
again, after the catch-up, whether the session was taken over. With the mode off
an overtaken open takes its handle all the same, `Owns` is false and the argument
ends. TLC then breaks the order with four connections (`applied = <<2, 1>>`), by
granting the publication lock out of turn: the model lets any waiter have it, the
code queues them in order of arrival. Nothing is claimed for that mode.

## 5. Re-establishing watches: `WatchReconnect`

The reconnect loop of `MemoryClient` and the chain of watch mutations that callers
and `restore` share (`memory/v2/client.ts`). JavaScript runs one task and then its
continuations; `Quiet` is "no continuation is ready", and every task waits for it.

| Model | Code |
|---|---|
| `loop` | what `#reconnecting` awaits: a delay, `hello`, the signature of the open, the open, the watches set again, or (`"itself"`) a request that waits for the loop |
| `chain` | `#runWatchMutation`: the mutations not settled, in call order, and the set each sends |
| `specs`, `concurrent` | `#watchSpecs`, `#concurrentWatchRefresh` |
| `opened`, `known`, `rotated`, `watching` | what the server has of the session on this connection |

The client counts as connected from `hello` on (`memory/v2/client.ts:550`), while its
session is open on the connection only once the open, which has to be signed first,
is served. A watch call made in between goes out ahead of `session.open` and is
refused. The model has that window: `ServeWatch` refuses what comes before the open.
`RewatchHeard`: such a refusal meets callers only, who are told; the restore of the
watches the client already had is never refused on a live connection, or the loop
would fail its turn and start over. `IntentServed`: at rest, the server watches all
the client was told is watched. `Reconnects` and `CallsReturn`: the loop ends and
every call returns.

`reconnect_restored` checks them with three losses and four calls in both modes,
signing, and a server that may forget (169 thousand states). The assumptions under
which they hold are three guards that `Calm = TRUE` switches on (`MayCall`,
`MayRemove`, `MayLose`); what happens without them is in section 8. `bare` is the
exception inside `IntentServed`, also in section 8.
`reconnect_signing` is the run of one of these failures: a connection lost while
the open is being signed is never replaced, because `openSession` then waits for
the loop that waits for it, against "every transport-level disconnect still retry"
(`docs/specs/memory-v2/04-protocol.md:413`). Fairness: continuations, timers,
signatures and the server run; nobody has to call; losses are bounded.

Not modelled: `session.ack`, which the client also schedules as soon as it is
connected (`client.ts:1739`); it moves an acknowledged seq, no watch, and nobody
awaits it. Views, `close`, and one client holding several spaces.

Proofs (`WatchReconnectProofs`), for any number of calls and losses, both modes, and
under the hypothesis `Calm` of the run (without it the properties fail, section 8):
`TypeAlwaysOK`, `RewatchAlwaysHeard`, `IntentAlwaysServed`. What the client means to
watch and what the server watches meet only through what is in flight, so the invariant
`WatchInv` says what can be: the open of a connection at most once and before the loop's
own mutation (`Asked`, `Told`), one request or one answer for a mutation that was sent
(`InFlight`, `Apart`), and a request that replaces the whole set with no other before it
(`SetAlone`), as it would undo what was promised behind it. From that, what was answered
is watched (`Served`), and so is the intent except between a fresh open and its restored
watches (`Kept`); `Restoring` says that a loss there finds the loop's own mutation first
in the chain, which is the state `bare` remembers. The frames sent when the loop ends
(`Late`, a fold) are named by induction along the chain (`LateFrames`). The invariant
was checked by TLC on the run first. `Reconnects` and `CallsReturn` are liveness and
only model-checked.

## 6. Delivery to a watching session: `WatchDelivery`

The dirty batch, the refresh pass with each of its failures, the delivery state of
one session, its rollback, its resumption with holdings, and the replica that
absorbs the frames. The rest of the clients appear as `ForeignCommit`.

| Model | Code |
|---|---|
| `dirty`, `origin`, `due` | `markSpaceDirty`: documents, the own commit each is dirty from, the scheduled refresh |
| `pass` | `#refreshLoop` under the publication lock, with the batch it detached |
| `session` | watches, `cached` (what the client is believed to hold), `force` (full evaluation owed), the markers `owed` and `caught` |
| `Serve`, `EvaluationFails`, `SendFails`, `FailPass` | `refreshDirty`: evaluated and sent; the evaluation throws; the frame does not leave and is rolled back; the fan-out throws and the batch is requeued |
| `link` | the connection as the server sees it: a `dead` one still accepts frames |
| `held`, `delivered`, `marker`, `mine` | `record.confirmed`, `#delivered`, `#caughtUpLocalSeq`, own commits with their parking |

Requests are answered in one step: their handlers take the publication lock or run
without an await. `noteExecutorCommit` takes no lock, so `ForeignCommit` also
falls into a pass. A value is the set of commits that made it, which is what tells
a promotion over a wrong base from one over the right one.

`QuietReplicaAgrees` and `QuietCommitsSettled` say that at rest nothing is missing:
no update, verdict or marker. They exempt a session whose last evaluation failed,
because nothing schedules the next (section 8). `HeldIsDurable` says that a value
held at a seq is the one recorded at that seq.

A refused commit keeps its layer until its repair wait ends (`Resolve`): its marker
came (`Settle`), or `CONFLICT_READ_REPAIR_TIMEOUT_MS` passed first (`RepairTimesOut`,
`runner/src/storage/v2.ts:8414`), which may be at any time. `RetryMovesOn` says that
when the marker frees it the replica has reached the head over which the server first
refused it (`refused`, a history variable), whatever frames were skipped, rolled back
or lost in between. The first head, not the latest: a commit whose verdict was lost is
sent again, may be refused anew over a later write, and is then freed by the marker of
the first refusal, before that write arrives (section 8). A retry after a timeout makes
no claim, in the code or here.

`delivery_faults` (2.1 million states): one own and two foreign commits, two documents
(symmetric), one failed pass, one lost connection and one watch call, any initial
watches. One own commit and two others give the writer's echo with a foreign write
before, between or after; a single failure of each kind meets every step. The theorems below
are for all bounds.

Left out: schema traversal (a watch is a set of documents), scopes and lease-holder
reads, own sets over an own layer that is not settled (`OptimisticCommit` has them),
an open whose evaluation fails, a session the server forgets (`WatchReconnect`).

Proofs (`WatchDeliveryFacts`, `WatchDeliveryProofs`), for any set of documents, any
initial watches and any bounds: `TypeCorrect`, `ReplicaValuesAreDurable`,
`QuietReplicasAgree`, `QuietCommitsAreSettled`, `RetriesMoveOn`. The one assumption on
constants is `BoundsAssumption`, their types. TLC checked the inductive invariant
`DeliveryInv` on small instances before the proof.

The server acts on what it sent and the client on what it holds, and the two meet
only in what is in flight. The invariant is written with one notion: `Reaches(h, dn,
d, k, s)`, a replica that holds `h` and absorbs the first `k` frames of `dn` then has
`d` at `s` or later. With it:

- What the cache of the server says the client has is reached, or elided: it is the
  client's own write, and the marker that promotes it has come or is still due
  (`CacheInv`, `MarkInv`, `OriginInv`). What the cache lacks is dirty, in the pass, or
  left to the full evaluation.
- A commit needs a seq in the replica before its marker frees it: its own for an
  accepted patch, the head that refused it for a set (`FloorIs`, `RefusedInv`). While the commit
  is not settled that seq is reached or its document is still to be sent (`PendInv`);
  from the frame on that carries the marker it is reached (`FloorInv`); and what was
  settled as accepted stays reached (`DoneInv`).
- A frame that drops a document the server watches is followed by the answer that
  adds it again (`WatchInv`), and such an answer brings every own commit of the
  document (`AddedInv`), since commits made before the call go up ahead of it
  (`OrderInv`).
- The value held of a watched document is the durable one. Of a document that is only
  being added, a patch may have been promoted over a base that lacks a foreign write;
  then a frame no later than the answer replaces what that made (`ValueInv`).

None is inductive alone: a lost connection is survived because the holdings say what
the replica reached (`OpenHeld`), a failed send because the rollback forgets what the
frame would have brought, a resent commit because the log keeps each commit once and
in order (`LogInv`, `AnswerInv`). `WatchDeliveryFacts` has the effect of each action
and the parts that concern the wire; `WatchDeliveryProofs` the parts that concern the
replica, and the theorems. Two definitions of the model are in closed form so that
they can be reasoned about without a fold: `Promoted` (the commits promoted together
have increasing seqs, so the last set among them and what follows it make the value)
and `Outstanding`.

## 7. Events: `EventStream`, `EventDelivery`

An event from the click to its last consequence: the queue of the client, the stream
document it is appended to, the waves that process it, the outbox of the appends a
handler makes to a stream of another space, and that stream.

| Model | Code |
|---|---|
| `queue`, `attempt`, `told` | `EventAppendQueue`: entries in fired order, the commit it awaits, the outcome promises |
| `issued`, `swapped`, `Replace` | `#markRouteWriteIssued`, `replaceProvisionalReplica` |
| `source`, `target` | the stream documents: `entries` and `eventWatermark`; a position in the log stands for its `seq` |
| `Duplicate`, `Pending`, `Twin`, `Frontiers` | the dedupe-horizon CAS; `selectPendingStreamEventDocs`; the twin check of `#drainStreamEvents`; `maintainStreamEventWatermarks` |
| `Wave` | a drain of any of the pending entries (a contribution may be put back), with its marks, its horizon and its outbox rows in one commit, then `deliverPendingAppends` |
| `drains[t]`, `owed` | the rows a drain of tenure `t` has still to deliver, across its await of the target; `#outboxDrainOwed` |
| `Deliver`, `Notice`, `DeliverFails`, `Retire` | the arms of `deliverPendingAppends` |
| `EndTenure`, `Activate` | the process dies (or its lease lapses); the next re-sends what it finds |

The lease and the fence of a wave are in `ExecutionLease`: here one tenure serves at
a time. A park inside one process leaves its drain running too, but ahead of its
successor's, row by row in lock-step, so `Lapses = FALSE` models tenures that end
with their process; `Lapses = TRUE` lets a drain outlive its tenure.

- `HandledOnce`: no handler runs twice for an event, at either stream: neither when a
  lost answer has it appended again below the horizon, nor when a crash has its row
  sent again.
- `FiredOrder`, `SentOrder`: per stream, events enter in the order they were fired,
  or emitted. A fired event that is passed over was dropped as refused, and one that
  was dropped and is not in the log by then never comes.
- `NoAppendLost`: the append of a handler that ran is in the outbox, at its target,
  or noticed as refused.
- `DeliveredIsHandled`, `AppendsHandled` (liveness): what the client was told is
  delivered is handled, and so is what its handler appended.

The queue of the client drops an entry for two reasons and goes on with the next: the
server refuses that append each time (`REFUSED_ERROR_NAMES`: its event is in `unfit`,
chosen at `Fire`), or the ACL denies it at the moment (`SetAcl` takes the right away
and gives it back at any time). So the first event may be refused and the second
admitted, in both ways. Everything else is tried again.

`events_delivered`: two events (order needs two), the first refused by the target,
two lost answers, three tenures (a crash before and after a re-send), one transport
failure; 225 thousand states.

Fairness: the queue retries; a space with work is served and its waves land; the drain
of the serving tenure goes on; and the rows that a failed delivery left are drained
again (`Redrain`). The last is the timer of the idle wait (`space-server.ts:3038`,
3477), which starts another cycle, whose quiet path drains what is owed
(`space-server.ts:5902`). The one assumption that is not a timer of the code is
`WF(Activate)`: a space that has parked, perhaps with rows it could not deliver, is
activated again, which takes a session or an admission (`host.ts:461`, 365); the rows
go out then. `EndTenure` is bounded, since a space whose processes always die serves
nothing.

`events_lapse` shows a lost append. `execution_outbox.id` is an `INTEGER PRIMARY
KEY` without `AUTOINCREMENT`, so an emptied table starts again at 1
(`memory/v2/engine.ts:455`). A drain awaits the target while its lease lapses; the
next tenure re-sends and retires the row, and its wave inserts another under the
same id; the first drain then deletes that one, undelivered. `events_delivered` has
`Lapses = FALSE` and does not meet this. Retirement is the one
write of a drain that no lease fences (`execution-outbox.ts:223`).

Left out: the asynchronous save and load of the queue's store, pacing, deferrals and
attention checkpoints of an event that cannot run yet, the drops and notices by which
the space gives an event its consequence without running its handler
(`space-server.ts:3997`, 4265: `DeliveredIsHandled` and `AppendsHandled` say nothing of
an event that ends so), rows without a source event, a deletion that fails, emissions to the same
space.

Proofs (`EventDeliveryProofs`), for all bounds: `TypeCorrect`, `HandlersRunOnce`
(whether or not tenures lapse), and `AppendsAreKept` (for `Lapses = FALSE`, as the
run above requires). The first rests on `EventInv`: above the horizon an event has
one entry, and of two entries processed in turn the second finds the first done.
The second rests on `LossInv`: only the tenure that serves has a drain, so the rows
it remembers are rows of the table, and a row between its admission and its deletion
is at the target or noticed (`Acked`).

Then the two orders. `FiredInOrder` rests on `QueueInv`: the queue holds the latest
events without a gap, what has left it is in the log or was dropped as refused, and
nothing behind the first of the queue is in the log; so the event admitted next is the
first of the queue, and what it passes over never comes.
`SentInOrder` (for `Lapses = FALSE`) rests on `RowInv`: a drain under way has every
row of the table, so the row it sends is the lowest; and an event has one row, since
a handler runs once, so the entry that arrives names its row.

## 8. Where the code does less than its comments say

Four runs expect a violation (`commit_unwatched`, `lease_direct`, `reconnect_signing`,
`events_lapse`; sections 2, 3, 5 and 7). The others are shown by setting `Calm = FALSE`
in `WatchReconnectRestored.cfg`, or were met in reading.

- *A stale token.* Each open rotates the token (`memory/v2/session-registry.ts:167`).
  When the answer is lost with its connection, the client resumes with a token the
  server has replaced (`memory/v2/client.ts:1521`), is refused, and ends the session.
- *Ownership is captured late.* `#decideTransaction` reads the registry entry after the
  wait for the lock (`memory/v2/server.ts:3961`), not when the request came.
- *A call that waits for the loop.* A watch call made while the connection is down waits
  for the loop (`client.ts:695`). When the server has forgotten the session, the restore
  of its watches queues behind that call in the chain (`client.ts:1578`), and the loop
  waits for the restore: neither ends, in both modes.
- *Lost between open and watches.* A session opened afresh whose connection is lost
  before its watches are set is resumed without them (`client.ts:1572`).
- *A removal that waits.* In concurrent mode a removal that waited for the loop sends a
  set computed before it (`client.ts:1817`).
- *A failed evaluation.* The comment at `server.ts:6495` counts on a requeue that
  `refreshDirty` does not do (`server.ts:1412` catches and goes on): the session waits
  for the next commit to the space.
- *A refused retry.* A commit refused again after its first verdict was lost finds its
  marker already covered (`server.ts:7363`), so no repair frame gates its next retry,
  against "every conflict raised against a repaired read set proves a newer overlapping
  write, so each round makes progress" (`docs/specs/memory-v2/03-commit-model.md:749`).
  `RetryMovesOn` does not ask for it.
- *A denial is no proof.* `event-append-queue.ts:531` takes an ACL denial as proof that
  the append was not admitted; the server authorizes before it looks for an earlier
  admission (`server.ts:4009`), so a fire can be told refused and be handled.
- *A closed queue is refused.* `close()` says that no echo is withdrawn
  (`event-append-queue.ts:373`); `cell.ts:1944` withdraws it for every outcome that is
  not a delivery.
- *A fire in the turn of a replacement.* Its save runs after the successor has loaded
  the store, and it is in neither queue (`event-append-queue.ts:380`).

## 9. Not modelled

- *The reactive graph* (scheduler, speculation overlays, structure loads, the feed of
  the serving loop, the watermark): which reaction runs when depends on the graph of
  a particular pattern; what it may commit is in `ExecutionLease` and
  `OptimisticCommit`.
- *Resolution inside a wave* (`wave.ts`): decided by comparing the values of reads,
  which no model here has. Foreign provisioning batches need the stores and leases of
  several spaces.
- *Values*: schemas, queries and their traversal, patches and paths, labels, encodings,
  hashes, compression. Sequential and data-level.
- *Single conditional writes*: invites, the inbox, access lists. No protocol beyond the
  admission of a commit.
- *Wall-clock policies of one process*: back-pressure, pacing, the background piece
  service.
- *Interfaces*: FUSE, shell, toolshed, compilers, model clients.

What is only model-checked: every liveness property (fairness and `ENABLED` are out
of the prover's reach). Every invariant, every action property and both refinements
that a passing run checks are theorems.
