# Formal models of node-zmq-raft's subscriber, log-compaction tool and REPL

This directory holds TLA+ models of the parts of node-zmq-raft that are
under `src/`, the TLC configurations that model-check them, and TLAPS proofs.
`PROJECT.json` lists every component, run, mutant, finding and hazard, and maps
each definition to the source lines it models.

## The system and its parts

`src/unnamed/part_001` is `ZmqRaftSubscriber`, a Node.js Duplex stream that
sits between an application and a Raft cluster.

* **Read side.** It subscribes to the leader's broadcast publisher (zeromq
  PUB/SUB) and pushes every committed log entry, in index order, to the
  Readable. A broadcast that shows a gap (`_appendEntries` throws
  `MissingEntriesError`) is queued in `ahead`. The missing range is then
  fetched with the entries RPC (`_requestMissingEntries`). When the follower
  is behind the leader's first log index, that RPC streams a snapshot as
  chunks. When the RPC ends, `_flushAhead` replays the queued broadcasts.
  Backpressure works as follows: when `push` returns false, the SUB socket
  and the RPC stream are paused, and `_read` resumes them. A broadcast
  timeout re-asks a peer for the publisher url. `close()` tears the
  subscriber down.
* **Write side.** The application writes update requests. `_write` and
  `_writev` send them with `client.requestUpdate`, and each answer raises
  `lastUpdateLogIndex`.

`src/bin/zr-log-compact.js` is a command-line tool. It picks a compaction
index, either the explicit `-i` or the minimum of a peer's commit and prune
index. It feeds the log up to that index into a state machine, writes a
snapshot, replaces the target file with it, and lists the log files that
can be pruned.

`src/unnamed/part_000` is the client REPL's console commands, followed by a
unit test file of the helpers. The REPL keeps one `ZmqRaftClient` in a global
`client`, which a REPL reset replaces. `.peers` asks for the cluster's
configuration, and so teaches the client its peers. `.info <id>` points the
client at that peer with `setUrls`, asks it for its log info, and puts the
saved urls back when the answer comes. The REPL reads the next command while
a command's promise is pending. The helpers tests are not modelled (see the
end of this file).

The cluster client, FileLog, SnapshotFile, the raft server and the broadcast
state machine are not under `src/`. The models treat them as an environment
whose behaviour is taken from `spec.md`. Those definitions are marked
`spec_modelled` in the map.

## Modules

| Module | Models | State | Actions |
|---|---|---|---|
| `Subscriber` | the read side and `close()` of `ZmqRaftSubscriber`, and the environment of the read side | the subscriber's fields (`lastLogIndex`, `ahead`, `isFresh`, `_subscriberTimeout`, `_pendingMissing`, `_pendingRpcStream`, `url`); the Readable's buffer and everything ever pushed (`delivered`); the leader's commit and snapshot index; the SUB queue | `ReadInit` (the lazy `_read` set up in the constructor), `ReadResume` (`_read`), `BroadcastGap` and `BroadcastApplied` (the two outcomes of `_handleBroadcast`), `RpcData`, `RpcEnd`, `RpcError` (the RPC stream's handlers), `PublisherUrlFound`/`PublisherUrlMissing` (`_requestPublisherUrl` with `connect`), `BroadcastTimeout`, `Close`, `Consume` (the application reads); environment: `Publish`, `CommitEntries`, `Heartbeat`, `Compact`, `LoseMessage` |
| `Writer` | the write side: the lazy first `_write`, `_write`, `_writev` | the Writable's buffer, the call in progress, the requests in flight, answered or rejected, `lastUpdateLogIndex`, and the commit index given to each request | `AppWrite`, `WriteCallback`, `WriteCallbackError`, `Resolve`; environment: `CommitRequest`, `CommitOther`, `Reject` |
| `LogCompact` | `zr-log-compact.js` | the tool's program counter, its options, exit code, compaction index and term, how much of the log it has fed, the temp and target snapshot, the files printed for pruning; the live log, commit index, prune index and term | `Start` (the option checks and their exit codes), `PeerAnswers`, `PeerFails`, `TermLookup`, `FeedEntry`, `FeedDone`, `WriteSnapshot`, `Replace`, `Cleanup`, `ListPruneFiles`, `Finish`; environment: `AppendEntry`, `CommitEntries`, `NewLeader` (truncates uncommitted entries), `AdvancePrune` |
| `Compaction` | what one compaction run promises, with the tool's steps hidden | the target snapshot, the printed files, the peer's log, commit and prune index | `Install` (a committed snapshot within the prune index, once), `ListPrunable` (files the snapshot covers, once), `RaftStep` (any change that keeps the committed prefix and lets commit and prune index grow) |
| `CompactionRace` | two runs of `zr-log-compact.js`, jobs A and B, on one target path | two copies of `LogCompact`'s tool state (`INSTANCE LogCompact WITH pc <- pcA, ...`), the shared target and peer, and `dir`, the jobs whose temporary file is in the target's directory | each job's `LogCompact` steps; `Creates` (the temp file of `new SnapshotFile(createTempName(..))`), `Rename` (`replace`), `RenameFails` (the rename rejects because the file is gone; exit 1), `CleanupTempFiles` (removes every temp file of the target); `PeerStep` |
| `Repl` | the REPL's commands (`part_000` lines 26-143) | the current client, each client's urls (the configured url or one peer), whether it knows its peers, the closed clients, the pending `.info` calls with the urls each saved | `ShowInfo`, `InfoAnswered`, `InfoFailed`, `ListPeers`, `Reset` (`initializeContext`), `ExitSafe` |
| `SubscriberProofs` | TLAPS proofs about `Subscriber` | | |
| `WriterProofs` | TLAPS proofs about `Writer` | | |
| `SubscriberOrderProofs` | TLAPS proofs of `Subscriber`'s ordering invariants | | |
| `LogCompactProofs` | TLAPS proofs about `LogCompact` | | |
| `CompactionRaceProofs` | TLAPS proof about `CompactionRace` | | |
| `MCSubscriber`, `MCWriter`, `MCLogCompact`, `MCCompactionRace`, `MCRepl` | the constants for TLC | | |

Each action is one callback of Node's single-threaded event loop, run to
completion. The whole call chain of a handler is inside its action. For
example, `BroadcastGap` includes the push into `ahead`, the
`_requestMissingEntries` call and `_refreshSubTimeout`. `RpcEnd` includes
`_flushAhead`, with every `_appendEntries` it makes and the next request.
In `FlushAhead` the value of `lastLogIndex` after each replayed broadcast
ranges over `lastLogIndex..MaxIndex`. `_appendEntries` only ever raises
`this.lastLogIndex` (line 348), so no value is left out.

The data is abstracted away. Raft makes the entry at a committed index
unique, so an entry is just its index. A broadcast is its last index and its
entry count. A snapshot chunk is its snapshot's index and its chunk number.
Options to the tool are records whose optional fields are `<<>>` or `<<v>>`.
In the REPL a url list is what it points at: the configured url (`Seed`) or
one peer.

## Runs

| Run | Expect | Checks | What it shows |
|---|---|---|---|
| `subscriber_core` | pass | `TypeOK`, `EntriesInOrder`, `LastIndexMatchesDelivered`, `CatchesUp` | Broadcasts, the ahead queue, the missing-entries RPC, snapshot transfers, backpressure, lost broadcasts, RPC errors and timeouts interleave. Entries still reach the consumer in order with no gap or duplicate, `lastLogIndex` is exactly the consumer's position, and once commits stop the subscriber catches up and turns fresh. |
| `subscriber_close` | pass | `EntriesInOrder`, `LastIndexMatchesDelivered` | The same holds when `close()` can come at any point. |
| `subscriber_snapshot_restart` | violation | `SnapshotChunksContiguous` | An `OutOfOrder` error in the middle of a snapshot makes the consumer receive chunk 1 again (finding 1). |
| `subscriber_close_pushes` | violation | `NothingPushedAfterClose` | The missing-entries RPC survives `close()` and keeps pushing (finding 2). |
| `subscriber_close_fails` | violation | `NeverFails` | A read or an RPC end after `close()` dereferences the nulled client (finding 3). |
| `writer` | pass | `UpdateIndexIsHighest`, `AckedCovered` | Out-of-order answers and a `_writev` that fails part way still leave `lastUpdateLogIndex` at the highest committed answer. Every acknowledged write is covered by it. |
| `compaction_peer_index` | pass | `SnapshotOfCommittedLog`, `PrunedFilesCovered`, `CompactionRefined` | With the index from a peer, the snapshot is a committed prefix of the log, even while the log grows, a new leader truncates and the prune index advances. No file listed for pruning holds an entry past the snapshot. The tool implements `Compaction`: the snapshot it installs is within the prune index the leader reported, which neither invariant says. |
| `compaction_explicit_index` | violation | `SnapshotOfCommittedLog` | An explicit `-i` is not bounded by the commit index (finding 4). |
| `compaction_race` | pass | `SnapshotOfCommittedLog` | Two jobs on one target, with the log moving, removed temp files and failed renames: the target only ever holds a committed prefix of the log. |
| `compaction_race_temp_files` | violation | `TempFilesExclusive` | One job's `cleanupTempFiles` removes the other's temp file before its rename (finding 5). |
| `compaction_race_prune` | violation | `PrunedFilesCovered` | The job with the lower index renames last and supersedes the newer snapshot after the other job listed files against it (finding 6). |
| `repl_overlapping_info` | violation | `UrlsRestored` | Two overlapping `.info` commands leave the client pinned to one peer, with no error (finding 7). |

### Bounds

* **Subscriber.** `MaxIndex` = 3 committed entries, broadcasts of up to
  `MaxBatch` = 2 entries, a high-water mark of `HWM` = 2, snapshots of
  `NumChunks` = 2 chunks, a SUB queue of `MaxChan` = 2, and `MaxFaults` = 2.
  The faults are lost broadcasts, RPC errors, missing urls and timeouts.
  - Two entries per broadcast with three indices is the least that gives a
    broadcast partly covered by `lastLogIndex`, a gap, and a second broadcast
    queued ahead.
  - A high-water mark of 2 makes `push` return false in the middle of an
    RPC stream.
  - Two chunks give a snapshot that can be interrupted between chunks.
  - Two faults let an error and a loss happen in the same run.
  - The core run reaches 274,016 distinct states.
* **Writer.** Four requests: one goes to `_write`, and the rest are buffered
  behind it and go to `_writev` together. Request 4 is not an
  UpdateRequest, so a `_writev` fails part way. There is one commit by
  another client and one rejection.
* **LogCompact.** A log of up to 3 entries, terms up to 2, and segments of 2
  entries, so that there are two log files and one of them can be pruned.
  The options cover each snapshot kind, `-z` given or not, state-machine
  options present or not, `--no-unzip`, and each missing required option.

* **CompactionRace.** The same log bounds, with options that succeed, with
  both snapshot kinds, since the temp file is created at a different step
  for each. The run reaches 96,396 distinct states. Two jobs are the least
  that race, and an index of 1 against one of 3 gives one file (entries 1-2)
  that only the higher index covers.
* **Repl.** Two peers, two clients (the first and one reset), and three
  `.info` commands. Two overlapping calls are enough to show finding 7.

Each passing property has a mutant in `PROJECT.json`: a plausible bug in the
code, such as a dropped guard, an off-by-one or a missing update. TLC finds
each mutant's property violated under that run's own configuration.

### Fairness

`CatchesUp` is checked under weak fairness of these actions:

* `Read`: Node calls `_read` whenever the consumer waits and the buffer is
  below the high-water mark.
* `Consume`: the application keeps reading.
* `HandleBroadcast`: the event loop delivers queued SUB messages.
* `RpcData` and `RpcEnd`: the server finishes a stream it started.
* `PublisherUrlFound`: some peer eventually answers.
* `Heartbeat`: the leader keeps broadcasting while it is alive.

Commits, compaction and the faults are never forced. The faults are bounded
by `MaxFaults`, which stands for a cluster that eventually stabilises.

## Findings

1. **Snapshot restart duplicates chunks** (`part_001:398`). `lastLogIndex`
   moves only on a snapshot's last chunk. An `OutOfOrder` error in the middle
   of a transfer re-drives `_flushAhead`, which asks again from
   `lastLogIndex`, and the first chunks are pushed twice. The spec promises
   no duplicates.
2. **`close()` does not cancel the missing-entries RPC** (`part_001:188`).
   Its `data` handler keeps pushing after close. The spec says that request
   is cancelled on close.
3. **Crash after close** (`part_001:389`, `146-148`). After close, an RPC
   `end` or `error` calls `this.client.requestEntriesStream` on a null
   client, inside a Promise executor that nobody catches. A first read after
   close throws the same way: `_read` (line 150) calls
   `_requestPublisherUrl`, whose `request()` calls `client.requestConfig()`
   on the nulled `this.client` (lines 241, 244, 277) before the `.catch` is
   attached. The `sub.subscribe` at line 148 is harmless: it uses the
   constructor's own socket, which `close()` closes but does not null.
4. **Explicit `-i` is unchecked** (`zr-log-compact.js:91`). The index is
   not bounded by the commit index. The peer path bounds it, and the spec is
   silent.
5. **Cleanup removes a concurrent job's temp file** (`zr-log-compact.js:154`).
   After its rename, each run calls `cleanupTempFiles(targetFile)`. That
   removes the temp file another run on the same target is still writing or
   about to rename. The other run's rename then rejects, and it exits 1. The
   spec says snapshot temp files are exclusive per compaction job, and that a
   startup sweep removes orphans (spec.md 162).
6. **An older snapshot can supersede a newer one** (`zr-log-compact.js:153`).
   The rename installs over whatever is at the target. Job B (index 3)
   renames and lists file 0 (entries 1-2) for pruning. Job A, which asked
   earlier and got index 1, renames after it. Deleting the listed file then
   loses entry 2. The spec does not say whether runs may overlap.
7. **Overlapping `.info` pins the REPL's client** (`part_000:121`).
   `showInfo` saves `client.urls`, points the client at a peer, and restores
   the saved urls on the answer. A second `.info` typed while the first is
   pending saves the peer url. Its answer comes after the first one's
   restore and sets that peer url again, for good. A failed request skips
   the restore as well.

## Proofs

`SubscriberProofs` proves `THEOREM TypeCorrect == Spec => []TypeOK` for every
value of the constants that satisfies `ConstAssumption`. The argument is
`TypeOK` itself, which is inductive:

* `InitType` shows that `Init => TypeOK`.
* `NextType` shows that `TypeOK /\ [Next]_vars => TypeOK'`. It has one case
  per action, and under each case one step per field that the action
  changes.
* The operators that the actions are built from have their own lemmas:
  `EntriesType`, `ResponseType`, `PushType`, `RequestType` and
  `FlushAheadType`. They bound the indices produced by `_appendEntries`, the
  entries RPC and `_flushAhead` by `MaxIndex`.
* The temporal step is `PTL`.

The same property is checked by the run `subscriber_core`.

`WriterProofs` proves both properties of the `writer` run for every value of
the constants that satisfies `WriterAssumption`:
`THEOREM UpdateIndexHighestThm == Spec => []UpdateIndexIsHighest` and
`THEOREM AckedCoveredThm == Spec => []AckedCovered`.

Neither property is inductive on its own. For example, nothing in
`UpdateIndexIsHighest` stops a commit from changing the index of a request
that was already answered. The inductive invariant `IInv` adds three facts:

* every answered request is committed and bounded by `lastUpdateLogIndex`;
* every acknowledged request was answered;
* `lastUpdateLogIndex` is the start index or the commit index of some
  answered request.

`CommitRequest` only commits a request that is not yet committed, so it
cannot touch an answered one. `Resolve` raises `lastUpdateLogIndex` only
when the new index is higher, as the code does. `WriteCallback` runs only
once every request of its call has been answered (Promise.all).

TLC checked `IInv` as an invariant of the writer instance before it was
proved.

`DispatchType` is the lemma about `_writev`'s loop. It shows that what a
call sends stays among the requests, wherever the first request that is not
an UpdateRequest falls.

`LogCompactProofs` proves the two properties of the `compaction_peer_index`
run for every `MaxLog`, `MaxTerm` and `SegSize` that satisfy
`LogAssumption`:
`THEOREM SnapshotCommittedThm == ASSUME PeerIndexOnly PROVE Spec => []SnapshotOfCommittedLog`
and `THEOREM PrunedCoveredThm`, stated the same way for
`PrunedFilesCovered`.

The hypothesis `PeerIndexOnly` says that no command line gives `-i`. It is
needed: the `compaction_explicit_index` run shows that
`SnapshotOfCommittedLog` fails with an explicit index. It holds in `MCLogCompact`.

The inductive invariant `IInv` has five named parts:

* `TypeInv` gives the types.
* `FedInv` says that once the index is chosen it is committed. Once its
  term is looked up, the term and every fed entry are the log's.
* `TempInv` says the temporary snapshot exists only from the term lookup
  on, at the index, and holds the fed prefix before the rename.
* `TargetInv` says the installed snapshot is the committed prefix, and is in
  place from the rename on.
* `PruneInv` says nothing is printed before the prune step, and what is
  printed ends within the snapshot.

The argument rests on `PeerKeepsCommitted`. The peer's appends, commits
and truncations leave the log's first `commit` entries as they were, and
`commit` only grows. So everything the tool copied below the commit index
stays true.

`PrunedFileEnds` is the arithmetic of `listPruneFiles`: a file numbered
below the file of index `li` ends at or before `li`. The step proof has one
case per action and one step per part.

TLC checked `IInv` on the compaction instance before it was proved.

`LogCompactProofs` also proves
`THEOREM RefinementThm == ASSUME PeerIndexOnly PROVE Spec => Abstract!Spec`.
`Abstract` is `INSTANCE Compaction`, with the identity mapping on the target,
the printed files, the log, the commit and the prune index. The tool's other
variables and the peer's term are hidden. The proof has two lemmas:

* `RefineInit` shows that the initial states map to `Compaction`'s.
* `RefineNext` shows that, between two states of `IInv`, every step maps to
  an abstract step or a stutter. `Replace` is `Install`, `ListPruneFiles`
  is `ListPrunable` (or a stutter when it prints nothing), and the peer's
  steps are `RaftStep`. The other steps change no mapped variable.

`IInv` needs one more part for the refinement, `InstallInv`. Once the index
is chosen it is within the prune index. The target is still empty before
the rename. `TempIsSnapshot` shows that the renamed file is `Compaction`'s
`SnapshotAt(lastIndex)`.

`SubscriberOrderProofs` proves the two ordering invariants of the
`subscriber_core` and `subscriber_close` runs for every value of the
constants that satisfies `ConstAssumption`:
`THEOREM EntriesInOrderThm == Spec => []EntriesInOrder` and
`THEOREM LastIndexThm == Spec => []LastIndexMatchesDelivered`.

Neither invariant is inductive on its own. An `RpcData` step pushes the
head of the RPC stream, and nothing in the two properties says what that
head is. The inductive invariant `IInv` adds two parts:

* `StreamInv`: the pending RPC stream is a well-formed answer to a request
  from a position at or behind `lastLogIndex`. It is either a run of
  consecutive entries that starts at most one past `lastLogIndex`, or the
  tail of a snapshot's chunks followed by the entries after the snapshot.
* `MaxDefined`: every prefix of `delivered` that contains a completed item
  has a last completed item. `PositionAfter` takes a `CHOOSE` over those
  items, and the provers cannot show by induction that it exists.

The argument:

* `PushOne` and `PushEntries` show that pushing an entry at
  `lastLogIndex + 1`, a chunk past it, or the entries
  `lastLogIndex + 1 .. m` keeps the order and moves the position as the
  code moves `lastLogIndex`.
* `StreamResponse` shows that what the leader answers to
  `_requestMissingEntries` from `from` is a stream for `from`.
* `StreamTail` shows that dropping the head that `RpcData` consumed leaves a
  stream for the new `lastLogIndex`.
* `StreamMono` shows that a broadcast which raises `lastLogIndex` keeps the
  stream valid. A stream from an older position stays valid: `RpcData`
  skips items at or below `lastLogIndex`.
* `FlushAheadOrder` covers `RpcEnd` and the `OutOfOrder` branch of
  `RpcError`.
* `NextIInv` has one case per action.

TLC checked `IInv` before it was proved, as an invariant of the subscriber
instance with 2 and 3 chunks.

`CompactionRaceProofs` proves `THEOREM RaceSnapshotThm == ASSUME
PeerIndexOnly PROVE Spec => []SnapshotOfCommittedLog` for the two
overlapping jobs of `compaction_race`, for every `MaxLog`, `MaxTerm` and
`SegSize` that satisfy `RaceAssumption`.

The single-job `IInv` does not hold in the race. Its `InstallInv` says the
target is empty before the job's own rename, and `TargetInv` says the
target is at the job's index after it. The other job's rename breaks both.

`LogCompactProofs` therefore also states `JobInv`: `TypeInv`, `FedInv` and
`TempInv`, and of the target only `TargetCommitted` (the target holds some
committed prefix). These lemmas keep `JobInv`:

* `JobToolStep`: each step of the job.
* `JobRaftStep`: the peer's steps.
* `JobRenameFails`: the failed rename.
* `JobFrame`: any step of another job that puts a committed snapshot at the
  target.

`CompactionRaceProofs` instantiates `LogCompactProofs` once per job (`PA`,
`PB`) and uses these lemmas. `ToolA` and `ToolB` show that each job's
actions in `CompactionRace` are the single-job actions. The race invariant
`RaceInv` is the conjunction of both jobs' `JobInv`.

The argument: whichever job renames, it renames its own temporary file.
Its `TempInv` says that file is a committed prefix at the job's index.
`RenameFails` and `CleanupTempFiles` change no target.

TLC checked `RaceInv` on the race instance before it was proved (96,396
states).

These properties are checked only by TLC:

* `Repl`'s `UrlsRestored`, and the properties of the violation runs, which
  fail by design.
* `CatchesUp`, because it is liveness: TLAPS does not handle fairness or
  ENABLED.
* The subscriber's `SnapshotChunksContiguous` and `NothingPushedAfterClose`,
  which fail in the code (see Findings).

## Not modelled

* **The REPL's printing** (`part_000`): the console output, the listing
  formats and the subscriber the REPL creates, which is `Subscriber`'s.
* **The helpers unit tests** (the rest of `part_000`). They test pure
  functions of `lib/utils/helpers.js`, which is not under `src/`, with fixed
  tables, and hold no state.
* **The cluster client, FileLog, SnapshotFile and the raft server.** They
  are not under `src/`. Only their observable behaviour is modelled, from
  the spec.
* **Payloads, encodings, file names and logging.** No property is about
  them.
