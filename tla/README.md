# A verification development of slimSync

slimSync watches a directory in which another program (sovProbe) writes numbered
segment files, cuts what is new into chunks, publishes the chunks on a Zenoh bus,
and tells the receiver when a segment is complete. The modules here model that
program in TLA+, check it with TLC on small instances, and prove its most
important safety properties with TLAPS for every instance.

Line numbers below are those of `src/src/<file>`.

## 1. Inventory

| Component | State | Operations | Module | Status |
|---|---|---|---|---|
| Segment state machine (`segment.rs`, `ledger.rs:243-343`) | table `segments`: state, size, hash, synced offset | upsert, seal, delete, max, `plan_segments` | `SegmentLedger` | modelled |
| Cold start (`main.rs:213-345`) | scan, plan, delta | scan, plan, drop unlisted rows, sync, record or seal; send the delta, forget what is gone | `SegmentSync`, `FileSync` | modelled |
| Tracker loop (`tracker.rs`) | event queue, `last_seen_at`, `dirty_files` | absorb, debounce, `handle_segment_event`, `seal_lower_segments`, audit, checkpoint, watch commands | `SegmentSync`, `FileSync`, `WatchDirs` | modelled |
| Bus (`bus.rs`) | session or none | `process_file`, `publish_batch`, `send_seal` | `SegmentSync`, `SegmentFeed` | modelled |
| Gap server (`bus.rs:62-125`) | none of its own | answer a gap query by slicing again | `GapRepair`, `GapClaims` | modelled |
| FastCDC iterator (`slicer/cdc.rs`) | buffer, indices, file offset | open, fill, compact, scan, cut | `CdcRule`, `FastCdc` | modelled |
| Slice dispatch, AST track (`slicer/mod.rs`, `slicer/ast.rs`) | none | choose the track, split at blank lines | `Slicer` | modelled |
| Non-segment files (`tracker.rs:204-253`, `main.rs:246-265,328-344`, `ledger.rs:165-219`) | `sync_checkpoints`, `dirty_files` | audit, resend, checkpoint, delta | `FileSync` | modelled |
| Scanner (`scanner.rs`, `platform/linux.rs`) | channel, batch, `temp_scan` | walk, stat, send, flush | `FileScan` | modelled |
| Watched directories and IPC (`main.rs:349-507`, `tracker.rs:255-298`) | `active_dirs`, `watched_dirs`, OS watches | add, remove, list | `WatchDirs` | modelled |
| Linux watcher (`platform/linux_tracker.rs`) | inotify watches, control channel | start, add, remove, map and forward events | `WatchDirs`, `FileSync`, `SegmentSync` | partly: no recursion, no late errors of `watch()` |
| Configuration, encryption, other platforms | none that changes | | - | not modelled: no control that a property here depends on |

How they interact. `run_foreground` and `run_daemon` open the ledger and the bus,
start the gap server, run cold start **to its end**, and only then spawn the tracker.
Cold start and the tracker call `process_file` and `send_seal` on the bus and write
the ledger; they never run at the same time, and the tracker handles one event at a
time, awaiting each `process_file`. What runs beside them is the probe, which appends,
rotates and unlinks at any moment, and the watcher thread, which queues what the probe
does in order. The gap server is a task of its own from before cold start to the end,
which reads the ledger and the files and writes neither. `serve_ipc` runs beside the
tracker and reaches it only through a queue of commands; the watcher's control thread
and the forwarder of its events are two more threads. The ledger mutex is not held
across an await.

What is hard here, in order of importance:

* the probe moves between any two system calls (listing, stat, hash, open, read, stat);
* a crash between two steps, with the ledger as the only memory of what was done;
* events that come late, are dropped by the cooling window, or are never raised because
  the watch starts after cold start;
* reads, puts and sessions that fail while the code goes on, and a transport that drops
  what it accepted;
* files other than segments, which are overwritten, truncated, renamed to and from a
  path and removed while they are read, with a checkpoint whose inode is never stored;
* commands that are acknowledged before three effects in two threads, and a tracker task
  that may die while they are;
* a chunker with a bounded buffer, whose cuts must not depend on the sizes of the reads.

What makes each component correct: the ledger never claims a byte that was not handed
over; a SEALED row is final and stays; a seal comes after all the bytes of its segment and
leaves no known segment below it behind; cold start omits nothing (the defect `segment.rs:3-10` describes); rotation
and restart seal what the probe has left; the chunker returns every byte once, with the
cuts of a whole-file chunker.

## 2. Plan

Done: the segment state machine `SegmentLedger`, `SegmentSync` with its contract
`SegmentFeed`, its inductive invariant `SegmentInv` and its proofs; `GapRepair`, which
composes the gap server with it; the chunker `CdcRule`, `FastCdc` and the dispatch
`Slicer`; files that are not segments, `FileScan` and `FileSync` with `FileInv`;
`WatchDirs`; the refuted statements `SegmentClaims`, `GapClaims`. Every
safety property the runs check has a theorem (section 9).

| Modules | Inductive invariant | Proofs |
|---|---|---|
| `SegmentSync`, `SegmentFeed` | `IInv` (`SegmentInv`) | `SegmentTypeProofs`, `SegmentSealProofs`, `SegmentOrderProofs`, `SegmentFeedProofs` |
| `FastCdc`, `Slicer` | `CdcInv`, `SliceInv` | `SlicerProofs` |
| `GapRepair` | `GapInv` | `GapProofs` |
| `FileScan`, `FileSync` | `FilesInv` (`FileInv`) | `FileProofs` |
| `WatchDirs` | `DirsInv` | `WatchDirsProofs` |

Next:

1. The safety of segments beside the gap server: `GapInv` contains `IInv`, so that
   `NoneLeftBelow` and the others hold of `GapSpec` as they do of `Spec`; and a contract of
   the receiver that the composition refines when nothing is lost.
2. A contract for files that are not segments, as `SegmentFeed` is for segments, and
   `FileSync` shown to implement it.

## 3. The model of segment synchronisation

**Time scale.** One thread of control does all the work, so the daemon is a program
counter `pc` and the locals of one call (`job`); each system call on a file that the
probe may touch is a step of its own, and what happens between two of them is one step.
`process_file` is `OpenFile`, then `PublishBatch` for as many batches as it likes, then
`FileSynced`; its callers are told apart by `job.caller`: `cold` (main.rs:305), `seal`
(tracker.rs:393) and `event` (tracker.rs:342). What a caller reads before the sync and
uses after it is a field of `job`: the length it stat'ed, and `sealed`, the `was_sealed`
of tracker.rs:331-337 that decides at 349 how the row is written. `EventKnowsRow` of the
invariant says that the row still agrees with it, since nothing else writes rows then.

**Data.** Bytes are counted in records. A segment is append-only (`segment.rs:12-14`),
so its content is given by its length and its SHA-256 is represented by that length;
`ZeroHash` is the `[0u8; 32]` stored when the file could not be read. `put` holds the
records handed to `publish_batch`, `sent` those a put accepted, `seals` the accepted
signals; the three are history and guide no step.

| Code | Actions |
|---|---|
| sovProbe (external) and inotify | `CreateSegment`, `AppendRecord`, `UnlinkOldest`, `Notify` |
| process start, crash, panic | `Start`, `Crash`, `Panic`; a crash keeps disk and ledger |
| directory walk and metadata | `ListDir`, `StatDir`, `StatPanic` |
| `plan_segments`, drop of unlisted rows | `PlanSegments`, `PlanPanic` |
| execution of the plan | `ColdSkip`, `ColdSync`, `ColdGone`, `ColdActive`, `ColdSealed` |
| `tracker.run`: watch, absorb, debounce | `StartWatching`, `AbsorbEvent`, `AcceptEvent`, `WakeRemoved`, `WakeChanged`, `CoolDown` |
| `seal_lower_segments` | `SealSkip`, `SealGone`, `SealExists`, `SealStat`, then `process_file`, `SealRow`, `SendSeal`, and `SealLoopEnd` |
| `handle_segment_event` | `EventStat`, `RecordTail`; `SealRow` and `SendSeal` for a row that was SEALED |

**The cooling window.** `last_seen_at` holds one path at most that is recent: any other
entry is older than the debounce sleep just done. `cool` is that path and `CoolDown` the
passing of time.

**Assumptions about the environment.** Segments are created in ascending order, only the
highest is appended to, and the oldest is unlinked first, never the active one
(`segment.rs:12-14`). inotify delivers in order and loses nothing while the watch
stands; an overflow of its kernel queue is not modelled. There is one directory, with
the inotify backend. SQLite commits are durable and do not fail: the code ignores their
errors, and a power loss under `synchronous=NORMAL` is not modelled. A session, once
refused at the start, is not retried, as in `Bus::connect`.

**Bounds.** `MaxSeq` and `MaxSize` are the highest segment number and the length of a
full segment; `MaxCrashes` and `MaxFaults` bound crashes and failed puts or reads. Three
segments are enough for a walk over two lower segments, of which one may be unlinked;
two records for a segment that grows between two system calls of one sync. One crash
puts a restart after every step; more would repeat it from a ledger that the proofs
cover anyway.

**The contract.** `SegmentFeed` says what a receiver may rely on: the records handed
over of each segment are a prefix of the file, and a signal is of a segment that the
probe has left, with its final size, after all its records unless a put or a read has
failed. A segment unlinked while it is being sealed is excepted, because the code then
announces the size it could still read, possibly 0 (tracker.rs:387). The contract
speaks of records handed to `publish_batch`; that what a put lost is repaired is
`GapCloses` and, for other files, `RestartRepairs`.

**The order of the seals.** `NoneLeftBelow` says that no row of a segment on disk stays
UNFINISHED below a SEALED one. The signals themselves are not ascending: a segment created
between scan and watch has no row, is skipped when the next is sealed, and is announced by
a later cold start behind it (`claim_order`, section 8). Nor does `CreatedSealsLower` reach
that case: it is about rows, and about a rotation whose event was queued.

## 4. The model of the chunker

`CdcRule` is the cut rule on a file whose bytes are represented by what the two masks
make of the hash there. The hash is shifted by a bit per byte, so the low 5 bits depend
on the last five bytes only, and no chunk is cut before byte 2048: resetting the hash at
a chunk boundary does not matter. `ChunkEnd` is the reference of the tests
(`cdc.rs:173-208`). `FastCdc` is the iterator: the buffer names bytes by their offset in
the file, so that any error of the indices shows as a wrong offset. The fill loop is
`ReadBlock`, `ReadNothing` and `Filled`; the scan is `CutChunk`, `EmitRest` and
`Exhausted`. A read returns any number of bytes up to what was asked, or fails.

The constants are scaled down (`MinChunk` 1, `AvgChunk` 2, `MaxChunk` 4, `Block` 2), so
that files of 7 bytes fill the buffer, compact it with unprocessed bytes in it, and read
on. Any file up to that length and any start offset, also beyond the end, is an initial
state.

The inductive invariants stand beside the properties: `CdcInv` says that the buffer holds
the bytes of the file from `base` on, in order, that what was cut ends where the
unprocessed bytes begin, and that no cut was passed over; `SliceInv` adds the lines.

`Slicer` puts the dispatch in front: a text of the AST track is what follows
`start_offset`, any offset, given by its lines (a length of up to `MaxLine`, whether
`trim` leaves nothing, and a terminator of 1, 2 or, on the last line, 0 bytes) and split by
`SplitParagraph`, `NextLine`, `LastParagraph`. `Counted` is what the code takes for the length of the lines before, which is short by one for each
"\r\n"; `Splits` compares a byte offset with a line index, as ast.rs:29 does, so that
most blank lines after the first split do not split. A file of the AST track that is
unreadable, not UTF-8 or no longer than `start_offset` takes the other track.

## 5. The model of gap repair

`GapRepair` EXTENDS `SegmentSync`: every step of daemon and probe is one of `Live`,
`Boot`, `Down`, with the transport added to it, which may drop a batch that a put has
accepted (`Transport`). The server is `gap`: it waits, has looked the row up
(`GapLookup`), has found the file (`GapExists`), has opened it (`GapOpen`) and sends
(`GapPublish`); the other answers are `GapUnknown`, `GapGone` and `GapResent`. The
ledger lock is taken for the look-up only, so cold start, seals and unlinks come between
any two of these. A put of the server may fail, and a read that fails ends its loop.

The receiver is not in the repository. `AskGap` is what bus.rs:56-61 says of it: on a
seal signal it asks for what is missing from its first hole on. That it asks no more for a
segment it was told is "gone" or "unknown" (`givenUp`) is an assumption of the model: the
two answers leave it nothing else to do. Its query times out when the process dies. The
transport drops batches and never a seal signal: a segment that is never announced is
never asked for.

The run has segments of one record, so that every hole begins at 0: a hole in the middle
and the re-cut tail of `claim_boundaries` are out of its reach (`claim_boundaries` has two
records). The theorems of section 9 hold for segments of any size.

`GapInv` puts five layers on top of `IInv`: a removal is reported only after the unlink;
an announced segment is listed by the scan of a restart and has a row as long as its file
is there; a query names an announced segment; and what was given up is gone.

`GapClaims` adds the bytes: each batch is one chunk, cut by `CdcRule`, and compares what
is sent again with what was sent before.

## 6. The model of other files

`FileScan` is the scan: the producer's walk (`Stat`, `SendRow`, `NextDir`, `StatFails`),
the bounded channel, and the consumer's batch with its three flushes (`ReceiveFull`,
`TimeoutFlush`, `Disconnected`) into `temp_scan`, whose PRIMARY KEY makes a path that
comes twice an error (`InsertFails`). `inner` are files that a second watched directory
inside the first would list again.

`FileSync` EXTENDS it with the delta (`PlanDelta`), its execution (`ColdSend`,
`ColdForget`) and the tracker (`DropEvent` to `Checkpoint`). A file is its inode, the
version of its bytes, its length and its mtime; other programs create, append to,
overwrite, rename and remove it at any moment. `job` is one call of `process_file` with
its descriptor: an overwrite shows through it (`ViewEnd`, `ViewVer`), a rename or an
unlink does not (`Frozen`). The iterator stops at the length at open; the AST track has
read the file whole.

| Code | Actions |
|---|---|
| other programs and inotify (external) | `CreateFile`, `AppendFile`, `OverwriteFile`, `RenameInto`, `RenameAway`, `RemoveFile` |
| the kinds of linux_tracker.rs:151-156 | `ChangeKind`, applied by `Change` |
| start, crash, the `expect` on the scan | `Boot`, `Crash`, `ScanPanic` |
| `batch_scan`, `fast_scan` | `ScanStep`, with the actions of `FileScan` |
| `compute_delta_manifests` and its execution | `PlanDelta`, `ColdSend`, `ColdForget` |
| `tracker.run` | `StartWatching`, `DropEvent`, `AcceptEvent`, `WakeRemoved`, `WakeChanged`, `Checkpoint`, `CoolDown` |
| `process_file` | `OpenFile`, `PublishBatch`, `ReadError`, `FileSent` |

**Renames.** The event thread maps every `EventKind::Modify(_)` to Modified, and notify
reports a rename as `Modify(Name(_))`: `RenameInto` and `RenameAway` raise Modified, as
`ChangeKind` says. The rotation of README 9.4, a rename away, therefore does not drop the
checkpoint: the tracker audits a path that is gone (offset 0), sends nothing, and writes a
checkpoint of 0 bytes (tracker.rs:214-247). `moved` is history: the paths last renamed away
in this life and not taken since. `AbsentIsForgotten` says that such a checkpoint is the
only one that outlives its file, and that it covers no byte, so that it makes nothing of a
file that takes the path later be skipped; the next restart drops it.

`FileInv` has the invariant the proofs use: `NoneMissed` and `NoneTwice` follow the rows
of the scan from the walk to the table, `LastSays` ties the last queued event of a file
to whether it was unlinked, `MovedIsEmpty` says that a sync of a path that was renamed away
has nothing to read, and `Forgetting` and `Delivering` say of each file that what is not
forgotten or sent yet still will be.

`lost` is history: the files of which a change was dropped (cooling window, exclude
pattern), came between scan and watch, or met a failed put or read. The safety properties
except those files, `PanicsOnlyOnVanished` and `ScanIsComplete` more than they need to.
`RestartRepairs` excepts none: it starts from any state in which the process is down after
the last change and the last failed put or read, with the bounds on crashes and on faults
apart, and says that the daemon comes up again, that `online` of the new life implies that
every file there is has been sent, and that no file that is gone has a checkpoint, also not
that of a rename away.

`FilesInv`, `PresentIsSent` and `RestartRepairs` expect an excluded file to be sent by cold
start. The exclude patterns are consulted for events only (tracker.rs:156) and the scan
lists every file, so this is what the code does; whether it is meant is not said anywhere.

That it does rests on a slip: `sync_checkpoints` has columns for device and inode, but no
statement stores them (tracker.rs:241-245). They are 0, so the auditor resets on every
event and the delta takes every file for modified, though README 9.4 describes an append
path for an unchanged inode. The mutants show what would happen otherwise: with the inode
stored (`CheckpointInode`) an overwritten file that has grown is sent from the middle, and
without it in the delta (`ModifiedBySize`) an offline replacement of the same size is
missed. `Append` of the auditor is therefore never returned by the code as it is.

## 7. The model of watched directories

`WatchDirs` has the threads of the daemon side by side: connections (`RequestChange`,
`RequestList`, `RequestOther`), the tracker with its three effects per command
(`UpdateActive`, `SendControl`, `Persist`) and its answer to a list, the control thread
(`ApplyControl`), and the forwarder (`Forward`) that filters OS events by the active set.
A tracker that fails to start is `dead` while IPC is served: its queue is dropped, and a
list is answered by an empty one. Under fanotify there is no control channel.
`want`, `asked` and `base` are history: the last command acknowledged on each directory,
what the awaited answer must hold, and the table at the start of this life.

`SettledAgrees` also records what a restart does not do: a directory of the table is
active again, but the OS watches only those of the configuration (tracker.rs:91, 99).

## 8. Runs

| Run | Shows | Bounds |
|---|---|---|
| `ledger` | `LedgerCovered`, `SealedIsFinal`, `NoneLeftBelow`; `CreatedSealsLower`: once a rotation is queued no lower row stays UNFINISHED | three segments of one record, online, a crash, no fault |
| `feed` | `SealsFinal`, the strengthening `IInv` the proofs use, and the refinement `FeedSpec`; `PlanOmitsNothing` and `NoUnseal`, which only a failed read puts to the test; `RestartSealsClosed`: a segment rotated while the daemon was down is sealed after a supervised restart | two segments of two records, online and offline, a crash, a fault |
| `cdc` | `SliceInv`, `ReassemblesExactly`, `CutsAsWholeFile`, `EndsAtEnd`, `ChunkBounded`, `Terminates`; `TextReassembles` for the AST track | files of up to 7 bytes, texts of up to 5 lines of up to one byte, any `start_offset` up to 7 |
| `gap` | `GapInv`; `GivesUpRightly`: "gone" and "unknown" are said only of a segment whose file is gone; `GapCloses`: every hole in an announced segment closes | two segments of one record, a crash, two losses or faults |
| `files` | `FilesInv`, `PresentIsSent`, `AbsentIsForgotten`, `ScanIsComplete`, `PanicsOnlyOnVanished` | two files, two changes, files of two records, a crash and a fault, batches of two rows |
| `restart` | `RestartRepairs`: after the last change and the last fault a restart sends every file and drops every other checkpoint | the same with files of one record |
| `dirs` | `DirsInv`, `SettledAgrees`, `ListSeesAcknowledged`, `FiltersOnlyRemoved`, `ListIsAnswered`, `AddTakesEffect` | two directories, three commands, one list at a time, one OS event in flight, a crash |

`IInv`, `SliceInv`, `GapInv`, `FilesInv` and `DirsInv` are the inductive invariants of
section 9, with the type invariant of the module among their conjuncts; `ledger` checks
that of the segments by itself.

The bounds of `files` are small but reach every hazard listed: one change is noticed, the
second comes while the first is handled or after a restart, a file is renamed away and
another takes its path; a fault may come before the crash and the restart; a batch of two
fills, times out and is flushed at the end, though two files never fill the channel; the
one excluded file is also the one of the AST track, and in one of the two layouts it lies under two watched directories. Those of `dirs` let
an add, a remove and another add of one directory overtake a list, or meet a crash. In
`gap` one loss may hit the tracker's batch and another the repair; the last segment of the
bound is never closed and so never announced.

**Fairness.** `FairSpec` of `SegmentSync` assumes weak fairness of the daemon's next step
and of `CoolDown`: the Tokio runtime polls the task, the timer of the debounce sleep
expires, and time passes. Nothing is assumed of the probe, and faults, crashes and session
failures are never required. `SupervisedSpec`, there and in `FileSync`, adds weak fairness
of the start: a service manager restarts the daemon. `FairGapSpec` assumes weak fairness
of the server task and of the receiver's query: it asks again as long as something is
missing; it assumes nothing of the daemon, and a hole of a segment that is never
announced owes nothing. `FairSpec` of `WatchDirs` assumes weak fairness of the tracker
task and of the control thread, none of the clients and none of the forwarder.
`SliceSpec` has the loop of `process_file` drive the iterator.

Deadlock is checked in `dirs`, where clients may always ask. Elsewhere the system stops:
the probe when the segments are full and the daemon then waits for events, other programs
when the bound on changes is reached, and the iterator at the end of its file.

### Statements the code does not keep

Five statements of comments are formalised in `SegmentClaims` and `GapClaims` and
refuted by a run each:

* `claim_announced` - `bus.rs:127-128` has the receiver rely on the seal signal to fix a
  segment's boundary. A crash after `seal_segment` and before `send_seal` (tracker.rs:404-407,
  main.rs:317-320) leaves a SEALED row that cold start skips, so its signal is never sent.
* `claim_skipped` - `tracker.rs:378` says that a segment without a row is handled by its
  own Created event. One created after the scan and before the watch has no event; the
  next rotation skips it, and only a restart would find it.
* `claim_modified` - `tracker.rs:143` says that events within the window are merged into
  one handling. An event of bytes written after the file was read, but within the window,
  is dropped, and the tail waits for another event.
* `claim_boundaries` - `bus.rs:60-61` says that slicing again from a chunk boundary
  reproduces the original boundaries. The last chunk of a sync ends where the file ended
  then; sent again later it goes on to the next cut. `GapCloses` shows that the bytes
  arrive all the same: what a receiver must not do is to tell chunks by their boundaries.
* `claim_order` - `main.rs:286` says that the plan is carried out in ascending order so
  that seal signals are published in order. They are within one cold start. A segment that
  has no row, as in `claim_skipped`, is passed over while the next is sealed and announced;
  a crash and a cold start later it is announced behind that one.

## 9. Proofs

TLAPS proves the theorems for every value of the constants that satisfies the named
assumptions: `BoundsAssumption`, `SessionsAssumption`, `FaultsAssumption` for segments and
the gap server, `ChunkAssumption` and `BlockAssumption` for the chunker and
`LinesAssumption` for the dispatch, `BatchAssumption` and `FileAssumption` for other files,
`WatchAssumption` for directories. They are about the specification of the component's
module (`Spec`, `SliceSpec`, `GapSpec`), and none needs fairness. Each component has an
inductive invariant, checked by its run, and its safety properties follow from it.

### Segments

The invariant is built in layers (`SegmentInv`), each inductive relative to those below:

1. **Types** (`SegmentTypeProofs`): `TypeOK`, and that `job.seq` is an index wherever it
   is used as one.
2. **Coverage**: ledger, plan and running sync count only what was handed over.
   Theorems `LedgerIsCovered`, `ColdStartOmitsNothing`.
3. **Origin**: a number in the queue or the scan is of a segment that exists; the scan is
   forgotten once the tracker runs.
4. **Sealing**: a sync that ends in a seal is of a closed segment, with its final size.
   A closed segment stays closed, which is why a stat, a sync and a hash at three
   different times agree. Theorems `SealedRowsAreFinal`, `SealedRowsStay`.
5. **Announcing**: what a seal announces was handed over. Theorem `SealsAreFinal`.
   Layers 2 to 5 are in `SegmentSealProofs`.
6. **Order** (`SegmentOrderProofs`): events are queued in ascending order and every SEALED
   segment lies below all that are queued, so the tail of an event is never recorded over
   a sealed row or below one; then the two walks over the segments leave nothing
   UNFINISHED behind them. Theorem `NoneIsLeftBelow`.
7. **Prefix** (`SegmentFeedProofs`): the records handed over are a prefix of the file.
   With it each step maps to a step of `SegmentFeed` or to none. Theorem
   `DaemonImplementsFeed`.

`NoneLeftBelow` alone is not inductive: recording a tail (`RecordTail`) preserves it only
because the event in hand is above every SEALED row, which in turn needs the order of the
queue and that nothing is queued during cold start.

Theorem `SyncInvariant` puts the layers together: `IInv`, which the gap server's proof
starts from.

### The chunker (`SlicerProofs`)

`CdcInvariant`: a read appends, a compaction drops what was processed and a cut moves the
boundary, and each leaves the buffer a window on the file. `CutsDoNotDependOnReads` needs
in addition that the scan has passed no cut: the reference takes the least cut of the
whole file, and the iterator looks only at what is in its buffer, which is as long as the
largest chunk unless the file ends. That the reference has a least cut is the
well-foundedness of the naturals. `ChunksReassemble`, `NothingIsLeft` and `ChunksFit` are
the properties of the run, `ParagraphsReassemble` that of the AST track, for lines of any
length and any `start_offset`; `SliceInvariant` carries them through the dispatch.

### Gap repair (`GapProofs`)

`GapInvariant` and `DismissedIsGone`. That "unknown" is said only of a segment whose file
is gone is not inductive: it needs that an announced segment is recorded as long as it is
on disk, through a restart, whose scan may drop rows, and through the removal of a row,
which comes only after the unlink. A fault of the transport touches nothing of the
daemon, so that `IInv` holds beside it unchanged.

### Other files (`FileProofs`)

`FilesInvariant`, then `ScansAreComplete`, `PanicsAreJustified`, `PresentAreSent` and
`AbsentAreForgotten`. The scan: a row is always at exactly one of the walk, the channel,
the batch and the table, so a flush violates no UNIQUE constraint unless a directory is
walked twice or a file was created meanwhile. The queue: the last event of a file says
whether it was unlinked, hence a checkpoint written for a file that was unlinked while it
was sent is followed by a Removed event. One renamed away is followed by a Modified event,
whose handling finds nothing to read and leaves a checkpoint of 0 bytes (`MovedIsEmpty`).
Sending: a change of the file in hand is queued behind it, except in cold start, where it is lost. The proof of `PresentAreSent` uses
`Inodes`, the slip of section 6: no stored inode is that of a file, so every send starts
at 0; with the inode stored (the mutant `CheckpointInode`) the property is false.

### Watched directories (`WatchDirsProofs`)

`DirsInvariant`, then `CommandsSettle`, `ListsAgree` and `FilterIsRight`. That everything
agrees once the queues are empty says nothing of a step before; the invariant says for
each directory to what the rest of the queue, of the command in hand and of the control
channel lead, and that this is what was acknowledged last. A list is answered in the order
of the queue, so that its answer is the table as of the commands before it.

### Only model-checked

The liveness properties (`CreatedSealsLower`, `RestartSealsClosed`, `Terminates`,
`GapCloses`, `RestartRepairs`, `ListIsAnswered`, `AddTakesEffect`): they need fairness and
ENABLED, which the prover does not handle. The refuted claims of section 8 are
counterexamples of runs.

## 10. Not modelled

* Configuration, encryption, framing and topic names: no control that a property depends
  on. `is_excluded` is a constant set of files.
* The other platforms: the same interface as the Linux scanner and watcher.
* The command line, the PID file and the socket's framing (main.rs:1-175, 375-410).
* Recursion of inotify watches and what `unwatch` does to a nested directory; errors of
  `watch()` in the control thread, which are dropped (linux_tracker.rs:136); the overflow
  of the kernel's event queue.
* The fanotify backend beyond having no control channel: its events have empty paths and
  are dropped by the filter and by the loop (`linux_tracker.rs:86-89`, `tracker.rs:153-155`).
* Two changes of a file within one tick of its mtime, and device numbers: a file is told
  by its inode.
* Two watched directories with segments of the same number; segments and other files in
  one instance: they share the loop, which handles one event at a time, and no table.
* A rename from one watched path to another as one step (it is a `RenameAway` and a
  `RenameInto`), and the further events notify raises for a rename (`Name(Both)` names both
  paths again): they repeat a Modified that is queued already.
* A full channel of the scanner, on which the producer waits: the module has it, the bounds
  of the runs do not reach it.
* Files that are not segments on the wire: they are published as segment 0 (`bus.rs:158`),
  so that their addresses collide with those of segment 0 and of each other for a receiver
  that reassembles by (dev_id, segment_seq, offset) (`bus.rs:15`).
* A failure of SQLite, and a power loss under `synchronous=NORMAL`.
* `chunk_hashes` and `sent_hashes`: created and never used. `dirty_files` is written and
  never read, though README.md:338 has the restart read it.
