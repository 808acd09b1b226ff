# HouYiCoder in TLA+

HouYiCoder is a coding agent: a terminal front end, a service that owns the
sessions, an agent core that runs turns against a model provider, and below them
the stores that make a session survive its process. This directory models the
parts whose correctness depends on the order of steps: what is on disk after a
crash, what a reader sees while a writer moves, what a frontend holds after its
connection failed. TLC checks the models on small instances, TLAPS proves the
most important invariants for every instance.

All paths below are under `src/crates/`.

## 1. The system

### Components

| Component | State it keeps | Operations | Correct when |
|---|---|---|---|
| **Session log** `houyicoder-session` (`lib.rs`, `chain.rs`) over `houyicoder-memory/src/local_file` (`records.rs`, `log_index.rs`, `log_windows.rs`) | `log.jsonl`, the cached hash of its last line, the ids written | `append`, `append_if`, replay, `verify_disk_chain`, resume | the file is one hash chain, an append that answered Ok stays readable, a claim is written once, a verdict is about the file |
| **Log state and paged reads** `houyicoder-session` (`trajectory.rs`, `log_windows.rs`) | bounded window of newest rows, `base_index`, epoch offset, durable count | note an append or a delta, trim, fold, restore, clear, page | the state agrees with the log, a reader paging back misses and repeats nothing |
| **Event sequencer** `houyicoder-service/src/server` (`event_sequencer.rs`, `outbound_frames.rs`) | next sequence number, position in the log, pending frames, reliable window and floor, newest status per agent | enqueue, attach with or without cursor, replay round, flush, send, reset | every frontend that catches up holds every record, every notice still kept and the newest status, in order |
| **Resource breaker** `houyicoder-resilience` with the command life of `houyicoder-sandbox/src/mac` | breaker state and instant, aggregate CPU, commands in flight, consecutive overruns | `try_acquire`, `record(Start)`, `record(End)`, cool-down | the counters are exact, exceeding a limit opens it, a refusal ends |
| **File write journal** `houyicoder-core/src/snapshot/file_transaction*` | prepared and committed records, stored blocks, per-target lock | `write`, `recover` (classify, settle), `restore` | no bytes are overwritten unrecorded, recovery's verdict is right, a commit is true |
| **Block store and reclaim** `houyicoder-memory/src/local_file/blocks*` | content-addressed blocks and their ages, buckets of named addresses, the persisted mark cursor | put, import, mark, resume, relist, sweep | a block some reference names is never swept, an orphan is swept in the end |
| **Session lifecycle and lease** `houyicoder-service/src/lifecycle`, `server/session.rs` | one state per session, the parked turn | take, release, park, advance, unpark | at most one connection drives a session, every way out gives the lease back |
| **Approvals** `houyicoder-service/src/server` (`server.rs`, `child_permission.rs`), `core/src/agent/turn` | asks parked, the cards shown, the runner's flags | ask, answer, Esc, leave, offer again, a child's ask | a verdict reaches the call it was given for, a parked turn is taken up again |
| **Turn loop, interruption, driving** `houyicoder-core/src/agent`, `server/driving.rs` | the run in progress, open calls, results | start, call tools, interrupt, resume, reconcile | a tool starts only on somebody's word, every call gets one result |
| **Notification drain** `houyicoder-service/src/composition/notification_drain.rs` | queued notices | queue, take, append | the model reads of every ending |
| Compaction and context retention `houyicoder-core/src/agent` | what is in the window, the summary's boundary | start, install, fail | nothing after the boundary is dropped, a failed summary drops nothing |
| **Multi-agent spawn, boundary claims, orphans** `houyicoder-service/src/composition/multi_agent` | children's tasks, claims, spawn and return records, the scan generation | spawn, continue, hand over, return, reconcile | one driver per child, each spawn closed once, each ending told once |
| **Concurrency gate, admission, shutdown join** `core/src/agent/multi_agent/concurrency_gate.rs`, `composition/multi_agent/children.rs` | permits, queue, filed children, tokens | acquire, wait, leave, admit, watch, close, join | no slot leaks, no child outlives the join |
| Session lock, history, housekeeping `houyicoder-cli/src/session` | a flock and the in-process registry | lock, release | one process per session |
| Message bus `houyicoder-async` | inboxes, broadcast ring of 256 | register, send, receive | a lagging receiver is told |
| Worktree controller `houyicoder-core/src/agent/worktree` | the fence and the saved root | enter, leave | leaving restores what entering replaced |
| Permission rules `houyicoder-permission` | rules by source | decide | deny wins, a compound command is no more permitted than its parts |
| Recap, hooks, memory, tools, skills, provider, inference, configuration, protocol, TUI, graph, wasm | see `PROJECT.json` | | |

### How they interact

```
 frontend  <-- frames, cursors -->  EventSequencer --pages--> LogState --folds--> SessionLog
                                        ^                        ^ notes every append
                                        | notices, status        |
                                   turn loop  ---- append, append_if ----+
                                        | file tools          | shell tool
                                        v                     v
                                  write journal          ResourceBreaker
                                        | blocks
                                        v
                                  block store  <-- reclaim

 client --attach--> serve_session --drives--> turn loop --agent tool--> gate --> child task
             lease, parked turn  <-- asks --'     ^                               |
                                                  '---- notices, returns ---------'
```

An append takes the session's `append_lock`, links the record to the line
before it, writes and syncs it, and only then notes it in the log state, whose
short-lived lock readers share. The sequencer never receives durable events: it
walks the log by ordinal through the log state and gives each record a number
when it is about to be sent. The file tools write through the journal, which
stores blocks and records beside the session. A shell command asks the breaker
before it is spawned and reports to it when it ends. A connection drives the
turn as a future it owns: when the client leaves, the future is dropped between
any two of its steps. A child runs on a task of its own, outlives the turn that
started it, and reports through the parent's log and notice queue.

### What is hard

* **Crash and partial failure.** A line cut by a crash; a write that landed and
  whose sync failed; a target truncated by a write that then failed; a journal
  that stopped between its two records.
* **State read under one lock and used after it.** The page a reader asked for
  when the window still had it; the verdict a restore acts on; the cached hash
  of a log another step extended; the size of a log recorded before it is read;
  the live children a pass saw before it judged them.
* **Two steps that look like one.** A clear (drop the state, append the
  marker); `record(End)` (close the breaker, open it again); check and append
  in `append_if`.
* **Delivery.** Frames numbered and not sent, cursors from an older numbering,
  a connection that fails in the middle of a replay.
* **Ownership that ends early.** A run dropped with its connection after a tool
  started; a notice queue taken by a turn that is then dropped; a permit handed
  to a wait whose caller is gone; a shutdown between a child's admission and the
  watch on its task.
* **Two writers of one fact.** A child's own return and the reconcile pass; the
  run's end, the reader's hand-over and the wait budget; two clients that attach
  at once.
* **Limits.** The resident budget, a record wider than a read, the preview cap,
  the backup ceiling, saturating counters.
* **Progress.** A verify thread that reads a growing file, a reader behind a
  trimming window, refusals that must end.

`PROJECT.json` lists each hazard at its line with the properties that watch it.

## 2. Modules

| Module | Models | Composition |
|---|---|---|
| `SessionLog` | the log file, the chain cache, the dedup set, one append at a time, crashes, restarts, the verify thread | |
| `LogState` | the window and its counters, the fold, clears, a reader | the log is a sequence of record kinds; what bytes it holds is `SessionLog`'s question |
| `EventSequencer` | the sequencer, the server task that drains it, the clients | its walk over the log returns consecutive records, which is what `LogState` shows (`WalkLosesNothing`) |
| `ResourceBreaker` | the circuit breaker, the aggregate counters, each task's way through `exec_inner` | |
| `FileTransaction` | one target, its writes, recovery, other programs | the block store keeps what was put, which is what `BlockReclaim` shows for a record that is published (`NamedStored`) |
| `BlockReclaim` | the block store, its reclaim pass, writers of other processes, imports, deletes | a source is a log or a record of the modules above, reduced to the blocks it names |
| `CallLedger` | abstract: what a log promises of its tool calls | implemented by `DetachedSession` (`KeepsLedger`) |
| `DetachedSession` | lease, connections, turns, cards, parked turn, runner flags, children's asks | `INSTANCE CallLedger WITH` the part of its state that is the log |
| `Delegation` | one parent, its delegations, notices, reconcile pass | the log of `SessionLog`, one append at a time; the turn of `DetachedSession`, reduced to where it touches children |
| `ChildAdmission` | gate, admission, cancel link, shutdown join | the tasks of `Delegation`, reduced to when they hold a slot |
| `SessionLogProofs`, `EventSequencerProofs`, `ResourceBreakerProofs`, `FileTransactionProofs`, `BlockReclaimProofs`, `DetachedSessionProofs`, `DelegationProofs`, `ChildAdmissionProofs` | the theorems | extend the module they prove about (`SessionLogProofs` extends `SessionLog` and `LogState`); `DetachedSessionProofs` proves about the ledger it instantiates |
| `MC*` | instances for TLC | extend the module they instantiate |

Operators named `Mut...` are variants of the operator after them with one
plausible mistake each. No specification uses them; `PROJECT.json` pairs each with the
property that refutes it, so that every property is known to depend on the
code it is about. Two of them, of `SlotsAccounted` and `ParkedServed`, are in the semaphore that
`concurrency_gate.rs` relies on: the gate's own compare-and-swap on the queue's length is one guard here.

### SessionLog

A line is a record, or bytes that do not parse, and may lack its newline.
SHA-256 is a free constructor: the digest of a line is its predecessor's digest with
its own id appended, so digests are equal only for equal histories. `writing`
is the append that holds `append_lock`; `WritePartial` makes part of its bytes
visible, so that the verify thread, a failing write and a crash find half a
line. `WriteOk` is everything after the bytes landed: sync, dedup set, cached hash,
answer. `held` is `LogChain.last_hashes`; it is empty in a fresh process and the
first append reads the tip from the file (`Link`, `Tip`). The verify thread is one
step per window (`VerifyStart` to `VerifyEnd`) with the offset arithmetic of `verify_disk`.

`damaged` is history: a crash or a failed write left bytes that are not part of
the chain, or a repeated id moved the cached hash. The code has no repair for that
state, so the guarantees are about logs it has not reached; what happens after is in
section 5.

### LogState

The log is `records`, a sequence of kinds; the module shares no name with `SessionLog`
(`StateSpec`, `NewProcess`), so that one module of proofs extends both.
A row is its position in the log, an offset is a number of records. The reader
is the walk of a frontend: it reads from the window (`ReadHeld`), finds that its position
is older (`ReadBelow`, which keeps the horizon it saw), and reads from the log
(`ReadLog`) while appends move the window. A fold is two steps (read the log,
install the result), and so is a clear (drop the state, append the marker); nothing keeps
an append, another reader's fold or the end of the process from coming between, and
a process may start on any log. `astray` is history: it becomes true when the state gets out of step with the
log in one of the five ways the code leaves open (a fold installed over a later append, a
record noted after the gap that a wide newest record left in a fold, a marker that finds an epoch
opened before it, a marker that is not written, a record that landed and whose append failed), and
false when a clear or a new process starts over. No step reads it; the properties are about states that
are not astray, and each of the five is needed: without it they fail. `Only` is the filter that a page of the window
(durable rows) and a page of the log (records a read can hold) apply to rows in their order.

### EventSequencer

One frame per durable record, a reliable window of `Budget` frames, kept as a set
because a frame's number gives its place (`BySeq` lists it, as the code sorts), notices that
only memory holds, one status per agent, previews with a cap. `Reconnect`
presents the cursor the client reached, `AttachFresh` none. A replay runs in rounds of `Batch`
records, each sent before the next begins. The lease is implicit: one client is attached at a
time, and any of them may attach next. After its replay a connection flushes and then waits; only `Wake`, which
takes the permit a producer left, or `LegEnds`, the end of a turn's leg, makes it flush again. A
round may stop short of the log at a page that cannot be read (`Rounds`), and the flush then
returns like one that finished. `Disconnect` may happen at any send, in the middle of a replay
too, and takes the replay plan with it. Three history variables name what the properties except: `lost` (payloads
the window trimmed, or that left with a plan), `skipped` (records another client's fresh attach
restarted the walk above) and `halted` (the last flush ended at an unreadable page).

### ResourceBreaker

Each task is idle, admitted, running or inside `record(End)`. `End` is two
steps: `record` holds its own lock over two calls of the breaker and `try_acquire`
does not take that lock. Time is the age of the trip, capped at the cool-down;
the counters saturate at `MaxCount` as `u64` and `u32` do.

### FileTransaction

One action per step of `write` between which another program can change the
target: capture, store the earlier bytes, store the new ones, publish the prepared record,
write, commit. `Refuse` and `WriteFails` are its error paths. `Judge` is the part of
`recover` and `restore` that takes the lock and classifies; what they do
next (`Settle`, `PutEarlier`, `PutFails`) is a later step, so the target may have changed
in between. `External` is any program that takes no lock. `Classify` is
`classify` with its four answers.

### BlockReclaim

A block is its age (the time since its modification time, which stops at the
lease) or absent. A source is its size, its modification count and the blocks it
names; a log's last record may be torn by a writer's death, and the next append
joins it. A writer stores a block (`Put`) and names it later (`Append`), within
`WriteWindow` ticks or never. The pass is one action per step between which a
writer of another process can move: `MarkStat` and `MarkRead` are the two reads of
a source, `Relist` the check of the listing before the sweep, `Judge` and
`Reread` the two reads of a block's modification time, `Unlink` the removal. `PassDies` loses what was
filed after the last recorded cursor. `elapsed` bounds a pass by its budget and one unit of work. `snatched` is
history: the blocks stored again between `Reread` and `Unlink`, the window that
`sweep.rs:157-160` admits. Its other window, timestamps coarser than the interval
between the two reads, needs no exception: a block is reread only when its time is a whole lease
old, so a re-store shows the same time only where a timestamp is coarser than the lease.

### DetachedSession and CallLedger

`sv[c]` is the task of one connection; its `pc` follows `serve_session` from the
handshake over the cards of the parked turn and the run to the idle loop. A
connection whose client left (`gone`) is dropped at any `pc`, with the run it
drives: what is left is the log part (`made`, `open`, `results`, `runs`, `yes`),
the parked turn and the runner's flags. `host` is the server's start-up: the runner is inserted
(`Insert`), then the socket is bound (`Listen`). `Attach` takes the lease before it looks for the
runner, and without one returns with the lease still Running, as `session.rs:335-341` does; that
the start-up never lets a client get there is part of what `OneServer` says. Children ask through two receivers, the
run's and the serve loop's, and a park that a later connection reads; subscribing and reading the
park are two steps (`Subscribed`, `ParkRead`). The lists of
calls the code keeps (cards left, calls to dispatch, calls to answer) are in log
order, and a call's number is its place in the log, so a list is the set of its
calls and its head the smallest.
`CallLedger` is what is promised of the log part: a call is appended once, is
started only while open and only on a word, and gets one result.

### Delegation

The log is a sequence of entries; what is owed to the model is computed from it
by the code's own scans (`NoticePending`, `OwedRecord`, `Depth`); the calls without a
result are a set, answered oldest first. A task moves from
building its child to its return record; the turn calls the model, drains
notices and delegates; the reconcile pass is one step per read, claim and write.
`setbacks` bounds restarts, failed reads and appends, dropped and stopped turns
and clears together. `gap` is history: it names the endings that the code can lose or
judge too early, so that the properties state exactly what holds. A run's end publishes its completion and the
drain queues it in one step: the drain is its own task with a receiver that holds 256 completions,
and only a drain more than 256 behind (`Lagged`, `notification_drain.rs:65-88`) would drop one.

### ChildAdmission

`call` is a spawn call, `task` its child's task, `sem` the semaphore with its FIFO
line and the permits handed to waits that have not been polled. The task drops its
lease before its permit, so a shutdown can land between the two. `Stop` reads the
claim and `Forward` cancels: a hand-over may come between. `stuck` tasks answer nothing
but an abort; `watch_liveness` cancels a silent child and then waits for it.

## 3. Runs

Each run checks its properties over every reachable state of its instance.
`delegation_continued` is expected to fail: it shows that the code does not do
what one of its own comments says, and is a finding in `PROJECT.json` with the
quotation. Section 5 lists the others.

| Run | Instance | Checks |
|---|---|---|
| `session_log` | 2 events, 2 claims, all faults, 2 restarts, 4 appends (451,111 states) | `ChainIntegrity`, `AckedReadable`, `OneClaim`, `VerifiedMeansChained`, `AppendOnly`, `VerifyProgresses` |
| `log_state` | budget 1, page 2, 3 records of 3 kinds, 1 delta, 1 restart, every interleaving (492,397 states) | `StateMirrorsLog`, `WalkLosesNothing`, `WalkCatchesUp` |
| `event_sequencer` | 2 clients, 1 agent, window 1, batch 1, 2 records, 1 notice, 3 attaches or clears, failing reads, lost connections (916,124 states) | `SeqOrdered`, `DurableDelivered`, `MemoryDelivered`, `EventuallyDelivered` |
| `resource_breaker` | 3 commands, cap 1, budget 2, threshold 2 (23,051 states) | `InFlightExact`, `OverLimitNotClosed`, `RefusalEnds`, no deadlock |
| `file_transaction` | 2 writes, one content kept and one over the ceiling, 2 inodes (symmetric), 2 modes, 1 external change, 1 crash (1,244,144 states) | `NothingLost`, `CommitHeld`, `VerdictSound` |
| `block_reclaim` | 2 blocks in 2 shards, 2 logs and 1 record, lease 3, write interval 1, 2 puts or imports (990,000 states) | `NamedStored`, `CursorBacked`, `OrphansReclaimed`, no deadlock |
| `detached_session` | 2 clients, 2 calls in batches of up to 2, 1 child, 1 message, 1 notification turn, 2 lost connections, 1 Esc (634,619 states) | `KeepsLedger`, `OneServer`, `ParkedTurnTrue`, `NoPoisonedResume`, `ParkedTurnSettled`, `KidHeard` |
| `delegation` | 2 delegations, 2 setbacks (1,870,000 states) | `OneReturnOnceBuilt`, `OneDriver`, `NoSecondReport`, `EndingKept` |
| `delegation_told` | 1 delegation and 2 setbacks, or 2 and 1, fairness (173,486 states) | `EndingTold`, `BoundaryClosed` |
| `delegation_continued` | 2 delegations, no setback | violates `ContinuedTold`: the notice of a child's earlier run counts as that of the later one, whose ending is dropped |
| `child_admission` | 2 waiting calls, 1 background call, 1 slot, 1 place in the queue, 1 hung child (79,510 states) | `SlotsAccounted`, `FreedKeepRunning`, `ParkedServed` |
| `child_shutdown` | 1 waited-for and 1 background child, 2 slots, both may hang (34,634 states) | `TokenOrGate`, `JoinedAll`, `JoinEnds` |

Every module also states a `TypeOK`, which holds on the same instance; it is the first
part of the inductive invariants of section 4.

**The refinement.** `DetachedSession` declares `Ledger == INSTANCE CallLedger WITH ...`
and `KeepsLedger == Ledger!Spec`: every step of a connection, a run, a resume or a
reconcile is one step of the ledger or leaves it alone. The run checks it on the instance,
`DetachedSessionProofs` proves it.

### Why the bounds are enough

* `session_log`: the chain needs two neighbours and a third line to fork; four
  appends give that and leave one append after a failure. Two restarts give a
  crash, a cold link over its remains and one more process. Two claims are
  needed for a race, more repeat it.
* `log_state`: three records are twice the budget plus one, so the window is trimmed
  twice and a page of two straddles its edge; wide and clear records take any of
  the three positions. What matters more than length is that every step of an append, a fold, a clear and the
  walk may come between any two of another. The theorems remove the bounds.
* `event_sequencer`: two records are one more than the window and than a
  batch, so the floor moves and a replay takes two rounds. Three attaches are a first one, a
  covered and an uncovered return, of one client or of two, in any order. With a window and a batch of two and
  three records the safety properties were searched to 22 million states.
* `block_reclaim`: two blocks in two shards give a sweep that stops between them;
  of two logs one can be filed and the other not when a pass ends, and the record
  appears or vanishes under the mark. The property needs the time from a put to its
  append and the length of a pass together to be less than the lease (`LeaseCovers`); the instance has the
  smallest such values with a writer that waits, and section 5 says what happens beyond them.
* `detached_session`: a batch of two calls has a card answered and a card left when
  the client goes; two losses give a client that comes back, is asked again and
  leaves again; the second client attaches while the first one's task is leaving. A second child, whose ask
  comes under the first one's card, is a separate instance (`Kids = {101, 102}`, one call, no notification
  turn, one lost connection, no Esc), which passes with 14,985 states.
* `delegation`: two calls are a child and its continuation, or two children; two setbacks
  are a failed write and the restart or dropped turn that hides it. `delegation_told` follows
  every behaviour to its end and has `FewTogether`, a bound on delegations and setbacks together: one
  delegation with two setbacks reaches a return that fails while a pass of an earlier generation runs. The bound
  cuts off setbacks and delegations only, which no fairness asks for, so no behaviour within it is
  left out. One delegation with three setbacks passes too.
* `child_admission`: with one slot and one place, of three calls one runs, one waits and
  one is refused, and a wait that leaves has another behind it. `child_shutdown`:
  two children are needed for one to keep the join from the other.
* `resource_breaker`: one command above the cap, one above the threshold; the CPU of
  one command reaches the budget and two exceed it; the counters saturate at 4,
  which the runs reach.
* `file_transaction`: the properties relate one write to one other write or program
  step. Two inodes tell a save in place from a save by rename. The theorems
  remove the bounds.

`CHECK_DEADLOCK FALSE` stands where the bounds on appends, attaches or crashes
end every behaviour; the breaker has no such bound and its run checks deadlock.

### Fairness

| Assumed | Because |
|---|---|
| `WriteOk`, `BackendWrote`, `NoteDurable`, `AppendMarker` | an append is a future its caller awaits; nothing cancels it between the write and the note |
| `Verify` | the verify walk is a thread of its own and waits for nothing |
| `RestoreRead`/`RestoreCommit`, `FoldCommit`, the reader's steps | each runs in a task the runtime schedules, and the locks are held for a bounded time |
| `ReplayBatch`, `Wake`, `Flush`, `Send` | the server task loops over them; `Wake` needs a permit, and a flush that met an unreadable page is not repeated without one |
| `BlockReclaim`: a writer's `Append` or death, `Begin`, the pass's steps, strong fairness of `Tick`, setbacks that end | a writer that stored a block goes on or dies, housekeeping starts a pass again and again, time passes, and budgets, errors and deaths do not stop every pass for ever |
| `DetachedSession`: `Insert` and `Listen`, each connection's `Step` and `Person` | the server starts; its task is polled; a person who sees a card answers it or leaves and comes back. Nothing is assumed of the children's timeouts |
| `Delegation`: `TurnStep`, `Enter`, `TaskStep` | tasks and the turn are polled, and the user writes again |
| `ChildAdmission`: calls that have begun, tasks, the join | they are polled, and `watch_liveness` ends a run that does not hang |
| `Tick`, `EndCpu` | time passes, and a task inside `record` holds a lock without awaiting |

Nothing else is assumed of callers, faults, crashes, other programs or new
commands. Fairness is weak but for `Tick` of `BlockReclaim`, which is disabled while a pass or a writer
must act first.

## 4. Proofs

Each proof is by an inductive invariant, one lemma per action and one step per
part the action can disturb; the constants are arbitrary, under the named `ASSUME`s of
the module (numbers are naturals, the sets of spawns finite). Where a property counts or orders, the least
element of a set of numbers and the size of a finite set come from the library's theorems.

**SessionLogProofs** (3136 obligations). `IInv` is `TypeOK`, `ChainIntegrity`,
`AckedReadable`, `OneClaim`, `InFlight` and `Walked`. The properties are not inductive:
`ChainIntegrity` at the end of a write needs that the record in flight was
linked to the line that is still the last one (`InFlight`, true because
`append_lock` is held throughout), and the verdict needs that the lines already
walked are linked in the file as it is now, with the walk's hash that of the last of them (`Walked`).
Proved: `TypeCorrect`, `ChainSafe`, `AckedDurable`, `ClaimUnique`,
`VerifySound`, and the action property `LogAppendOnly`.

The second half is about `LogState`, in every behaviour of `StateSpec`. `StateInv` is `Shapes`, `Locked`,
`Folding`, `Holding`, `Marking` and `Reading`. A window is never compared with the log row by row: it
*spans* an interval of positions (`Spans`) when its durable rows rise, lie in the interval and
take every value of it, and such a window cut anywhere spans two intervals that meet (`SpansSplit`),
so what `trim` drops and what `push` adds to `base_index` agree whatever the deltas in between
(`PushSpans`, `PushNotes`). A rising sequence that takes every value of an interval counts it
through (`RisingInterval`), which gives the ordinals a page claims (`PageIs`). What the filter
`Only` keeps is proved without induction over data: its recursive function exists and is right
because a least place where it is not would have a smaller one (`SelectsExist`, `OnlyKeeps`).
`Holding` says that a state which is not astray notes the log's records but the one in flight; `Marking` that the
marker of a clear which opened its epoch is the first record of it; `Folding` that what a fold has
read is the fold of the log as it is, or of a log that has grown since, which is how an
overtaken fold is told from a current one when it is installed. `Reading` says of the walk that it got every
record up to its ordinal that a read can hold, that an offset it carries names that ordinal's place, and that a
horizon it saw is still ahead of it and inside the log. Proved: `StateMirrors`, `WalkComplete`.

**EventSequencerProofs** (3248 obligations). Three invariants, each on top of the one before.
`OrderInv` is `Types`, `Numbered` (no number is used twice by what memory keeps, and all are
below the next) and `InLine` (what a connection has still to send is ascending and above its client's
cursor): `FramesInOrder` and `TypeCorrect`, for any number of clients, in every behaviour. `DurableInv` adds that a
frame of the window above the client's cursor is on its way (`WindowSent`), that a record the walk has passed
was received or is on its way (`RecordSent`), and what a cursor is worth to a client that comes back
(`RecordKept`), each but for the records that client is known to have been `skipped` over: `RecordsDelivered`.
`MemoryInv` adds where a notice is that is not `lost` (`NoticeKept`) and that the newest status is shown,
waiting or on its way (`StatusHeld`, `StatusShown`): `MemoryReachesClient`. All four hold for any number
of clients and without a hypothesis on the faults.

**ResourceBreakerProofs** (268 obligations). `IInv` is `TypeOK`, `LockEnding`,
`InFlightExact`, `OverLimitNotClosed` and `OpenHasInstant`; `LockEnding` says that
the command inside `record(End)` has already left the running ones, without
which the second half of an `End` could change the count again. `CpuBudget < MaxCount` and `FailThreshold
<= MaxCount` are assumed: a limit at the counter's largest value could never
be exceeded. Proved: `LimitsTrip`, `CountExact`, `InstantKept`.

**FileTransactionProofs** (1440 obligations). `IInv` is `TypeOK`, `LockHeld`,
`Progress`, `Records`, `Verdict`, `RecordedBefore`, `NothingLost` and
`CommitHeld`. A write loses nothing because its capture is current
(`RecordedBefore`, from the lock), its block is stored before its record (`Progress`)
and nobody else is part way (`LockHeld`); a restore loses nothing because the bytes it judged are
still there unless another program took them (`Verdict`) and the record names them
(`Records`). `VerdictSound` compares records and bytes long after they were written and needs a
second invariant, inductive relative to the first: on which side of each write the target
is, as long as nothing else touched it (`Sides`), and that a recovery that holds the lock
still sees what it judged (`StillJudged`). Proved: `BytesKept`, `CaptureCurrent`, `CommitTrue`,
`VerdictRight`.

**DetachedSessionProofs** (1997 obligations), for any clients, children and numbers of calls,
messages, lost connections and cancels. `IInv` is `Types`, `Alone` (the lease is held exactly while one
connection serves), the ledger's own
invariant, `Turn`, and for every connection `InHand`, `Words`, `Flags` and `Shown`. The
refinement is proved with the invariant: one lemma per action shows that the action keeps
`IInv` and is a step of the ledger or none. A dispatch is a step of the ledger because the calls a
connection has in hand are open and in one list only (`InHand`), and each it is about to
start needs no word or has one that is not used up (`Words`); the word given on a card
outlives the connection in the parked turn (`Turn`) and comes back into the hands
of whoever shows it (`Shown`). `NoPoisonedResume` needs to know where the runner may be paused and
aborted at all (`Flags`). Proved: `ServedByOne`, `ParkedTurnKept`, `ResumeClean`, the refinement
`SessionKeepsLedger`, and `SessionAuthorised`, which carries the ledger's two properties over
to the session. These are `LedgerAuthorised` and `LedgerOneResult`, proved of every behaviour of `CallLedger` in the same
module: `LedgerInv` adds `NotYet` to them, that a call which is not in the log has not been
started, without which a call could turn out to be gated after its start.

**ChildAdmissionProofs** (926 obligations), for finite sets of spawns and every capacity. `IInv` is
`Types`, `Slots`, `Joining` and, for each spawn, `Life`. The sum of permits is kept because the line
holds each parked call without a permit exactly once (`SemOk`): a call that leaves is taken
out of the line or gives back what it was handed, never both. The shutdown follows a
child from the register over the drained set and the list of the join to the one it waits for
(`Found`): once the gate is closed, a child that works has a cancelled token and is
in one of these, and they are empty when the join is over. Proved: `TypeCorrect`, `SlotsNeverLeak`,
`NoneEscapesShutdown`, `JoinWaitsForAll`, `HandedOverRunsOn`.

**BlockReclaimProofs** (1309 obligations), for any blocks, sources, shards and timing. `CursorBacked`
holds whatever the timing: what is filed is true of a log as long as its modification count is
the one filed, and the count only grows (`Filed`). `NamedStored` is proved under the hypothesis
`LeaseCovers == WriteWindow + PassMax < Lease`, which the code's defaults satisfy (a lease of
an hour, a budget of a minute) and whose necessity the last rows of section 5 show; the
part of `IInv` that needs it is stated under it, so the rest holds without. The argument:
a block named by a source the mark has passed is in the buckets, or so young that no
step of this pass can take it (`Covered`, in `Marked`); a block put and not yet named is as
young as its writer's wait (`Fresh`); a block about to be unlinked is as old as it was when
reread, or was stored again since and is in `snatched` (`Judged`). Proved: `ResumeTrusted`, `NamedKept`, `PendingKept`.

**DelegationProofs** (6820 obligations), for every number of delegations and setbacks. `IInv` is
`Types`, a `TaskSound` per task, an `EntrySound` per record of the log, `TurnSound`, `ScanSound`,
`OneDriver` and `OneReturnOnceBuilt`. A return written by a child's task closes its spawn
because the task is the only one of its child and no pass that found the child idle
still owes it a return; a second task is started only for a child the model has heard of, so a child
being built must have left nothing in the log that names it. How deep a prefix of the log has
spawns open (`Depth`) is a recursive count; that it exists, is unique and
changes by one with an appended record is proved by a least counterexample (`CountsExist`,
`CountsAgree`, `DepthAppend`). The proof nowhere uses the boundary claims: that the pass
looks at the registry again before it writes, and that it writes only over an open spawn,
is enough. Proved: `TypeCorrect`, `DrivenByOne`, `ReturnsClose`.

Two more invariants follow what the model is told. `RInv` adds `LogReports` (a notice follows the
spawn it reports, two notices of one child have a later spawn or a clear between them, and a
call's answer comes with no notice), `QueueReports` (what is queued or taken is the
ending of a run that was recorded and handed to the notice), `TurnReports` (while a call
waits, nobody else writes its child's return) and `PassReports` (the pass holds a child only
while its prefix of the log owes a record for it): `ReportedOnce`. `KInv` adds `ResultsKept`, `TasksKept`,
`TurnKept`, `PassKept` and `GenKept`: an ending leaves the task for its result or the
queue, the queue for the turn that drains it, the turn for the log; a restart strands those that were
not told yet, and then a generation is due whose pass has still to look at the child or holds it, and sees in
its prefix what the log still has open: `EndingsKept`. Both theorems are about exactly the endings that the
properties name, that is without those in `gap`, which section 5 lists.

**Model-checked only.** The liveness properties (`VerifyProgresses`, `WalkCatchesUp`,
`EventuallyDelivered`, `RefusalEnds`, `OrphansReclaimed`, `ParkedTurnSettled`, `KidHeard`, `EndingTold`,
`BoundaryClosed`, `ParkedServed`, `JoinEnds`): fairness is out of the prover's reach. Every safety
invariant and action property that a passing run checks is proved.

## 5. Disagreements between code and comments

`delegation_continued` is a run of its own. The following were met in the same way. All
but the ones without a name are stated as properties of the modules: setting one as the only property of the
given configuration, with the change named, shows its counterexample.

| Property | Configuration | What happens |
|---|---|---|
| `NoFork` (SessionLog) | `SessionLog.cfg` | the sync fails after the line landed, the cached hash stays behind, and the next append gives two records one predecessor (`houyicoder-session/src/lib.rs:275`) |
| `NoPhantomLink` (SessionLog) | `SessionLog.cfg` | a repeated id is not written but moves the cached hash; the next record links to a line that does not exist (`lib.rs:290`) |
| `ReadingNeverDrops` (LogState) | `LogState.cfg` | a reader's fold, read before an append, is installed over the state after it; `trajectory.rs:25` says reading never writes |
| `MarkerOpensEpoch` (LogState) | `LogState.cfg` | an append between the two steps of a clear opens the epoch instead of the marker (`houyicoder-core/src/agent/status.rs:485`) |
| `SingleProbe`, `ReasonCleared`, `CpuOfInFlight` (ResourceBreaker) | `ResourceBreaker.cfg` | HalfOpen admits every caller; the reason outlives the recovery; CPU time is never taken out of the aggregate |
| `AppendLands` (SessionLog) | `SessionLog.cfg` | the append after a torn line answers Ok and joins the torn line (`houyicoder-memory/src/local_file/records.rs:65`) |
| `NoFalseAlarm` (SessionLog) | `SessionLog.cfg`, no faults | the verify thread meets a line being written and reports an intact chain broken |
| none | `WalkLosesNothing`, `StateMirrorsLog` without `~astray` | a process starts on a log whose newest record is wide: the fold's gap flag is not kept, the next record takes the wide one's ordinal, and a readable record is passed over (`trajectory.rs:258-277`) |
| none | the same | the marker of a clear is not written and the client is told Ack (`status.rs:495-504` only warns): the state begins an epoch the log does not have, and the history is back on restart |
| none | `MemoryDelivered` without the plan's part of `lost` | a connection fails in the middle of a replay: the plan held the only copy of a notice (`outbound_frames.rs:108-116`) |
| none | `DurableDelivered` without `skipped` | another client's fresh attach restarts the walk above records this one missed and empties the window, which then covers its old cursor (`event_sequencer.rs:471-481`) |
| none | `EventuallyDelivered` without `<>[]~halted` | a flush that could not read a page returns like a finished one; the page waits for the next permit (`outbound_frames.rs:166-170`) |
| `CoolDownHonoured` (ResourceBreaker) | `ResourceBreaker.cfg` | a command that was running at the trip closes the breaker when it ends |
| `FailureLeavesTarget` (FileTransaction) | `FileTransaction.cfg` | `write_file` truncates before it can fail |
| `NamedStored` (BlockReclaim) | `BlockReclaim.cfg`, `WriteWindow = 2` | the pass reads a log, the writer appends, the pass then judges the block by its age: the lease has to cover the write interval and the pass together. `gc.rs:74-76` and `sweep.rs:160` name the interval only |
| `AllNamedStored` (BlockReclaim) | `BlockReclaim.cfg` | a session imported during the sweep names blocks of its earlier life, which are old and freed; `housekeeping.rs:190-193` says no outcome deletes a named block |
| none | read in `gc.rs:503` | a record joined to a torn one does not parse, so every later pass stops at that log (the exception in `OrphansReclaimed`) |
| `ModelSeesResults` (DetachedSession) | `DetachedSession.cfg`, `Spec` | a notification turn does not reconcile: the model is called with an open call, although `direct_shell.rs` says the next model run reconciles it |
| `RunsOnce` (DetachedSession) | `DetachedSession.cfg`, `Spec` | what follows: a resume offers the call again and a tool already started is started once more, on a second word of the user |
| `KidAskSurvives` (DetachedSession) | `DetachedSession.cfg`, `Spec` | `multi_agent.rs:542-545` keeps a child's ask for the next reattach; `child_permission.rs:62-77` denies it when the connection closes under its card |
| `PausedIsParked` (DetachedSession) | `DetachedSession.cfg`, `Spec` | a client that leaves while the interrupted leg's events are flushed (`server.rs:562`) leaves the run paused and nothing parked; `transitions.rs:157` says the ask is retained |
| `OneReturn` (Delegation) | `Delegation.cfg` | a pass still due finds the spawn of a child whose task has not registered it, and both write a return (`orphan_reconcile.rs:278`) |
| `OneReport` (Delegation) | `Delegation.cfg` | when the return of a waited-for child fails, the pass announces the child whose result the call already holds (`append.rs:109`) |
| `NoticeRestored` (Delegation) | `Delegation.cfg` | a child that ends before its launch is acknowledged reads as one that was waited for, and its notice is not restored (`orphan_reconcile.rs:243`) |
| none | read in `orphan_reconcile.rs:317` | a continued child that is running is skipped although its earlier return is lost |
| none | read in `core/src/agent.rs:659` | a turn dropped after it took the notice queue takes the notices with it until a restart; `input_queue.rs` says a pending notification survives to the next run |
| `JoinAlwaysEnds` (ChildAdmission) | `ChildShutdown.cfg` | a hung child set aside before its task was watched has no abort backstop; `children.rs:187` says a wedged task cannot hold the shutdown lock |
| `AbortIsNoPanic` (ChildAdmission) | `ChildShutdown.cfg` | a task the join aborts is unwrapped with `into_panic` by the call that waits (`handover.rs:147`), which panics on an abort |
| `ConflictIsForeign` (FileTransaction) | `FileTransaction.cfg`, `MaxExt = 0` | a write that stopped part way reads as a conflict with a later writer, although nobody else touched the target (`recovery.rs:37`) |
| none | read in `recovery.rs:377` | after writes of a, b and a, the first one's side matches again, and restoring it undoes all three (`recovery.rs:273` says a later write is not undone by mistake) |

## 6. Plan

1. **Proofs**: what is left of a state that is astray (which of the five ways keeps the walk in order),
   and what a frontend that was skipped still holds.
2. **Compaction**: when it starts, what it may drop, what a failed summary leaves.
3. **Small ones**: log offset index, session lock, worktree fence, recap,
   permission ladder as pure operators.
4. **Abstract specifications**: an append-only set of acknowledged records,
   refined by `SessionLog`; a per-client ordered delivery, refined by
   `EventSequencer`.

## 7. Not modelled

* **Power loss.** Only the process dies; the file system keeps what was
  written. The journal does not flush its target, and a record's rename may not be flushed,
  so a commit can outlive its bytes: listed as a hazard without a property.
* **Data.** Text, formatting, encodings, model output, shell parsing, provider
  HTTP, kernel policies, rendering. No property here tells two of them apart.
* **The sidecar offset index and the size of read windows** of the log: caches of
  where lines begin, planned.
* **Other backends** than the local file one, and the Linux and Windows
  sandboxes around the breaker.
* **A panic** inside a connection's task, after which the lease stays Running, and a notification drain more
  than 256 completions behind.
* **The front ends' own verbs**: the lifecycle requests only an editor sends, the choice
  of a client to ask for a notification turn, trust and login.
* **Around the turn**: retries and streaming inside a model call, plan checks, user input
  queued while a turn runs, delegations of one message in parallel, stopping one child apart from its run
  ending, background shell tasks.
* **Around the block store**: reads and their cache, temporary files, the record size
  limit. After the shutdown join, the reclaim of worktrees.
* Components that only transform data or wrap the operating system; `PROJECT.json` gives the
  reason for each.
