# MultiDownload in TLA+

MultiDownload is a KnotLink node that downloads files over HTTP in several
ranges at once, remembers how far it got, and starts again from there. This
directory models its download engine and its request handling, checks the models
with TLC, and proves their main invariants with TLAPS.

Paths below are relative to the repository (`src/` here is its root; the Python
package is `src/src/multidownload`).

## 1. The system

### Components

| Component | Code | State | Operations | Model |
|---|---|---|---|---|
| Byte ranges | `_engine.py` 33-44, 170-215 | a list of `[start, end, receivedBytes]` | build, split the slowest | `Subworkers` |
| Download engine | `_engine.py` `HttpStep` | the ranges, `canUseRangeRequests`, status, acceleration clock; on disk the file and its `.ghd` record | `run`, one task per subworker, a supervisor, TaskGroup, fallback to a single stream, restore; `deleteFiles`, `moveFiles` | `HttpStep`, `HttpStepFiles`; what it promises: `Transfer` |
| File access | `_io.py` | none | `pwrite`, `ftruncate` | their effect in `HttpStep`, the offset of a write in `Probe` |
| Download node | `main.py` | `_tasks`, `_loop`; `received_total`, `last_pct` of each download | `handle_download`, `_probe`, `_do_download`, start and exit of the script | `DownloadNode`, `DownloadSignals`, `Probe` |
| Response side of KnotLink | `OpenSocketResponser.py` | `data_queue`, callback | receive, handle, `sendBack` | `DownloadNode`, `KnotLinkSystem` |
| Query side of KnotLink | `OpenSocketQuerier.py` | result, event, two flags under a lock | `query`, `query_async`, receive, `disconnect` | `OpenSocketQuery`, `KnotLinkSystem` |
| KnotLink connection | `tcpclient.py` | socket, buffer, `connected`, heartbeat timer | connect, send, receive, heartbeat, `disconnect` | `TcpClient` |
| Signals | `SignalSender.py`, `SignalSubscriber.py` | a connection | emit, subscribe | when which one is sent: `DownloadSignals`; the set-up of a subscriber: the owner in `TcpClient` |
| Key-value format | `kludf.py` | a map | `serialize`, `deserialize` | `KeyValues` |
| HTTP client | `_client.py`, `_config.py` | none of its own | choose a TLS profile, build a client | `Emulation`; its responses are the environment of `HttpStep` |
| Command line | `__main__.py` | none | probe, run one step, print | `Probe` |

### How they interact

A request arrives on the receiving thread of a `TcpClient`, is queued by
`OpenSocketResponser._internal_data_recv`, and handled by its queue thread, which
calls `handle_download`. That hands a coroutine `_do_download` to the asyncio
loop, which lives in a thread of its own, and registers it in `_tasks`. The
coroutine probes the server, creates an `HttpStep`, and awaits `HttpStep.run`.
`run` starts a supervisor task and, in a TaskGroup, one task for each subworker.
All of them share the list of ranges. Each subworker asks for its range, writes
what comes in at its position, and, when it is done, takes over half of what the
slowest has left. The supervisor writes the list to `<file>.ghd` once a second and,
if auto-acceleration is on, splits up to four ranges. When the run ends the node
sends a `completed` or a `failed` signal.

### What is hard

- Ranges change under the tasks that work on them: a response may have been asked
  for a range that is shorter by the time its chunks arrive.
- The record and the file are written by different tasks at different times, and the
  process may die, be paused, or fail between any two writes.
- A single answer 200 from the server, to any subworker and at any moment, makes
  the run throw everything away and start as a single stream.
- Errors are tried again without limit, and a TaskGroup waits for every task.
- Four threads share the registry of the node without a lock.
- An answer on the query side carries no identity; a late one looks like the next.

### What makes each component correct

- *Ranges*: they are disjoint and together are the file, after every split.
- *Engine*: the record is never ahead of the file; a download that reports COMPLETED has
  written every byte; no byte is fetched twice; a range that is not complete has a
  task; recorded progress is not lost; every run ends, and completes unless it was
  interrupted.
- *Node*: one active download for each reqID; every request is answered; every
  accepted download reports its end; the percentages it reports do not fall.
- *Query side*: an answer is used once, and is the query's own unless an earlier query gave
  up; every wait that can end does.
- *Connection*: the receiver takes out of the stream the messages that were put in, however it
  is cut; there is one heartbeat, and it ends after `disconnect`.
- *Pure functions*: each does what it is for (section 3, `functions`).

## 2. The modules

| Module | Content |
|---|---|
| `Subworkers` | The pure operators on lists of ranges: `BuildSubworkers`, `SplitSlowest`, `Reassigned`. No state. |
| `HttpStep` | EXTENDS `Subworkers`. One `HttpStep` and its runs as a state machine, its specification, its properties. |
| `HttpStepFiles` | EXTENDS `HttpStep`. What happens to the two files between runs; the refinement mapping to `Transfer`. |
| `Transfer` | The abstract specification of a download: bytes stored, bytes saved, and whether a run is on. |
| `DownloadSignals` | EXTENDS `HttpStep`. One destination of the node: each request is one `HttpStep`, with the progress and the final signals its client gets. |
| `DownloadNode` | The node and the response side of KnotLink: four threads and the registry. |
| `OpenSocketQuery` | The query side of KnotLink: the caller, the receiving thread, a thread that disconnects. |
| `KnotLinkSystem` | EXTENDS `DownloadNode`, and an instance of `OpenSocketQuery`: client, Core and node joined; the refinement mapping back to `OpenSocketQuery`. |
| `TcpClient` | A connection, the object that owns it, its receiving thread and its heartbeat timers. |
| `Emulation`, `KeyValues`, `Probe` | Pure functions: the choice of a TLS profile and of headers; the text form of a map; the size of a file, and the offset of a write on Windows. |
| `MCFunctions` | EXTENDS these three. Each state is one small input of one of them; the invariants compare what they return with what they are for. |
| `HttpStepProofs` | EXTENDS `HttpStep`, `TLAPS`: types, and the record is never ahead of the file. |
| `HttpStepFilesProofs` | EXTENDS `HttpStepFiles`, `HttpStepProofs`: the same with `HttpStepFiles`, the record tiles the file, no range is orphaned, a COMPLETED file is whole. |
| `TransferProofs` | EXTENDS `HttpStepFilesProofs`: recorded progress is kept, the refinement of `Transfer`, ranges do not overlap. |
| `DownloadSignalsProofs` | EXTENDS `DownloadSignals`, `TransferProofs`: what the client is told is true. |
| `OpenSocketQueryProofs`, `TcpClientProofs` | EXTEND the module they are named after, and `TLAPS`. |
| `KnotLinkSystemProofs` | EXTENDS `KnotLinkSystem`, and an instance of `OpenSocketQueryProofs`: the node, the refinement of `OpenSocketQuery`, and what follows for a client. |
| `FunctionsProofs` | EXTENDS `MCFunctions`: the pure functions, for all inputs. |

`Subworkers` is a module of its own because three callers use it: a fresh run, a
restored run, and a running download. A module's mutants (definitions introduced by a
comment "Mutant") are the plausible bugs its properties were tried against; nothing uses
them.

### HttpStep and the code

The engine is single-threaded asyncio, so an action is what one coroutine does
between two awaits.

| In the model | In `_engine.py` |
|---|---|
| `phase` | where the coroutine `run` is: `idle` between runs, `restoring` 495-506, `group` 526-533, `completing`/`pausing`/`failing`/`falling_back` in the clauses 534-573 |
| `task[i]` | the coroutine `_runSubworkerWith` of range i: `mode` is which of its three loops (316, 357, 393) it is in, `pc` the await it is at, `last` the last byte its request asked for |
| `record`, `good`, `size` | the `.ghd` file; the offsets of the output file with the right byte; its length |
| `accel` | `_accelCheckTime` and `isAccelerated` |
| `errors`, `aborting`, `cancelled` | the state of the TaskGroup |
| `Create`, `SetOptions` | `main._do_download` 79-94, `setOptions` |
| `RunFresh`, `RunRestored`, `RestoreSplit`, `RestoreDone` | 490-532 without and with a record |
| `DeleteRecord` | `_deleteRecord` (160), which ignores a failure; its three callers are `RunFresh`, `FallBack` and `Settle` |
| `Start`, `Retry`, `StreamEnd` through `LoopTop` | the head of the three loops |
| `ReplyOk`, `ReplyFull`, `ReplyPermanent`, `ReplyUnsatisfiable`, `TransientError` | the answers of `client.get` |
| `Chunk`, `WriteFatal`, `Resume` | the body of `async for chunk`, and what follows `await waitForSpeedLimit()` |
| `Finish` | the end of a range, with `_reassignSubworker` |
| `Supervise`, `SuperviseFails` | one turn of `_supervise` |
| `Abort`, `Cancel`, `GroupEnded` | `asyncio.TaskGroup`, external |
| `GroupCompleted`, `GroupCancelled`, `GroupFailed`, `FallBack`, `Settle`, `Relaunch` | the clauses that follow the TaskGroup |
| `Kill`, `KillOpeningRecord`, `KillInFallBack` | the death of the process, anywhere and at two places inside a handler |

Abstractions: time, speed and the content of bytes are gone. The supervisor may
tick at any await; whether the measured speed is stable, and whether it improved, is a
choice. The supervisor's `pack` of the record takes
unsigned integers, so the type of `record` in `TypeOK` excludes the marker
`NOT_SUPPORTED` (-1): a ranged run that met it could not write its record.

What the environment may do is the constant `Env`, explained kind by kind at the head
of the module, and counted by `faults` up to `MaxFaults`. Most properties need
some kinds to be absent, and each run states which are present.

### HttpStepFiles, Transfer and the code

`DeleteFiles` is `deleteFiles` (`_engine.py` 93), which ignores a failure on either file;
`MoveFiles` the case of `moveFiles` (108) in which the second move fails, the only one that
changes what is modelled; `RemoteChanges` a server that replaces the file between two runs,
external. All happen between runs.

`Transfer` has three variables. The refinement mapping (`Download`, in `HttpStepFiles`) is
`stored <- good \cap Bytes`, `saved <- Recorded`, the offsets some range of the record counts
as received, and `run <- Run`, read off `status` and `phase`. So a chunk is a `Store`, a turn of
the supervisor a `Save`, a fallback or `RunFresh` a `StartOver` or `StartAfresh`, the opening of
the record that empties it an `Unsave`; splits, requests, errors and timeouts stutter.

### DownloadSignals and the code

| In the model | In `main.py` |
|---|---|
| `Request` | a new `_do_download` (66), with the start signal |
| `Report` | `report_speed` (106-124): `received_total`, `last_pct` |
| `Downloading` | a subworker's step, and the report of the chunk it has written |
| `Completed`, `Failed`, `Died` | the signals after `step.run` returns or raises, or the death of the process before |
| `RunRaises` | the failed signal of a run that raised before its first task (`_engine.py` 460-512): the directory, the request for the URL, the opening of the file |

### DownloadNode and the code

Here the interleaving is of threads, and an action is what one thread does between two
accesses to shared state: `req_id in _tasks` (`Check`), `_tasks[req_id].done()`
(`Look`), `run_coroutine_threadsafe` (`Submit`) and `_tasks[req_id] = task` (`Register`)
are four, and the loop thread may run a whole download between the last two.
`job[n]` is the coroutine `_do_download` of request n: `ended` is the end of the
coroutine, `raised` its end by an exception from before its `try`, `done` the moment the `Future` in `_tasks` learns of it. `main` is the
script: before `set_RecvFunc` requests are dropped, before `_loop` exists they raise,
and after the loss of the connection (or Ctrl-C) the process ends with all its threads.
What `step.run` does is `HttpStep`; here it ends, well or badly.

### OpenSocketQuery, KnotLinkSystem, TcpClient and the code

`OpenSocketQuery`: an action is one access of one thread to what the threads share, and a
section under `_state_lock` is one action. `Begin`, `Send`, `Wake` or `TimeOut`, `Return` or `Raise`
are `query` (`OpenSocketQuerier.py` 31-57), with the lock released in between; `QueryAsync`
is `query_async`, `Receive` is `_internal_data_recv`; `disconnect` is two actions, since it
closes the connection before it takes the lock. A query is its number, and an
answer the number of the query it answers, which the code cannot see. The Core is external: `CoreAnswers` answers the
first query on its way, `Unserved` drops the first few, as a Core does whose node dropped a request or has gone.

`KnotLinkSystem`: the Core takes the first query on the wire to the node (`Forward`), where it becomes a
request, and remembers its key; `AnswerBack` is the node's `sendBack`, which the Core passes to the client.
A query for a node that has gone is lost (`Discard`). The client is
`OpenSocketQuery` with the Core's step replaced, the node `DownloadNode`, both unchanged. To the client the two together are
again `OpenSocketQuery`: `Served` maps `toCore` to the queries the node has taken in and can still answer (`AtNode`: the one its
handler is at, then those in `data_queue`, by their keys; none once it has gone) followed by those before it, and
`ImplementsQuery` says that every step is then a step of `OpenSocketQuery` or a stutter. A request that the handler drops, and the
end of the node, are its `Unserved`.

`TcpClient`:

| In the model | In `tcpclient.py` |
|---|---|
| `Connect`, `Connected`, `SetCallback`, `Register` | `connect_to_server` (44), and `init` of `OpenSocketResponser` and `SignalSubscriber` |
| `Disconnect`, `FindTimer`, `CancelTimer`, `ForgetTimer`, `CloseSocket` | the five accesses of `disconnect` (146) |
| `Fire`, `Check`, `Write`, `Again`, `Assign`, `Daemon`, `Start` | a timer, and the accesses of `send_heart_beat` and `start_heart_beat` (55-60, 82-90) in its thread |
| `Loop`, `Recv`, `RecvEnds` | `receive_data` (93) |
| `AwaitMore`, `Refuse`, `Deliver` | one turn of the loop of `_process_buffer` (112) |
| `CoreSends`, `CoreHangsUp` | the Core, external: frames with or without the magic number, of any length, 0 and more than `MAX_MSG_SIZE` included |

The magic number and the length take one unit of the stream each; `recv` may cut it between any
two units. A timer is a number, so that a second one can be told from the first.

## 3. The runs

Passing:

| Run | What it shows |
|---|---|
| `ranged` | Two subworkers on six bytes, over nothing or an older and longer file, that split each other's ranges, by finishing early and by auto-acceleration, with one fault (a retried error, a pause, or a death): `CompletedFileCorrect`, `NoOverlap`, `NoOrphanedRange`, `RecordedProgressKept`. |
| `resplit` | Two faults among pause, death, full disk, refused ranges, a record or a file that cannot be written or deleted, over an older and longer file, and a number of subworkers that changes between runs: `RecordOnDisk`, `RecordTilesFile`, and every step is one of `Transfer` (`ImplementsTransfer`), which includes that a COMPLETED file is whole. |
| `unknown` | The size is not known; interrupted and resumed from an open-ended record, a COMPLETED file is right. |
| `hostile` | Every kind of fault, two at a time, files deleted or moved by half and a replaced remote file included. The bytes may then be wrong, but every value keeps its type (`TypeOK`), the ranges stay a partition (`RecordTilesFile`), none loses its task, every run ends (`RunEnds`), and one that was not interrupted completes (`DownloadCompletes`). |
| `signals` | A download as its client hears of it, over failures and later requests for the same file: while ranges are used no byte is counted twice (`NoByteReportedTwice`) and the percentage never falls; `completed` is only said of a complete file; every download ends with a signal. |
| `node` | Three requests with two reqIDs and every kind of misbehaviour: no two downloads of one reqID are active together (`OneDownloadPerReqID`), because an active one stands in the registry (`RegisteredWhileActive`). The thread that answers requests ends only at a request with bad `threads`, at one that came before there was a loop, or at the reqID of a download that ends just then (`DeathHasCause`): if no client sends such a request, nothing that happens to the downloads ends it. |
| `query` | Three queries, synchronous or not, with timeouts, late answers, queries nobody answers, a lost connection and a disconnect: an answer is used once, is one's own or a late one (`AnswersAreOwnOrLate`), `None` is returned only after `disconnect`, a timed query ends, and `disconnect` wakes any. |
| `system` | A client and the node joined: the Core and the node are the Core that `OpenSocketQuery` assumes (`ImplementsQuery`); as long as no timeout has expired, answers are the query's own (`OwnAnswers`). The client uses each reqID once, with valid numbers, and begins after the script has started: `reuse`, `bad_threads` and `early` end the thread that answers (`handler_dies`, `DeathHasCause`) and are left out here. A query that reaches the node then ends in the client, by its answer or by its timeout, unless a connection or the process goes first (`QueryIsAnswered`); an accepted download reports its end, unless the process ends first or it has raised before its `try` (`mkdir`, the probe), which the run contains (`AcceptedIsReported`). |
| `connection` | A stream cut anywhere, malformed frames, loss of the connection, and a disconnect that races with the timers: `DeliveredInOrder`, `OneHeartbeat`, `MessagesAreDelivered`, `HeartbeatEnds`. |
| `functions` | `BrowserIsImitated`: the profile and the platform chosen for a User-Agent are those of its browser; `HeadersAgree`: no header contradicts the profile, and a client without one names a browser exactly if it is given headers or a userAgent; `MapArrives`: a map is read as it was written, if no key has a separator and no value a ";"; `ProbedFileIsCovered`: whatever the server answers to the probe, the ranges of a fresh run reach every byte; `OffsetArrives`: the halves of an offset are put together again. |

Violated, each a disagreement between the code and what the repository says:

| Run | What it shows |
|---|---|
| `handler_dies` | `main.py:198`: the registry is read twice; if the loop pops the entry in between, the `KeyError` ends the only thread that answers requests. |
| `late_answer` | `OpenSocketQuerier.py:64`: the answer to a query that timed out becomes the result of the next, although the comment on `_timeout_occurred` says that it prevents this. |

Other deviations were met while modelling. The model contains all of them; the runs of the properties
they break leave them out, by a kind of `Env` or by a bound, and most are in `hostile`:

- A first range of one byte has `end == 0 == FileSize.UNKNOWN` and is taken for a file of unknown size: its
  subworker fetches the whole file (`_engine.py:317`). `NoOverlap` needs first ranges of two bytes.
- With an unknown size, an error after the last byte makes the subworker ask for a range past
  the end; 416 is tried again forever (`_engine.py:333`). `DownloadCompletes` is checked with a known size.
- The fallback empties the file before it deletes the record (`_engine.py:551`); a death in between makes the
  next run complete a file with holes (`kill_fallback`). On Windows the record cannot be deleted, as
  its supervisor still has it open; it is then also left at the end of a run, or at the start of one without
  ranges (`locked`). A failure to empty the file ends the run with the record and the file as they were (`ftruncate`).
- The result of `pwrite` is ignored (`_engine.py:337, 372, 416`): a short write leaves a hole in a file
  reported complete (`short`).
- A single stream takes an early end of the body for the end of the file (`_engine.py:378`), even if it
  knows the size (`premature`).
- A resumed run opens the record with `"wb"`, which empties it, before it writes it
  (`_engine.py:267`; `kill_opening`).
- Nothing ties a record to a version of the file (`_engine.py:150`; `changed`), and half a deletion or half a move
  leaves a record without its data (`kept_record`, `unmoved`).
- If preallocation fails over an older, longer file, its tail stays (`_engine.py:516`); likewise with
  ranges and an unknown size, so `unknown` has no longer old file.
- `mkdir` and the probe are outside the `try` (`main.py:74-77`): if one fails after the client was told OK, it never
  hears of it. `AcceptedIsReported` states this as an exception (`job` is `raised`). `threads=0` is a division by
  zero inside `run` (`_engine.py:178`), which is reported as a failure.
- The percentage passes 100 when a single stream starts over (`main.py:114`), while `FuncList.json` says
  0-100. `NoByteReportedTwice` and `PercentNeverFalls` are about runs with ranges.
- A heartbeat that passed its check while `disconnect` ran starts another timer after the last was cancelled
  (`tcpclient.py:150`), which the comment at 147 means to prevent; it fires once and ends
  (`HeartbeatEnds`).
- Both clients of `HttpStep` are built without headers (`_engine.py:300, 476`), and `buildClient` only adds its
  default user-agent to headers that are there (`_client.py:166, 193`): with the profile "raw" and no `userAgent` the
  client names no browser. `HeadersAgree` says when one is named.
- A value with ";" is cut there (`kludf.py:17`).

### Bounds, and why they are enough

- `Length` is 4 to 6 bytes and `ReassignSize` 3. Splitting is decided by comparisons of
  remainders with `ReassignSize` and 2: six bytes for two subworkers give ranges of three
  that split once, odd and even, and a split range of one or two that does not; five give
  ranges of two, which never splits, and of three, which does; where splitting is not the
  question four bytes are enough.
- `ChunkSizes` 1 to 3 make chunks that end before, at and (cut) after the new end of
  a range.
- `MaxFaults` is 1 to 3. One interrupts a run and leaves the next to resume; two interrupt the resumed run
  too, or a fallback that follows an error; three interrupt that once more.
- `Counts` gives one to three subworkers; a task meets at most one other at a time, over
  a range they share.
- `OldSizes` has a file longer than the download, and none; `unknown` has a shorter one.
- Three requests and two reqIDs let a request repeat an identifier while a third uses the
  other; the race of `handler_dies` takes two.
- Three queries let the answer to a first be late for a second and displace it into a third.
- Two messages of up to two units and two timers: a frame that ends inside a `recv` that holds the beginning
  of the next, and a timer created while another is cancelled. Time stops at the last timer of a connection that is
  up (`Fire`), since there is always one more.
- `functions` has three major versions, files of up to five bytes, words of 8 values instead of 2^32, keys and values of
  up to two characters.

What holds on these instances by `CompletedFileCorrect`, `RecordTilesFile`, `DeliveredInOrder` and most of the other
safety properties is proved for all (section 4).

### Fairness

`HttpStep`: weak fairness of each subworker's steps, of the TaskGroup's abort and end, and
of the run's clauses. asyncio runs every ready task, and a server that keeps silent is cut
off by the read timeout of 30s, which is a transient error and counted in
`MaxFaults`. So `DownloadCompletes` says: if errors stop, it completes. Nothing is assumed of
the supervisor or of the user, who need not start or resume anything.
`DownloadSignals` adds the coroutine that creates a step and runs it, and what follows the run.

`DownloadNode`: weak fairness of the handling thread, of each download, and of the script. That
`step.run` ends is what `RunEnds` shows of `HttpStep`.

`OpenSocketQuery`: the caller's and the receiving thread's steps, `disconnect` once it began, and the Core's answers
while there is a connection. A wait with a timeout ends; one without need not.

`KnotLinkSystem`: one weak fairness for all the steps of running threads. No step can be repeated
without end, for each consumes a request, a message or a place in the code, so none is left behind.

`TcpClient`: the owner's steps, the timers and the receiving thread. Nobody has to disconnect, and a `recv` that is
waiting need not end because another thread closes the socket: only the Core's hanging up ends it.

## 4. The proofs

All are safety, for every value of the constants that satisfies the assumptions of the module and
those of the theorem.

`HttpStepProofs`

- `TypeCorrect`: `Spec => []TypeOK`. `TypeOK` is not inductive: that a single stream
  (marker -1) never reaches the record depends on `canRange => AllRanges(subworkers)`, that
  chunks are counted by naturals on each range having a byte (`Sound`), and that a loop
  only runs on ranges of its kind on `Paired`. `WellFormed` adds these, and
  `WellFormedAlways` proves it, one lemma for each group of actions. The lemmas before it say what the
  operators of `Subworkers` return: `Grows` is the relation they share (earlier ranges keep their start
  and count, new ones are empty), and each is shown to establish it.
- `RecordNeverAhead`: `ASSUME OrderlyDisk PROVE Spec => []RecordOnDisk`. `OrderlyDisk` excludes
  `short`, `locked` (every deletion of a record succeeds) and `kill_fallback`. The strengthening `ClaimsOnDisk` adds that the subworkers' own
  counts are on disk, since the record is copied from them, and that a run that may empty the file,
  a single stream, has no record.

`HttpStepFilesProofs`, of `FilesSpec`

- `FilesTypeCorrect`; `FilesRecordNeverAhead` under `OrderlyFiles` (`OrderlyDisk`, and `kept_record`, `unmoved`,
  `changed` do not happen). Between runs only the record counts, so `Claimed` drops the claims of the subworkers there.
- `RecordAlwaysTiles`: `RecordTilesFile`, with no assumption on the environment. The invariant `Tiled` says of the
  subworkers what the property says of the record: each range begins after the one before it ends, the last ends with the
  file. Every split keeps it, by the lemmas on `SplitAt`.
- `NoRangeOrphaned`: if `premature` does not happen. `Attended` is the invariant: a range without a task is complete, or
  the group is aborting.
- `CompletedIsWhole`: `CompletedFileCorrect`, under `Faithful` (`OrderlyFiles`, the length is known, no `premature`,
  no failed preallocation). The invariant `Known` joins what precedes: the ranges tile the file (`Tiled`), their counts are on
  disk (`Claimed`), none that is incomplete lacks a task (`Attended`), so that a group that ended well has filled the file; and
  what the size of the file is in each phase (`Measured`), so that nothing is left of an older one.

- `UnsizedIsWhole`: `CompletedFileCorrect` of a file whose length nobody told the step, under `FaithfulUnsized` (`OrderlyFiles`,
  no `premature`, no older file that is longer). Nothing tiles an unknown length: the invariant `Streamed` says instead that there is
  one subworker, that it counts no byte which is not on disk, that the file has no byte after the end of the download, and that
  the subworker is done only when it has counted the last byte. Each of the three assumptions is needed (section 3).

`TransferProofs`

- `RecordedProgressLasts`, an action property, if `record` and `kill_opening` do not happen. `Carried`: the
  subworkers of a ranged run count at least what the record does. That the steps of a supervisor keep it needs that
  no range ends before what was received in it (`Fitted`).
- `TransferImplemented`, `FilesSpec => ImplementsTransfer`, under `Tidy` (`Faithful` or `FaithfulUnsized`, no `kill_opening`). One lemma maps
  each group of actions to a step of `Transfer` or a stutter, using `Known` and `Carried`.
- `LongRangesNeverOverlap` and `RangesNeverOverlap`, of `NoOverlap`, with no restriction of the environment.
  `NoOverlap` is false where a range is the first byte alone (section 3), so the first theorem says it of every state
  in which no range of several is (`Long`), whatever the states before it were, for every length and count. The
  invariant `Apart` says that no subworker has gone past the end of its range, between two runs too, and that where
  there is no range to keep to there is one subworker only. The second theorem says what makes `Long` hold: a file and a
  `ReassignSize` large enough for the numbers of subworkers that are asked for (`Roomy`). A record of fewer ranges than
  a later run wants is split to any size by `RestoreSplit`, so the first range may be halved once for each range that is
  missing: `room[k]` is what it still has when there are k ranges (`Spacious`). `EightAreRoomy`: 256 bytes and a
  `ReassignSize` of 255 (in the code 512 KiB, unless it is configured) are enough for all numbers up to the 8 of
  `_do_download`; `SameCountIsRoomy`: with one number for all runs, as in `ranged`, two bytes for each are.

`DownloadSignalsProofs`

- `CompletedSignalIsTrue`: `CompletedIsTrue`, under `Faithful` or `FaithfulUnsized`. The invariants of the engine are carried over to `SignalsSpec`,
  where a step may also be dropped with all it knew (`Drop`). That no record is left (`Cleared`) needs that it can be deleted.
- `NoByteCountedTwice` and `PercentOnlyRises` (an action property), of files of two bytes or more, with no restriction
  of the environment, for behaviours in which no range of several is the first byte alone (`[]Long(subworkers)`, which TLC
  confirms of every behaviour under the constants of `signals`). The invariant `Counted` says that the total reported is at most
  the number of bytes the ranges have received, which are bytes of the file (`Inside`) and are all different (`Apart`).
  `ProgressIsTrue` replaces the condition on the behaviour by `Roomy`, which the constants of `signals` satisfy, and adds the
  file of one byte. There the only subworker asks for all that comes and nothing in its range stops it, so the argument is another
  one (`CountedOnce`): no request reaches past the end of the file (`Lasts`), and the byte is only reported while nobody
  has received it.

`OpenSocketQueryProofs`: `EveryAnswerUsedOnce`, `WrongAnswerIsLate`, `NoneOnlyAfterDisconnect`, `QueryTypeCorrect`,
with no restriction of the environment, unserved queries included, from the invariant `Accounted`. The two wires, what
is stored and what was used hold numbers in ascending order (`InOrder`); what is stored for the query in progress has
been used by nobody (`Kept`); an answer that is not one's own comes after a query that ended without (`Answered`);
only `disconnect` wakes without storing (`Woken`). `OwnWhenAllAnswered`: while every query that ended has ended with
an answer, each had its own, by the invariant `OneByOne`: only the query asked last may be without an outcome, and
only while its caller is in it.

`KnotLinkSystemProofs`

- Of `DownloadNode` alone: `OneDownloadAlways`, `Spec => []OneDownloadPerReqID`, with no restriction of the environment. The
  inductive invariant is `Registered`: an active download is what the registry holds for its reqID, unless
  the handler is just about to write it there (`RegisteredWhileActive`), and from the handler's look to
  its entry no other download of the reqID is active (`NoRival`). The second is needed because the
  registry has no entry for a download that was submitted and is not registered.
  `RegisteredAlways`, `ActiveIsRegistered`, `TypeCorrect`: that invariant, its first part, and the types.
- `DeathAlwaysHasCause` (`DeathHasCause`), an action property of `DownloadNode`: when the handler has seen its reqID in the
  registry and does not find it there, a download of that reqID has popped it, and has ended (`Witnessed`).
- `NodeInSystem`: `SystemSpec => Spec`, so that these hold in the system (`OneDownloadInSystem`).
- `QueryImplemented`: `SystemSpec => ImplementsQuery`. The invariant `Joined` has one key for each request; by the lemmas on
  `Drops`, a step of the node keeps the line of queries it holds, takes off the first, or drops all.
- `OwnAnswersAlways` (`OwnAnswers`) and `AnswersUsedOnceInSystem`: by the refinement, the theorems of `OpenSocketQueryProofs` hold of
  the client of the system.

`TcpClientProofs`, with no restriction of the Core

- `FramingIsFaithful`: `Spec => []DeliveredInOrder`. The invariant `Streamed` describes the buffer and what `recv` has not yet
  returned as one stream, wherever it is cut: whole frames (`Framed`) of ascending numbers, with every message that
  has not been delivered (`Complete`) and every malformed frame (`Barred`). Lemmas on streams say that this survives
  taking out the first frame and adding one at the end; `recv` leaves the stream as it is.
- `NeverTwoHeartbeats`: `OneHeartbeat`. `Turn`: at most one timer or thread is to go on, and while the connection is up
  `heart_beat_timer` is the one it has created.
- `ConnectionTypeCorrect`.

`FunctionsProofs`

- `ProbedFileAlwaysCovered`: for every length and number of subworkers. The lemmas are the arithmetic of `BuildSubworkers`: the chunks
  follow each other from the first byte, and the last is given what the division leaves over.
- `OffsetAlwaysArrives`: for every number of values a word has, 2^32 among them.
- `BrowserAlwaysImitated` (`BrowserIsImitated`): for every finite set of versions. Versions that are offered for one family are in a
  strict order (`Ordered`), so that each place in the registry belongs to one profile (`NewestFirstSorts`), and the first that fits a
  browser is the nearest to it (`ClosestFound`). `NewestFirst` states the order by how many profiles are newer, because the
  sorting operator of the TLC module has no definition for the prover.
- `HeadersAlwaysAgree`; its lemma `HeadersFollow` says the same for every set of headers a caller may give, none included.
- `EveryMapIsRead`: for every alphabet, number of pairs and length of keys and values, `Deserialize` returns the map that
  `Serialize` was given, if no key holds a separator and no value a ";" (`Clean`); `MapAlwaysArrives` (`MapArrives`) is the case
  the run enumerates. `FlattenSeq` is defined by recursion on the number of pieces. That it meets its equation is shown
  by `Induction`, which is about a set of numbers and so needs no operator parameter: it follows from the least number outside
  the set. The text of a map is then described by where each piece ends (`LaidOut`); `Split` finds these ends by counting
  (`SplitFinds`), and a piece is cut at its first "=" (`PairIsRead`).

Model-checked only: the liveness properties (`RunEnds`, `DownloadCompletes`, `EndIsSignalled`, `QueryIsAnswered`, `AcceptedIsReported`, `TimedQueryEnds`, `DisconnectWakes`, `MessagesAreDelivered`,
`HeartbeatEnds`), which are out of the prover's reach. `RequestAnswered` is only shown violated. Every invariant and action property that a run checks has a theorem.

## 5. Not modelled

- A `.ghd` file that cannot be read is one that is not there: `_loadRecord` returns the same for both (156-158), so `record` is
  what it returns. That the file remains until it is written again is not kept.
- A run that raises before its first task (`_engine.py` 460-512) is an action of `DownloadSignals` only. In `HttpStep` it would leave
  everything as it was, but for the record of a single stream.
- A cancelled task of a group stops in one step (`CancelLive`). In the code a cancellation is raised at the await a task is at; every
  loop of `_runSubworkerWith` raises it again, and nothing on the way out awaits, so no task does anything after it that
  another could see.
- What the Core would send to an owner it does not know. A responder or subscriber is known by the name it sends, a querier by
  its first query; `Register` stands for either, the first message of the owner.
- The modification time set at the end of a run (`_engine.py:570`); speed, its history, and the decisions
  taken from it, which are choices.
- Two requests for the same destination at the same time: the node does not refuse them, and two steps would write one
  file and one record. `HttpStep` assumes to be the only writer; the product of two is beyond what TLC can search. One
  after the other is in `DownloadSignals`.
- `sendall` by several threads on one socket without a lock: how the system cuts a long message is not in the code. Frames
  longer than a `send()` takes are left out.
- The standalone mode of the script, and `disconnect` of the response side, which the node never calls.
- `matchIdentityPreset`, `profileFamilies` and `profileVersions`, which nothing calls; the other options handed to the
  HTTP library; configuration records.
- The sparse attribute and the handles of the Windows API.
- Argument parsing, printing and formatting on the command line.

## 6. What is left

Two steps on one file, on an abstraction of `HttpStep` small enough to be composed with itself.
