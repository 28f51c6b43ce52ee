# A TLA+ model of wlanpi-mcp

wlanpi-mcp is an MCP daemon in front of `wlanpi-core`, the REST and WebSocket
service of a WLAN Pi. Most of its tools are one call to core. The parts that
are hard to get right are the ones that outlive a call: background captures,
profiling runs, the task records clients poll, confirms that span two
requests, and files that are written while they are handed out. This directory
models those parts, checks them with TLC, and proves their safety with TLAPS
for every value of the constants.

Paths below are relative to `src/wlanpi_mcp/`.

## The system

The daemon is one asyncio loop. Everything between two `await`s is atomic, and
at each `await` any other request, background task, timer or cancellation may
run. The transport is stateless: a client is known only by the token and the
capabilities of each request. What survives a request lives in a few module
level dictionaries, which a restart empties, in files, and in core.

| component | state it keeps | operations | what is hard |
|---|---|---|---|
| task store (`tasks.py`) | `TaskRecord`s, the body task of each | create, tasks/get, tasks/update, tasks/cancel, spawn's body | cancels at every await, a question's timer against its answer, first writer wins, retention |
| profile_clients (`tools/profiler.py`) | `_ProfileRun`, core's one profiler | start, count, ask, stop, teardown | POSTs cancelled or lost half way, other clients' profilers |
| file captures (`tools/capture_file.py`) | `_CAPTURES`, the run task, file, socket, core session | start, stop, cancel, clean-up | clean-up under cancellation, status against file, two ways to stop |
| streaming captures (`tools/capture.py`) | `_StreamRun`, tee file, socket | own or subscribe, window, drain, teardown | one owner per interface, races with other owners, early ends |
| capture socket (`capture/ws_client.py`) | pending bytes, `_ended` | commands, consume, stop, close | commands answered late, end events |
| capture files and links (`capture/storage.py`, `tools/capture_file.py`) | directory, `_TICKETS` | open, list, resolve, link, download | names by the second, files still being written, expiry, restart |
| network configuration (`tools/netconfig.py`) | nothing; core's active profile | activate, deactivate, delete | core changes between the question and the answer |
| confirms (`tools/confirms.py`) | nothing; sealed state at the client | gate, ask with state, resume, pick | replay, expiry, answers without state |
| profiler reports (`tools/profiler_reports.py`) | `_TICKETS` of snapshots | list, fetch, zip, download | purge between listing and fetch, limits on stale sizes |
| frame dissection (`capture/pcapng.py`, `capture/dot11.py`) | reader buffer, scan table, frame log | feed, update, add | blocks over chunk borders, limits |
| core client, middleware, server | token context variable | request mapping | token lifetime in background work |
| single-call tools, resources, prompts | ttl caches | one core call each | stale caches |

Interactions: a tool call creates a task record and spawns its body
(`tasks.spawn`) or passes its own stop hook (`start_pcap_file`); the body asks
its client through the record (`request_input`); stop and cancel requests await
the body; bodies drive core over REST or over a capture socket of their own;
captures write files that the link tools read.

## Modules

| module | models | proofs |
|---|---|---|
| `TaskLifecycle` | abstract: what a client of tasks/* may rely on of one task | |
| `Tasks` | the store, the three methods and the body task of `spawn` | `TasksProofs` |
| `ProfileClients` | `profile_clients` runs against core's single profiler | `ProfileClientsProofs` |
| `ProfileTask` | the two together: a run as the work of its task | `TasksProofs` |
| `CaptureLifecycle` | abstract: what the daemon keeps to with every capture of its own | |
| `FileCapture` | `start_pcap_file`, `stop_pcap_file`, the background run | `FileCaptureProofs` |
| `StreamCapture` | `capture_scan` and `capture_observe` on one interface | `StreamCaptureProofs` |
| `Pcapng` | `PcapngReader`: blocks out of chunks, as an operator | `CaptureSocketProofs` |
| `Dot11` | what a frame says of an access point; `FrameLog`, `ScanTable`, as operators | `CaptureSocketProofs` |
| `CaptureSocket` | one capture WebSocket, message by message, into the summary and the tee file | `CaptureSocketProofs` |
| `PcapFiles` | the capture directory, the registry, one-time links | `PcapFilesProofs` |
| `NetConfig` | activate, deactivate, delete under their confirms | `NetConfigProofs` |
| `ProfilerReports` | `get_profiler_reports`: listing, downloads, snapshot links | `ProfilerReportsProofs` |
| `MC*` | instances for TLC | |

Each module's actions carry the name of what they model, and `PROJECT.json`
("map") gives the lines of every definition. Definitions whose comment starts
with "Mutant:" are plausible bugs; each is put in the place of the definition
it varies to see that the named property notices.

**Tasks.** One record and one body per task. `body` says at which await the body
is; `cancelPending` is a `CancelledError` that was delivered and not yet raised.
`Cancel` and `CancelReturns` are the two halves of tasks/cancel around its
await; `Abandon` is a client that goes away while its tasks/cancel awaits the
body, which asyncio turns into a cancel of the body. `_ask`'s future and the
timer of `asyncio.wait_for` are separate (`TimerFires`, `Resume`), because
tasks/update may resolve the future before the timer fires and the work resume
after: a cancel may find its question answered or timed out, and its wake-up may
already have been read. A work that a cancel interrupts may end with another exception, when its
own clean-up raises. `Owning` tasks have the teardown and `on_cancel` hooks;
`run_speedtest` has neither. `Tasks` implements `TaskLifecycle` under the
mapping "a record that the store dropped is expired".

**ProfileClients.** Each run is a body of `Tasks`; in this module the store is
left out and a cancel is the action `Cancelled`, possible at every await, after which the
teardown runs shielded. A POST is three steps: sent, handled by core, heard by
the run; `CallFails` may cut the last off and `Lost` the middle. Other clients'
`start_profiler` and `stop_profiler` are `OtherStarts` and `OtherStops`. Core is
assumed to handle a run's start before the stop sent after it. Core stops the
profiler it runs, whoever started it; `ousted` is history, the runs whose
profiler somebody else's stop ended.

**ProfileTask.** `Tasks` and `ProfileClients` side by side, with one variable
`outcome` for how the work ended. Every step of a session is a step of its
task's work: the session parks when its body does (`Asks`), goes on when the
body resumes and only with a confirm (`Resumes`), ends with it (`Completes`,
`Fails`, `CutShort`), and its stop is the body's teardown (`TearsDown`). What was
the free step `Cancelled` needs a delivered CancelledError here, and what was the
free answer `Confirmed` needs the client's. `Clients`, `Store` and `Radio` are
the steps that only one of the two sides sees. The teardown runs on, detached,
when a cancel cuts the body's wait for it. The clock stands still: only ended
records expire.

**FileCapture.** The call that starts the capture, then the background run, then
the clean-up (`stopping`: the stop command is awaited; `closing`: the close is).
The file is closed in the same step that sets the status, since there is no
await between. stop_pcap_file and tasks/cancel both await the run, and a
cancelled waiter cancels it. Core handles the start command of a socket once
(`started`), perhaps after the call stopped waiting for it, and ends the session
of a socket that closes. `FileCapture` implements `CaptureLifecycle` and, for the
record of a tasked capture, `TaskLifecycle`: no body of `spawn` writes that record,
the run and the requests do.

**StreamCapture.** Calls compete for one interface. Each command is one step at
the moment core handles it; a call acts on the answer later or never
(`CommandFails` covers a start that core did handle). A call decides when it
lists whether it is a scan or an observe, and when its window starts whether it
is a task. An owner's window ends with stop and a drain. The final clean-up of
a blocking call may be cut off by a cancel (`Killed`), a task's teardown may
not. `StreamCapture` implements `CaptureLifecycle` too.

**CaptureLifecycle.** A capture asks for the interface, runs or fails, and is
cleaned up. Core may take it as long as its socket is open and it does not run
yet, also when nobody waits for that any more, and may drop it at any time. The file
is closed when the run is left; a clean-up that comes to its end (`Releases`)
leaves no session, socket or file, and the outcome of a capture that ran where
its client reads it; one that is cut off (`Abandons`) has at most what it had. In
`FileCapture` the outcome is the listing and the task record; in `StreamCapture`,
what the call's result is built from.

**Pcapng, Dot11.** Pure operators, with references in the same modules:
`PacketsWithin` says which packets a stream's first cells hold, `LogOf` and
`TableOf` what a log and a table are to say of a sequence of packets. A cell is a
32-bit word of the stream, so a header's 12 bytes are 3 cells; lengths, the byte
order mark and the type keep their meaning, and the reader's hunt for the next
block goes word by word. A packet is what the dissection branches on: header,
captured size, kind, elements. Of the fields that keep the last value seen the
channel stands for all. The loop of `feed` is written turn by turn (`Turn`,
`Turns`), and the sequences that grow with a stream as recursive functions of a
position, so that they can be reasoned about.

**CaptureSocket.** The call from its start or subscribe command to the end of its
window. `link` holds what core sent and nobody read; `AwaitReads` is the wait
for the answer, which keeps chunks in `pending` and records an end event;
`Replays` and `Reads` are `consume`, through reader, table, log and tee;
`Leaves` is the end of the window, and for an owner the stop and the drain with
the same reader. A write of the tee fails in `ReplayFails` or `WriteFails`.
`absorbed` is history: the cells the reader was fed.

**PcapFiles.** A file is named by second and session and holds a number of
chunks. Writers with a registry entry are file captures, the others are tees.
A link call asks by id (`Resolve`) or by path, any file of the directory. It has
three parts: checks, the token check at core, minting and hashing, then the
answer. `Restart` empties registry and tickets. `wrote` and `last` are history:
what each capture has written, and which opened last for a session. Of several
captures of one id the id names one (`Named`), the registered or the newest; the
files of the others are reached by path.

**NetConfig.** A confirm needs two requests, and nothing is kept in between:
`asks` are the sealed states clients may echo. Core's refusals and the outcomes
of an admitted request are external, and so are other users.

**ProfilerReports.** A call lists core's manifest, downloads the files it wants
a few at a time (`Concurrency`), and mints tickets for the snapshots it took.
`Store` and `Remove` are the profiler and purge_profiler_data, at any time. A
download that fails ends the call while its siblings run on, as asyncio.gather
has it. The content of a file is its size, which is what the limit and the
answers are about; `standing` remembers which of the listed files have been
there ever since, and `handed` what each ticket delivered.

## What is checked

Passing runs (all properties of the run hold):

| run | bounds | shows |
|---|---|---|
| `tasks_safety` | 2 tasks (one owning), 2 cancel requests, 1 answer, clock 0..1, TTL 0 | the outcome is the work's own; questions keep a waiter; answers are neither invented nor lost except to the timer; no teardown is skipped; a tasks/cancel cuts unfinished work short; refinement of `TaskLifecycle` |
| `profile_task` | 1 run, 2 requests, 2 windows, core may fail | an outcome over a profiler that still runs needs a failed stop or a cancel that cut the wait; only an answer to the question opens another window; tasks/cancel is always answered; the radio is not held for ever |
| `profile_safety` | 2 runs (one can be asked), 1 client to wait for, 2 windows, core may fail | a run that heard its answers stops no profiler but its own, and reads reports after that; what a run may leave behind |
| `file_safety` | 2 captures (one a task), 2 requests | refinement of `CaptureLifecycle`: a finished clean-up leaves nothing and tells its outcome; records tell the run's end; stops are answered |
| `stream_safety` | 2 calls, each a scan or an observe, blocking or a task, and another application | refinement of `CaptureLifecycle`; no call ends another's capture; the early flag is true only of a capture that died; the interface is freed |
| `frames_safety` | 4 streams of 5 to 8 blocks (two sections, both byte orders, joined mid-block), chunks of 5 or 9 cells, 2 records, 1 other event | the summary tells of exactly the blocks whole in the tee file; nothing core sent is lost, doubled or reordered; the call ends |
| `files_safety` | 3 writers of 1 session, 1 link, clock 0..2, link life 1 | a capture keeps what it wrote, and an id names its capture's file; a link works once, and before it expires; a registered capture is shown as ended only once it is |
| `netconfig_safety` | 2 profiles, 2 clients (one can confirm), 2 sealed states | a profile is taken down only with the consent to that call |
| `reports_safety` | 1 call, 3 files (one a session CSV) of 2 sizes, 2 download slots, clock 0..1, link life 1 | an answer leaves out only what was gone; what a link delivers is what its answer promised, once; every call ends |

The bounds are small because the hazards are pairwise: two requests on one
task, a cancel in a clean-up, one capture against another, a timer against an
answer. A third writer, call or request is there where a race needs a bystander.
TTL 0 makes every finished record expire at the next tick, so that pruning meets
every state; clocks run far enough for an expiry to be reached and passed.
The requests of `tasks_safety` are interchangeable, which its symmetry set uses;
the other runs explore every actor by name, as liveness needs.
Chunks of 5 and 9 cells, neither a multiple of a block's 3 or 4, put a border at
every place of a block over the four streams; `MaxBlock` is 8 cells, above every
block, and 2 records fill the log before each stream ends. One informational event
is enough to come between any two messages; that a socket which chats for ever
postpones its command timeout is a hazard the bound hides. One run of
profile_clients in `profile_task` meets the other profiler through
`OtherStarts`; two runs against each other are in `profile_safety`. Windows are
bounded because a client may grant any number of them.
Concurrent calls of get_profiler_reports share nothing but the ticket store, so
one call with several tickets has what there is to see.

Violation runs each show one claim of the code's own comments that the code
does not keep; `PROJECT.json` ("findings") quotes them:

| run | claim that does not hold |
|---|---|
| `profile_interrupts` | a running profiler is not interrupted: a cancel while the start is pending makes the teardown stop it |
| `file_cancel` | tasks/cancel returns only after the clean-up: another request that goes away ends the clean-up early |
| `files_hash` | the hash matches a capture that had stopped: it may stop between the hash and the answer |

Further differences between the code and its comments met on the way are noted
at their hazard in `PROJECT.json` (a failing write of the tee, the retention of a long task, a teardown
whose stop fails, a second stop after one whose answer was lost, captures of one
second, older files of an id, tee files listed as `on_disk`, the profile a
question named, a repeated acceptance, the snapshot limit, a link that is dead on
arrival).

## Fairness

Only what the loop and the code's own timeouts give: a step the loop can take is
taken, timers fire, and a call to core returns (REST calls and socket commands
have timeouts). A work that was handed a CancelledError raises it. Nothing is
assumed of clients (no answer, poll or cancel), of the duration of a work or a
capture, or of other applications. In `CaptureSocket` the call's own moves have
one condition, that it leaves each phase it is not blocked in. A call to core that is never answered ends
at the HTTP client's timeout; that it succeeds is assumed nowhere.

## What is proved

Every safety property of the passing runs is also a theorem. Each proof module
defines one inductive invariant (`IInv`; `SocketInv` in `CaptureSocketProofs`), the
type invariant and what the property needs to be kept by a step, and has one proof
step per action. Assumed are only the constants' assumptions in the modules
(they are of their kinds, and the markers such as `None` are not among the
values they mark).

| module | theorems | what the invariant adds |
|---|---|---|
| `TasksProofs` | `TypeOK`, `OutcomeIsTheWorks`, `QuestionHasWaiter`, `AnswerFidelity`, `TeardownNeverSkipped`, `CancelCutsTheWork`, `ImplementsLifecycle` | `Coupled`, `CancelTracked`, `QuestionTracked` |
| `ProfileClientsProofs` | `TypeOK`, `RefusedNeverStops`, `ReleasedBeforeReports`, `LeakNeedsFailedStop`, `StopsItsOwn` | `Requests`, `Holds` |
| `TasksProofs`, of `ProfileTask` | `ProfileSpec => Spec`, `ProfileSpec => Profile!Spec`, `OutcomeMeansReleased`, `WindowNeedsConfirm` | both invariants and `Linked` |
| `FileCaptureProofs` | `TypeOK`, `ImplementsCapture`, `ImplementsTaskLifecycle`, `CleanEnd`, `RecordTellsTheRun`, `AnswerMeansEnded` | `Released`, `WaitsForRun` |
| `StreamCaptureProofs` | `TypeOK`, `ImplementsCapture`, `ReleasedWhenClosed`, `EarlyMeansLost`, `NeverStopsOthers` | `Attachment` |
| `CaptureSocketProofs` | `TypeOK`, `SummaryMatchesFile`, `NothingLost`; of the operators `FeedAppend`, `FeedIsReference` | `EndsLast`, `Replayed`, `Whole`, `Summed` |
| `PcapFilesProofs` | `TypeOK`, `CaptureKeepsItsFile`, `NoWarningMeansDone`, `TicketWorksOnce` | `Filed`, `Stamped` |
| `NetConfigProofs` | `TypeOK`, `TeardownConsented` | `ForceConsented` |
| `ProfilerReportsProofs` | `TypeOK`, `NothingStandingLeftOut`, `LinkDeliversAnswer` | `Accounted` |

**Tasks.** None of the properties is inductive. `Coupled` ties each record to its
body: a record is terminal exactly when its body is done, and then carries the
outcome the body chose. `CancelTracked` says where a delivered or requested
cancel can be: a body is cancelled only after a request, and a waiting request's
task has been asked to end. `QuestionTracked` ties the record's question to the
future, the timer and what the client was told; a future the timer cancelled is
never read as an answer. That a cancelled work asks and completes nothing more
(`CutStep`) needs `CancelTracked`: until the work has ended, its CancelledError is
still to be raised. Each action preserves each part
(one lemma per group of actions); the properties follow from the invariant, the
action property and the refinement from the invariant and one step.

**ProfileClients.** `Requests` reads a run off its two POSTs. Core runs the
profiler of a run only on that run's answered start; a stop core handled came after
the start and left the radio free; where the run is says which of the two it can
have sent. A leak then needs a teardown stop that core did not handle. `Holds` says
that what core started for a run runs until a stop of the run or of somebody
else ends it; so a stop that finds another profiler there comes after one of the
two, or after a start the run never heard of. Those are the exceptions of
`StopsItsOwn`: core's profiler carries no owner, and a run that lost an answer
cannot tell.

**ProfileTask.** Every step of the composition is a step of the store or leaves it
alone, and likewise of the runs. This is the refinement of both parts, and carries
their invariants over. `Linked` is what only the two together keep: a teardown
that ended well had its stop answered or nothing to stop. With it an outcome on
the record (the store: the teardown has started, and ended unless a cancel
detached it) means a free radio (the run: an answered stop was handled).

**FileCapture.** `Released` says what a run holds at each place and that its record
ends with it; `WaitsForRun`, that a request waits only for a run that was spawned.
For the refinement each step is first named in the run's own terms (`RunMoves`),
which the invariant decides action by action, and those are then carried over
to the abstract variables (`MovesFromRun`); a step of one capture is a stutter of
every other. `CleanEnd`, proved beside it, says the end of a clean-up as a plain
invariant, as `ReleasedWhenClosed` does for `StreamCapture`; the two, and
`ImplementsTaskLifecycle`, are theorems that no run checks again.

**StreamCapture.** A socket is attached to one session: a call that owns a capture
joined none, so its stop reaches no other; and until its window is over an END
event is none of the call's own doing. The refinement goes like that of
`FileCapture`; that a call which has no result yet fails, and one which has it is
ending, is in the invariant's places.

**CaptureSocket.** The proof has three storeys. *Reader:* a turn of the loop of
`feed` on a buffer that will grow does what it does on the grown one, unless it
waits (`TurnExtends`), so a loop that stopped and was given more cells ends where
the loop over all of them ends (`FinResumes`); hence `FeedAppend`, that chunk borders do not
show. Block by block the loop passes the borders of a well-formed stream with
the byte order and the interfaces of the section it is in (`AtBlock`), and at a
cut block, or at stray words too few to be seen through, it waits; hence
`FeedIsReference`, that the packets are those of the whole blocks. *Summary:* the
references `LogOf` and `TableOf` speak of all packets at once; one packet more
changes them as `Add` and `Updated` do (`LogOfAppend`, `TableOfAppend`), so dissecting
packet by packet, in whatever chunks, builds them (`AbsorbAllIs`). *Socket:* `Whole` says
that what was absorbed, what is kept for the window and what is in the link
are, in this order, what core sent; `EndsLast`, that nothing of the capture
follows its end event; `Replayed`, that the window begins with what was kept; `Summed`, that reader,
table, log and tee are functions of the cells absorbed. Streams, message sizes
and the record limit are arbitrary; that a section keeps to one byte order and
that no block exceeds `MAX_BLOCK` are assumed of dumpcap (`WellFormed`,
`PcapngAssumption`).

**PcapFiles.** A file once opened stays, and the registry files a writer under its
session (`Filed`). `Stamped` says that names carry past times, that the last
capture opened for a session has the newest, and that a file holds the chunks of
its one writer; that `latest_path` finds the newest file uses that a non-empty
set of times up to the clock's bound has a latest, from the well-foundedness of
the naturals. A ticket that was honoured is out of the store, and its call is past
the only step that could put it back; the prune before each download takes out
what has expired.

**NetConfig.** The override is sent for a client that can answer only with the
accepted question of the same call.

**ProfilerReports.** A file that stands since the listing is to fetch, in flight
or got, and got when the answer is built; a ticket in the store holds what the
answer of its call promised and was never redeemed.

What a recursive function computes is proved by induction on a set of numbers
(`Induction` in `CaptureSocketProofs`, from the well-foundedness of the naturals):
the set of lengths at which the fact holds contains 0 and every successor.

Only model-checked: liveness (out of the prover's reach here), and the properties
that a run expects to be violated.

## Not modelled

- Wire formats, messages, progress texts, parameter validation.
- Of the dissection: the decoding of single elements into text (rates, suites by
  name, capabilities, country, load). It branches on bytes and keeps nothing.
- The pick of `scan_wlan` (`choose_from`, `resume_choice`): one core call behind
  a sealed choice; the sealed state and its boundary are those of `NetConfig`.
- The resource caches, read-only tools, prompts: one core call each. The slower
  of two concurrent reads may overwrite the newer, for at most a minute.
- The token of a request is a context variable that asyncio copies into the
  tasks it creates; a token that expires in a background run is a call that
  fails, which `ProfileClients` and `ProfileTask` have.
- Server assembly and packaging.

`PROJECT.json` ("components") has the reason for each, and "hazards" what no
property covers yet.

## Plan

Done: the modules above, in the order of the table.

Left:

1. The composition of `FileCapture` with `PcapFiles`, whose writers are its runs.
2. The pick pair with `scan_wlan`, and the resource caches.
