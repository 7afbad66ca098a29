# Intellicrack: a TLA+ model of its core

Intellicrack is a desktop workbench for reverse engineering in which an LLM drives
analysis tools on the operator's behalf. What is hard to test in it is not the
analysis but its coordination: a turn of the assistant runs on an asyncio loop, the
operator answers dialogs on the GUI thread, tools run as tasks that may or may not
obey a cancellation, sessions are written by turns, by buttons and by a timer
thread, and the hex workbench runs engine calls on a thread pool. MCP servers are
started, confined, asked about and torn down while the operator, a program's start
and its end overlap; and the hex core keeps a document's bytes, history and file
together under edits from several threads. These modules model that coordination;
TLC checks it on small instances and TLAPS proves its main invariants for all of
them.

Paths below are relative to the repository; `core/`, `ui/`, `mcp/`, `providers/`,
`bridges/`, `sandbox/`, `credentials/` are directories of `src/intellicrack`.

## 1. Inventory

| Part | State it keeps | Operations | What is hard |
|---|---|---|---|
| Orchestrator (`core/orchestrator.py`) | state word, cancel event, pending confirmations and the latest of them, current session, shutdown flag | process_user_input, cancel, shutdown, start/load/save/delete session, add_binary, ... | two coroutines between any two awaits; cancellation delivered at an await and caught by the wrong `except`; shutdown under a running turn |
| Message history (`core/orchestrator.py`) | the current session's messages; the paired and trimmed copy of a request | append, roll back, build, pair, trim | turns that overlap, fail or are switched away from leave calls and results without partner |
| Running tool calls (`core/tool_progress.py`) | tasks by call, calls the operator cancelled | run, cancel, cancel_all | one task cancelled by three parties |
| Main window (`ui/app.py`), confirmation dialog (`ui/confirmation_dialog.py`) | input enabled, queued signals, open dialogs, remembered answers, confirmation level | send, answer, cancel, auto-approve | nested modal dialogs whose calls are already over |
| Sessions (`core/session.py`) | Session objects, rows, manager's current session, auto-save thread, stop event | create, load, save, update, delete, close, cleanup, the worker's loop | every operation suspends between its steps; a thread that captures the current session |
| Session manager dialog (`ui/session_manager.py`) | the list it shows | load, delete, export, import | the list is a snapshot |
| hexbench job queue (`src/hexbench/jobs.py`) | records, order, payloads, meter, closed flag, a ThreadPoolExecutor | submit, poll, recent, take_raw, exercised, shutdown | a done-callback that runs on three different threads; eviction; shutdown during a submission |
| MCP deadlines (`mcp/operator_wait.py`) | deadlines, what each has left, open questions | send, renew, ask, answer | deadlines suspended by questions that overlap sends, renewals and time-outs |
| MCP connections (`mcp/connection.py`, `mcp/consent.py`, `ui/mcp_service.py`) | a supervisor task per connection, registered connections, stop and settled events, launch consent | start, stop, restart, test, reconnect, quit | overlapping operations around awaits, late notices, a prompt that is never answered |
| Write grants (`mcp/sandbox_launch.py`) | labels of directories, counts of holders, a ledger shared by programs | acquire, release, sweep | crash between any two steps, a sweep beside running servers, two programs |
| MCP configuration, catalogue, tool source | documents | parse, build | data |
| Locked JSON (`core/locked_json.py`) | documents shared by processes | read, update | two processes; crash between write and rename |
| Hex core (`src/intellicrack-hexcore`, Rust) | piece table, undo and redo stacks, save marker, baseline, mapped file, generation | every edit, undo, redo, save, copy, close | edits against plain bytes; a snapshot that is stale when its writer comes back |
| Process manager, sandboxes, bridges | child processes, pipes, VM life cycle | start, stop, call, close | external programs that die or hang |
| Providers, credentials | connections, tokens, cancel flag | chat, stream, refresh | mostly wire formats; token refresh by several requests |
| Program start and end (`main.py`, `core/single_instance.py`) | wiring | start, quit | order of the teardown |

How they interact. The window posts a coroutine per user message to the bridge loop;
the orchestrator alternates provider calls and batches of tool calls; a destructive
call makes the orchestrator emit a signal to the GUI thread and await a future,
which the dialog resolves; a tool call is a task; results go into the session's
message list, and a successful turn writes the session through the SessionManager.
The manager's worker thread, the session dialog and shutdown write and delete the
same sessions. The hex workbench is a separate HTTP service, whose queue runs engine
calls. The MCP service starts every configured server through the connection
manager; a connection asks the consent gate, whose prompt reaches the operator; a
sandboxed launch takes write grants before the child is spawned and gives them back
after it has ended; a request to a server runs under a deadline of the wait clock,
which the same server's questions suspend. The hex workbench and the hex panel share
Rust documents between threads.

What makes each part correct is what the properties in section 4 say; the list of
hazards with the line where each bites is in `PROJECT.json`.

## 2. Modules

| Module | Models | Kind |
|---|---|---|
| `AgentLoop` | turns, confirmations, dialogs, tool tasks, cancel, timeout, shutdown | specification |
| `ToolHistory` | the messages of a session through overlapping, failed and forced turns and switches, and the paired and trimmed copy that each request sends | specification |
| `Sessions` | SessionManager, its rows and its worker, with the turns, switches, deletions and shutdown that use them | specification |
| `JobLog` | what the job queue promises, job by job | abstract specification |
| `JobQueue` | the queue, its callers, its workers and the closer | specification, refines `JobLog` |
| `OperatorWait` | the deadlines of one server's requests and the questions that suspend them | specification |
| `McpServers` | the connections to one server, the manager's operations, consent, the end of the service | specification |
| `WriteGrants` | write grants of confined servers in several programs, their ledger and its sweep | specification |
| `Timeline` | what an editor promises: a line of contents, a place on it, a saved place | abstract specification |
| `PieceTable` | the piece table as operators on a record | pure algorithms |
| `EditHistory` | every edit, undo, redo and save mark over a `PieceTable` | specification, refines `Timeline` |
| `HexDocument` | save, copy and close by several threads under the document's lock | specification, refines `Timeline` |
| `AgentLoopProofs`, `SessionsProofs`, `JobQueueProofs`, `OperatorWaitProofs`, `McpServersProofs`, `EditHistoryProofs`, `HexDocumentProofs`, `WriteGrantsProofs` | their invariants and refinements for every instance | proofs |
| `MC...` | instances | TLC |

Operators named "Mutant of ..." stand before the definition they distort. They are
not part of the specification: each is a plausible bug, which the property of the
corresponding run catches.

`Timeline` is stated once and implemented twice: by `EditHistory`, where the bytes
live in pieces and only undo records carry the way back, and by `HexDocument`, where
the contents are given and the question is what threads without the lock do to them.
The two compose: `HexDocument`'s `Edit`, `Undo` and `Redo` are what `EditHistory`
shows its operations to be.

### AgentLoop

The state has four groups. Per turn: where its coroutine is (`pc`), the iteration,
the calls of the running batch, the current call, `force_no_tools_next`, whether
some call of the batch succeeded, and the timer of `wait_for`. Per call: one status
from `new` through the confirmation, the task and the result. The orchestrator:
`_state`, `_cancel_event`, the provider's `_current_task` and which requests a
cancellation of it has reached (`provider`), `_pending_confirmations`,
`_pending_confirmation` (`latest`), how far shutdown has got. The GUI: level, input,
queued signals, the stack of modal dialogs, remembered answers.

A step of the loop thread is what a coroutine does between two awaits. Where a
coroutine goes on without awaiting (the top of the while loop, the next call of a
batch), `loop` names the turn that holds the loop, and nothing else runs there; the
GUI thread may step at any time. Choices made in the abstraction:

* Emitting the signal and registering the future are one step: no await lies between
  them, and the GUI thread cannot resolve what is not yet registered except through
  the loop.
* `Cancel`, `CancelCall` and `SwitchSession` are coroutines posted to the loop; they
  may run whenever the loop is free. `cancel()` suspends nowhere, since no
  provider's `cancel_request` awaits anything, so it is one step.
* A click's `set_result`, partly called from the GUI thread and partly posted to the
  loop, is one step. Completion callbacks on the GUI thread are merged with the
  completion they report, and the final write of a successful turn with its end.
* A request is one of two kinds (`Requests`). In state `llm` it is a stream, or a
  chat() with nothing to cancel: a Cancel sets a flag that is looked at when the
  next chunk comes (`providers/openai.py:1190`, `core/orchestrator.py:2814`), so the
  request ends with a further chunk (`LlmCancelled`), with a reply (`ReplyFinal`: a
  provider that breaks out of its stream has the text so far), with an error, with
  the turn's timer, or never. In state `chat` it is the provider's `_current_task`,
  which `cancel_request` cancels at once (`RequestTaskCancelled`,
  `RequestCancelled`). There is one such slot per provider, which every request
  takes over and clears at its end, whosever the task in it is. That the opening of
  a Google stream is such a task too (`providers/google.py:749`) is left out.
* A reply to the request that must do without tools may hold calls all the same: it
  is appended with them and the turn ends well (`ReplyUnanswered`).
* A turn's timer is `armed`, `firing` (the cancellation could not be delivered to a
  future already done, and waits for the coroutine) or `spent` (delivered).
  `wait_for` turns only a CancelledError that gets out of the loop into a
  TimeoutError.
* Any tool that has begun may absorb a cancellation and return
  (`bridges/named_pipe_client.py:366` does).
* Wording, statistics, streaming chunks, the synchronous confirmation callback (the
  application registers the asynchronous one), `forget_decision` and the
  cancellation of posted coroutines by `main.py` at exit are left out. The state
  word `cancelled` is overwritten before anyone can read it.
* `asked`, `consent` and `effects` are history variables.

### ToolHistory

`AgentLoop` follows the calls of a turn; this module follows the messages. `history`
is the message list of the current session: `Send`, `Reply` and `Results` append
what the code appends, `Fail` rolls a turn back, and `LoadBegins` and `LoadEnds` put
the messages of a stored session, this one's or another's (`Rows`), in its place
while turns run. Ids are a small set that replies use again and again, as providers
do that number their calls anew. `Paired` is `_pair_tool_history` message by
message, and `Trimmed` gives every result `trim_messages_to_context_window` can
have, whatever fits the window; `Outbound` is what a request made now may send. The
system message, texts and the shortening of large results are left out. A turn may
fail at any await; why it does is `AgentLoop`'s.

### Sessions

An operation (a turn, a start, a load, a save, a deletion, the shutdown) is a
process with a place per await; each is requested at most once in an instance. A
Session object is named by the operation that created or read it, `First` being the
one in use at the start, so that two objects of one session are told apart. `rows`
is the table; a message is its turn and whether it is the object the turn appended
or one read back, because the rollback compares with `is`. One round of replies
stands for all. `Write`, `AutoSave`, `Erase`, `ReadRow` and `Cleanup` hold the store
lock and are one step each; `WriteFails` and a failing auto-save are the rolled-back
transaction. A worker is `checking` the stop event, `waiting` for its interval, or
`saving` the session it captured; setting the event wakes every waiting worker, so
only one that is starting or writing can miss a set that is cleared again. `Join`
may give up at any time, as the join's timeout does. `stamp` is `updated_at` in
days. Import and export, tags as rows of their own, the second save of
`start_session` for a description, and the time limits `main.py` sets on the
shutdown are not modelled.

### JobQueue

Each job has its caller's thread (`pc`), its record's `state` (or its absence), its
place in `order`, its future, and where its settlement has got; `raw` and `taken`
are the payloads waiting and collected; `queue` and `pool` are the executor,
modelled from CPython's ThreadPoolExecutor: `Resolve` finishes a future and runs its
callback if one is attached, `Take` gives a worker the head of the queue,
`CloseExecutor`, `CancelNext` and `Drain` are `shutdown(wait, cancel_futures)`,
which holds the executor's lock while it cancels and runs each callback in between.
Every step of the queue's own code is one critical section. The bounded wait of
`shutdown`, the times and the text of errors are left out; so are a `_settle` that
raises and a thread that cannot be started (hazards with a note). `raw_available` in
a record stays true after the payload has been taken, as `_result_payload` writes it
once; its docstring speaks of the moment of settlement.

`JobLog` says per job what a client may rely on: pending, running, done or failed,
and only a job that is over is forgotten; the meter counts an operation before its
job is done and never goes back; a payload is there at the latest when the job is
done, and is handed over once or dropped with its record. `JobQueue!ImplementsLog`
maps records, payloads and settlement onto it.

### OperatorWait

Time is discrete and everything runs on one loop. A request's `asyncio.timeout` is
`entered`, `expiring` (its timer fired and the block is unwinding, in which it is
still in `_deadlines`) or `left`; `when`, `remaining` and `capAt` are the code's
fields, `place` is its position in `_deadlines`, which matters because
`operator_turn` suspends them in order and raises at the first that has expired.
`ran`, `idle` and `early` are history: the time charged to a request, the time
charged since its last step, and how long a question had been open when it was sent.
A timer that is due fires before the clock goes on, as an event loop does; several
events of one instant come in any order. A progress report is a number up to
`MaxProgress`; the first is taken as progress in the code whatever its number, which
is why the reports here start at one.

`cap_at` is set when a request is sent, and moved by the whole wait when the last
question ends. For a request sent in the middle of a wait that credits it with the
part before it was sent, so `CapHolds`, which holds, speaks of requests sent while
nobody was asked; `CapAsPromised` is the module's promise, and refuted;
`OverrunIsCredit` bounds the difference.

### McpServers

One configured server stands for all, since no state is shared between them. An
operation (start of the program, start, stop, restart, test, quit) is a coroutine
with a place per await; `active` is the one that runs, so nothing steps between two
of its actions unless it waits. Each operation makes at most one connection, which
bears its name. A connection is its supervisor (`sup`: `created`, `loop`, `asking`
for consent, `launching`, `ready`, `leaving` its transport, `backoff`, `done`), its
events (`stop`, `settled`, `dropped`), its health, whether the manager still holds
its task, a cancellation on its way, the task that follows its changes, and a notice
on its way that its stream has ended or that a tool call found its client closed.
`broken` is a history variable: something happened to a connection while the attempt
was the one in progress. `_mark_dropped` has three callers. Two compare the attempt
or the client first (`NoticeArrives`); the third, `_on_incoming`, takes an exception
handed over by a session for the present attempt's without a look (`FaultArrives`),
so nothing is claimed of whose transport raised it. A time limit may fire whenever
its await is pending, except that a connect's deadline does not run while the
operator is asked, which is what `OperatorWait` shows of it.

Left out: `connect()` of a connection that is connected already; `enabled = FALSE`
(refused before anything happens); what a ready connection carries (tool calls,
resources, the catalogue); OAuth; failures that are no transport failures and end
the supervisor with an exception. The transport's closing is one step. A test's
connection uses the same consent as a start's. `closing` and `stopped` are the two
`_stopped` flags, of the service and of its manager. `overwritten` is a history
variable.

### WriteGrants

Programs start, crash at any step and run side by side, as the named mutex allows. A
launch acquires its directories in order (the sandbox home first, then
`allowWrite`), runs, and releases them in reverse. `label` is the directory's
mandatory label and outlives everything, as does `ledger`; `held` and `original` are
a program's `_held`: a set of acquisitions stands for a count, so that a directory
listed twice counts twice. One step is what runs between two points at which another
thread or program may come between; an update of the ledger is one step (its lock is
between processes) that may fail. `found`, `target` and `swept` are a sweep's loop.
The owner of a record is named while its program runs and is `Gone` afterwards,
which is what comparing process id and start time tells. Labels are those of the
directory itself; the relabelling of what is inside, `existing`, and the case that a
directory is gone (its revert counts as done) are abstracted to success or failure.
`crossed` is a history variable: the directories where an acquisition or a sweep met
a record that was not its own. The two properties that hold except it, and
`NothingStaysWritable` is what is lost there.

### PieceTable, EditHistory, HexDocument

`PieceTable` is the record of the Rust struct with an operator per method; sequences
are counted from one, offsets from zero. The content of a table is the byte at each
of its `Places`, the buffer positions its pieces stand for in order. `CompactSlack`,
`CompactMinPieces` and `SpanRewriteLimit` are the code's constants, so that an
instance reaches compaction and the rebuilding path of `rewrite_spans` with a
handful of bytes. `EditHistory` has one action per operation of `DocumentState`:
overwrite, insert, delete, fill, copy, move and swap of blocks, replace in both its
forms, an IPS patch in which records overlap and truncate, undo, redo and the save
mark, with the guards by which the code rejects an offset, clamps a length or
refuses an overlap. A no-op is dropped as `changes_bytes` does. `UndoRestores`
compares the table with `Here`, the content that the history variable `line` holds
for the present place: `line` is written when an edit is recorded, and undo and redo
only move along it.

`HexDocument` gives every thread a job: `save` and `close` take a copy under a read
guard, a `copy` reads chunk by chunk under one guard each, and each comes back to
find whether the generation is still its own. A save may fail before the rename, in
the rename, after it (the flush of the directory, not on Windows), or find other
bytes when it maps the file again; the document that saved over its own mapping has
let the mapping go by then. `savedBytes` and `wrote` are ghosts.

## 3. Runs

All runs use TLC breadth first; the counts are distinct states. The constraints some
instances name (section "Why the bounds are enough") are state constraints of the MC
modules: TLC checks the states at their edge and does not go on from there.

| Run | Instance | Checks |
|---|---|---|
| `AgentLoop_live` | 1 turn, 3 calls (one destructive, one plain, one meta), 2 iterations, requests of both kinds, fairness; 175 k | `DeclinedNeverRan` `ResultsBeforeNextRequest` `CancelIsServed` `AttendedTurnEnds` |
| `AgentLoop_two` | 2 turns, a destructive call each, 2 iterations, streams, one kind of disturbance (a time limit, a switch of the level to none, an answer kept, one call cancelled, the end of the program); 645 k | `PendingIsAwaited` `NoOrphanTask` `NoWaiterAfterShutdown` `NoWaiterWhileCancelling` |
| `ToolHistory_pairs` | 2 turns, 2 ids, 2 iterations, one load or start, 4 other sessions, 5 messages; 210 k | `OutgoingAccepted` `OnlyUnpairedDropped` |
| `Sessions_around` | a turn, a load and the shutdown, with a day passing beside two of them; or three of a save, a load, a start and a deletion; each worker may write once; 457 k | `CompletedTurnStored` `FailedTurnForgotten` `OneWorkerUncontended` `AutoSaveFollows` |
| `JobQueue_log` | 3 jobs (two export, one find), 2 workers, a log of 1, fairness; 157 k | `TypeOK` `DoneIsComplete` `EvictionTrims` `ImplementsLog` `EveryJobSettles` |
| `OperatorWait_time` | budgets of 1 and 2, 2 questions, cap factor 2, 5 instants; 1.25 M | `TimeoutIsEarned` `SilenceEnds` `CapHolds` `SuspendedTogether` |
| `McpServers_overlap` | the program's start and end and any operation of the dialog, 2 attempts, a test or a restart beside one more operation and a start or a stop beside both, fairness; 145 k | `NoStray` `DropIsOwn` `ListenerHasClient` `StoppedStaysDown` `ReasonSurvives` `OperationsEnd` |
| `EditHistory_undo` | documents of up to 3 bytes of two values, four strings as arguments, 2 entries deep, 2 edits beyond undo and redo, compaction at 2 pieces; 263 k | `TypeOK` `UndoRestores` `StaysCompact` `CleanMeansSaved` `ImplementsLine` |
| `HexDocument_shared` | 2 threads, 2 files, documents of none or two chunks, 3 edits; 397 k | `ImplementsLine` `CleanMeansWritten` `BaselineTells` `WrittenAtOneMoment` |
| `WriteGrants_crash` | 2 programs, 3 servers, 2 directories, one needing both; 657 k | `GrantInForce` `LowIsRecorded` |
| `AgentLoop_consent` | 1 turn, 2 calls | violates `ConsentBeforeEffect` |
| `WriteGrants_lost` | 2 programs, 3 servers, 1 directory | violates `NothingStaysWritable` |

Why the bounds are enough. The instances are small so that each ends within a minute
or so, and the theorems of section 5 state the same properties without any bound or
constraint. Two confirmations that coexist, or follow one another, are the least for
an answer to reach the wrong call; three calls in one turn let a batch of two be
followed by a second request, with a meta tool in either; the second request is
where a missing result would be sent, and the third look at the loop's head meets
`max_iterations`; two turns are the least for one to clear what the other set.
`OneDisturbance` lets two turns meet one kind of disturbance and not two kinds at
once; the other run has none of it. In ToolHistory two turns let one append between
the messages of the other or fail behind them, two iterations let a batch of a turn
be answered, fail as a whole and be followed by a forced reply, and two ids let a
reply be answered in part and reuse an id. `Short` stops at five messages, a turn
with both of its requests and the next user message, and at three where two turns
overlap in a session that was loaded, enough for a result of before the load to meet
a call of after it; the ids and the turns are symmetric. In Sessions the hazards are
all between two or three operations and the worker; `Saves` bounds the writes of one
worker, one being enough for it to write once before, in or after another operation,
and `Days`/`Retention` place a row's stamp on either side of the cutoff; `Together`
keeps to the groups of operations named in the table, since all six at once exceed
what TLC can enumerate. In JobQueue three jobs with a log of one make eviction meet
an active head, a finished record and a full log; two workers let settlements
overlap. `TwoAtShutdown` lets the shutdown meet two of the jobs, since what it does
to a job depends on that job alone. The real limit is 512, of which no action
depends on more than exceeding it. In OperatorWait two requests let one be sent,
renewed or timed out while the other waits, two questions overlap, and the cap of
the shorter request falls within the clock. In McpServers two attempts are the least
for a retry and for giving up; `Pairs` and `OneRetries` let one connection at a time
be lost or tried again. In EditHistory two entries and three bytes reach in-place
overwrites, merges, compaction and every overlap of two blocks; the strings have no,
one or three bytes, and two of them the same length, so that a replacement rewrites
matches in place, one by one and by rebuilding; a compaction without slack is the
hardest case. In HexDocument a third edit is the least for one between the chunks of
a copy made after an undo; its files and threads are symmetric, and at the last of
its changes (`OneAtLast`) one thread is at work. In WriteGrants three servers over
two directories share one inside a program and between programs. `Unmet` stops at
states in which a directory has been crossed, since the properties say nothing of it
from there on and an instance without that directory covers what goes on elsewhere;
the invariant of the proof, which has no such bound, was also checked by TLC without
it on one directory (2.2 M states).

Deadlock is checked wherever the system never has to stop: in AgentLoop (the
operator can always press Cancel), JobQueue (whose only end is `AllOver`),
EditHistory, HexDocument and WriteGrants. It is off in Sessions and McpServers,
where every operation is requested once and the program ends, in ToolHistory, whose
turns are over at some time, and in OperatorWait, where the clock of the model
stops.

Fairness. `LoopFairness` is what asyncio and Qt guarantee: ready coroutines run,
tasks run, queued signals are delivered, and a request whose task was cancelled
ends. It promises neither the end of any other request, cancelled or not, nor that a
timer fires. `ToolsReturn` (a tool call ends) is needed for any end of a turn, since
a cancel waits for the task. `CancelIsServed` assumes nothing else: a cancel is not
left standing with a turn in flight, unless the turn is `Silent`, that is, waits in
a request that no cancellation has reached; if models send on (`ModelsReply`, a
premise of its second part) it is not left standing at all. `AttendedTurnEnds` has
in its premise that timers fire, that models reply and that the operator decides the
topmost dialog. In JobQueue threads run, an engine call returns and a done-callback
ends; nobody has to call `shutdown` or to collect a payload. In McpServers
coroutines that can run do, and every await with a time limit (`CONNECT_TIMEOUT_S`,
`DISCONNECT_TIMEOUT_S`, the back-off) ends at the latest by it; a launch ends one
way or the other because its deadline does not stop once the consent is given;
closing a transport ends, as the SDK bounds the wait for the child and then kills
it. Neither the operator nor a server has to do anything: `OperationsEnd` excuses an
operation as long as a prompt is open, and quitting closes the prompts.

## 4. What the checks show

Holds:

* Whatever mix of answers, cancels, per-call cancels, timeouts, session switches and
  shutdown: the registered confirmations are exactly the awaited ones; no task
  survives its turn; nobody waits for the operator after Cancel or shutdown took
  effect; a call reported as declined never ran; a turn goes on to its next request
  only with a result for every call, and what a forced last reply leaves unanswered
  never ran.
* A cancelled turn ends without help from the operator, and without help from the
  model unless it waits in a stream, or a chat() that nothing cancels: there the
  flag is looked at when the model sends something, and a silent model holds the
  turn up to its time limit, or beyond it once that was swallowed.
* Whatever a session holds after forced replies, overlapping and failed turns,
  switches and older builds, every request made of it pairs each call with a result
  behind it and each result with a call before it, and leaves out nothing but what
  has no partner.
* A turn that nothing overlapped is on disk when it succeeded and out of memory when
  it failed, with auto-save, loads and shutdown around it.
* One auto-save worker, as long as no two stops overlap and no join gives up; it
  never writes a session it has left except until the switch has joined it.
* The job queue implements `JobLog`, loses no job and no record, and its eviction
  keeps active jobs and nothing else beyond the limit.
* No request to an MCP server is charged for the operator's time, and none outlives
  its budget in silence, whatever questions overlap it. With progress none outlives
  its cap if it was sent while nobody was asked; one sent in the middle of a wait
  may outlive it by the part of the wait before, against the promise of
  `mcp/operator_wait.py:22-25` (below). All of this unless a question has met a
  deadline in the act of expiring.
* Connections: a stopped one launches nothing; a late notice of an earlier attempt's
  end drops nothing (an exception drops the present attempt, whichever transport it
  came from); every operation ends; no connection is lost except one replaced by an
  overlapping start.
* Undo and redo restore the bytes through every layout of the pieces; in-place
  overwrites touch nobody else's bytes; compaction keeps up; a document called clean
  holds the bytes last opened or saved, also across failed saves, closes and threads
  that come back with stale copies; no file is written with a mix of two moments.
* A server's directories are writable as long as it runs, and no crash leaves one
  writable without a record, except where grants cross.

Does not hold (the findings of `PROJECT.json`, each with its counterexample run):

1. *An answer can approve another call* (`AgentLoop_consent`). A dialog's answer is
   first given to the latest confirmation. A call released by the timeout or a
   Cancel leaves its dialog open; approving it then runs the call now waiting.
2. *A directory can stay writable* (`WriteGrants_lost`). A grant acquired over a
   record that was not swept takes Low for the directory's own label.

Also refuted by TLC, from definitions that stay in the modules and that a
configuration naming them as its property reproduces (an instance per module as in
the table):

* `IdleMeansNothingInFlight` (AgentLoop): loading or starting a session while a turn
  runs sets the state to idle, and Cancel finds nothing to cancel.
* `TurnEnds` under `AbsentSpec` (AgentLoop): a confirmation turns the cancellation
  by `wait_for` into "declined"; the turn goes on untimed, for ever if nobody is at
  the dialogs.
* `AnsweredOnce` (ToolHistory): Google's calls are numbered from zero in each reply
  (`providers/google.py:1074`) and a result names its call by the id alone, so that
  of a batch which was running when its session was loaded can join another call's
  answer.
* `DiskHoldsSuccessfulTurns` (Sessions): auto-save or the save before a load writes
  messages that are rolled back in memory only.
* `DeletedStaysDeleted` (Sessions): a load in progress is not seen by the deletion
  and writes the row again.
* `CleanupSparesModified` (Sessions): messages do not move `updated_at`, by which
  shutdown deletes sessions.
* `StopIsTotal` (McpServers, three operations that are `Starts` and the end, none
  tried again): two starts that wait for the same teardown both register; the
  connection replaced is never disconnected, and its supervisor and child outlive
  `stop()`, which says that none does (`mcp/connection.py:2450-2451`).
* `CapAsPromised` (OperatorWait): a request sent while a question is open has its
  cap moved by the whole wait, also by what had passed of it before
  (`mcp/operator_wait.py:199-200`), so that with renewals it runs that much past the
  factor times its budget "from when it started".
* `WaitingMeansAsked` (OperatorWait): a question that meets an expired deadline
  leaves the counter raised with nobody asked.

Exceptions stated in properties are boundaries of the same kind: TLC refutes
`CompletedTurnStored` and `FailedTurnForgotten` for turns that a switch overlapped
(replies go to the new session and the rollback misses them), the former also for a
session in memory twice (the older object overwrites the row),
`OneWorkerUncontended` without `contended`, the four properties of OperatorWait
without `Stuck`, `NoStray` without `overwritten`, and both of WriteGrants without
`crossed`. The last leaves a directory that two programs' grants cross to
`NothingStaysWritable` alone: that the end of one program's grant takes Low from
under another's server is excepted from `GrantInForce`, not excluded.

## 5. Proofs

The proofs assume the named ASSUMEs of the modules and nothing else; TLC evaluates
them in every run.

`AgentLoopProofs`. `TypeCorrect` is proved first, by one lemma per group of actions.
The invariants are not inductive one by one: that a declined call never ran needs
that a call without a task had no effect, which needs that a call's status agrees
with where its turn is, which needs that the pending set holds what is awaited.
`Safe` is the conjunction of `CallsInPlace`, `PendingIsAwaited`, `NoOrphanTask`,
`NoWaiterAfterShutdown` and `NoWaiterWhileCancelling`, and `SafeInvariant` proves
that every action keeps it. `PendingTheorem`, `NoOrphanTheorem`, `NoWaiterTheorem`
and `CancellingTheorem` follow from it. `DeclinedTheorem` and `ResultsTheorem` prove
the two properties that are about what the model is told; the second includes that a
forced reply's calls had no effect.

`SessionsProofs` joins two arguments on `Referred`, which says where each kind of
operation may be and that what is held, captured or current exists. For the worker
(`OneStops`, `Follows`): while no two stops overlap, an operation that relies on
there being no worker is the only one that does, the slot is empty, and a worker
still alive is the one it joins; so nobody is alive when a session is forgotten or
the next worker starts. For the turns (`Alone`, `TurnKept`): an undisturbed turn has
the session in use to itself, so that its own messages are the last of that
session's list (`TailOf`) and in no other, which is what the rollback, which counts
from the end, needs to take all of them (`RollbackCuts`); once written, every later
write of its session is of the same object, which still holds the message, or the
session is in memory twice.

`JobQueueProofs` proves `QueueInvariant`: per job, which combinations of caller,
record, future, settlement and payload exist, and which jobs the queue holds. From
it follow the types (`TypeCorrect`), the payload, done and handed-over-once
properties, and `Refinement`: `Spec => ImplementsLog`, by which every step of the
queue is a step of `JobLog` or leaves it unchanged. (`PayloadHasRecord` and
`HandedOverOnce` are what the refinement says of payloads, and have no run of their
own.) Eviction walks the order with recursive functions; since the library's
induction takes an operator, the module first proves from the well-foundedness of <
on Nat that a nonempty set of numbers has a least member, from that that a set which
holds 0 and every successor up to n holds all up to n (`Climb`), and that a function
defined step by step exists (`Recursion`). With them `EvictionTrims` is proved: an
eviction leaves every active record and, unless only these are left, no more than
`Limit`.

`OperatorWaitProofs`. The properties speak of time charged, the code of times at
which timers fire; the invariant (`Accounts`) is the account between them. `Base` is
the moment up to which requests were charged (now, or the beginning of the wait) and
`Left` what a deadline has left from there, running or suspended. `Accounted` says
that the cap lies at `Base` plus what progress may still stretch the request to and
the credit of `early`, that what is left and what was idle make up the budget
exactly unless the cap cuts it off, and that it is never negative. `Counted` ties
the counter to the number of open questions, which is where `Stuck` comes in.
`CapTheorem` and `OverrunTheorem` are the two halves of what the cap is worth: exact
for a request sent while nobody was asked, and late by at most `early` for any
other.

`McpServersProofs`. `NoStray` is not inductive, because any operation in flight
would do for it: `AllKept` names those that really keep a connection that was not
told to stop (the registration, an operation on its way to tell it, or the test that
waits for it). `Told4Good` says that operations let go of a connection only after
telling it; `MadeOnce` that nothing refers to a connection before it is made, so
that no later step makes it anew and forgets that it was told; `KindsFit` that only
the start of the program is ever cancelled. A second invariant, `AllClean`, needs
only the types: per connection, a listener has its client, a dropped attempt is
`broken` (so a notice that is still `current` is about this attempt), and a
supervisor that may still launch and was told to stop is cancelled, because the
first to tell it held its task. `ListenerTheorem`, `DropTheorem` and
`StaysDownTheorem` follow. `ReasonTheorem` (a reason shown for a failure outlives
the disconnect that follows) needs to know what may still touch the health that
failed while a teardown waits: `ReasonHeld` says that it stays failed from the
moment the operation saw it to the end of the disconnect, since a supervisor that
was told is `Quenched` (over, cancelled or on its way out, which leaves the health
alone) before the operation waits for it, and `Placed` that only the operation at
the head of the lock disconnects and that no listener is left over a health that
failed. The start of the program, once quitting cancels it, is the exception
(`Exempt`), as in the property.

`EditHistoryProofs` proves every property of `EditHistory_undo`. At the level of
pieces the argument is about places alone: `Upto` and `Onward` halve the sequence of
places at an offset (`SidesAre`), merging changes no place (`MergedIs`), so that an
insertion splices the places and a deletion cuts them, an overwrite in place patches
bytes that only one place reads (`Apart`, which is what makes it sound), and a
compaction renames the places of the add buffer without changing a byte
(`CompactedIs`). `Holds(t, c, o)` says that table t is sound, within the compaction
limits, and holds the bytes c over the originals o; `InsertedIs`, `DeletedIs` and
`OverwrittenIs` say what an edit makes of it whatever the layout. `Turns(op, a, b)`
says that applying the operation to *any* table that holds a leaves one that holds
b, and reverting it on any that holds b leaves one that holds a; there is a lemma
for each kind of operation (two disjoint blocks for move and swap, spans of one
pattern, runs with a truncated tail), and one per edit that what it records is such
an operation, and is recorded exactly when b differs from a. The inductive invariant
(`IInv`) is that the entries of both stacks lie along the line, each turning what is
before it into what is after it, with ids in order and the saved bytes where the
marker's id is; the table is in it only for its bytes, which is why undo works after
layouts nobody foresaw. `UndoTheorem`, `CompactTheorem`, `CleanTheorem` and
`TypeCorrect` follow at once, and `LineTheorem` is the refinement of `Timeline`.
Sums and folds over pieces and spans are recursive functions, reasoned about with
`Climb` and `Recursion` as in `JobQueueProofs`.

`HexDocumentProofs`. `JobsHold` says what a thread may rely on when it comes back:
while the generation is still its own, its copy is the document's bytes, or a prefix
of them; a copy that is complete was the document at one moment. `SavedHeld` says
that the saved place of the line holds the bytes saved, through every undo, redo and
new branch, and `BaselineHeld` that only a detach makes a baseline of bytes the file
may not hold. `LineTheorem` is the refinement.

`WriteGrantsProofs`. Neither property is inductive. `Holding` says that the
acquisitions counted for a launch are exactly the places in its list up to `got`, by
which the last holder is known to be the last; `Granting` that every one of them, on
a directory that no grant has crossed, is Low and on record as its program's with
the directory's own label; `Working` the same of a launch between two steps of an
acquisition or a release, with the lock of its program (`Locking`); `Recording` that
what is recorded, in the ledger or in a sweep's copy of it, is true; `Sweeping` that
what a sweep reverts is granted to nobody, nor about to be.

Only model-checked: the liveness properties (`CancelIsServed`, `AttendedTurnEnds`,
`EveryJobSettles`, `OperationsEnd`; under fairness they are out of the prover's
reach), and `ToolHistory`, whose pairing of a history of any length would take an
induction on its messages. What `Matches` and `ReplacedAll` compute is proved only
as far as the history needs it (the matches lie in the document and hold the
pattern; what replaces the document is bytes): undo and redo are right whatever a
search finds.

## 6. Not modelled, and the plan

Not modelled: the adapters to external programs (x64dbg, Ghidra, Frida, QEMU,
Windows Sandbox, Cutter), the panels and dialogs, the providers' wire formats, the
numeric kernels and file formats of the hex core, parsing, rendering, configuration,
packaging and scripts. They are by far most of the program's lines, and their
content is protocols, formats and layout: each operation is a translation of data
with an error path, which a model could only repeat. The control that is shared
between parts is what the modules cover, and it is a small share of the whole.

In the parts that are modelled: statistics, the analysis of binaries, import and
export of sessions; MCP tool calls and approvals; the lock file and the rename of a
locked JSON document; BPS and UPS patches; pieces of a size that a hash or a search
would need. `components` of `PROJECT.json` names them part by part.

Next, in this order:

1. `LockedJson`: read-modify-write by two processes over lock, temporary file and
   rename, with crashes, refining the atomic update that `WriteGrants` assumes.
2. Approvals of tools and calls in flight over a connection that reconnects,
   composed with `OperatorWait`.
3. `PipeClient`, `ProcessManager`, `SandboxManager`: requests against close,
   registration against cleanup.
