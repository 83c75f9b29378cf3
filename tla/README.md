# Nymeria in TLA+

Nymeria is an agent server.  Its unit of work is a *turn*: one user message, trigger event,
scheduled task or resume, run through a LangGraph graph on one conversation *thread*.  Turns come
from the HTTP API, chat channels, the ticker, triggers, sub-agents, workflows and background jobs,
in coroutines of one event loop and in worker threads, and any two of them may want the same
thread at once.  The modules here describe how those calls compete, how a message that finds its
thread busy travels to the turn in flight, what deleting, stopping and clearing do to that, how many turns may run at once, how a background Claude Code run reports back to its thread, how scheduled tasks
are run by one process at a time across crashes and edits, how a turn that waits for a human's consent gets its answer, and how what a turn says reaches
the clients that show it.  TLC checks
them on small instances, TLAPS proves the central invariants for every instance.

Paths are relative to `src/Nymeria/nymeria/` unless they start with `src/`.

## 1. Inventory

### 1.1 Components and their state

| Component | Source | State | Operations |
|---|---|---|---|
| Thread lock manager | `core/thread_lock_manager.py` | per thread: a `threading.Lock`, an abort event, holder metadata; process-wide: deletion epochs and the set of threads being deleted | acquire (poll), release, abort, `is_thread_busy`, `get_thread_epoch`, `begin_/end_thread_deletion` |
| Pending prompt queue | `core/pending_prompt_queue.py` | per thread: a deque of prompts (256), a closing marker, a halt count; per prompt: event, mailboxes, outcome flags | enqueue, drain, withdraw, clear, clear_with_restore, begin_release, release_lock, peek_and_mark_halt, consume_halt_observed |
| Turn admission and drain loops | `core/agent.py` (`chat`, `astream`), `core/agent_graph.py` (halt) | the batch a turn has drained, whether it ended normally | admit, queue, drive, drain, re-drive, continue, close, fail |
| Deletion and clearing | `core/thread_deletion.py` | none of its own | cascade_delete_thread, clear_thread_history |
| Stop and withdraw | `api/routers/thread_operations.py` | none of its own | abort_with_cascade, withdraw_queued_prompt |
| Model-free holds, completion delivery | `core/completion_delivery.py` | latches, retry count of a submission | hold_thread, submit_completion, redelivery |
| Interactive gate | `core/interactive_admission.py` | active count, deque of waiter futures, slots | acquire, release, slot release |
| Triggers | `core/trigger_manager.py` | per event: cooldown, parked events, retries | poll, fire, park, redeliver |
| Claude Code jobs | `tools/claude_code.py`, `tools/claude_code_background.py`, `core/claude_code_delivery.py`, `core/command_executor_claude_code.py` | the registry of jobs; per job: its process, end-turns, latch, follow-ups; per thread: the `/code` slot and the last outcome | start, wait inline, watch, report, queue and start a follow-up, claim and release the slot, stop |
| Scheduler and ticker | `core/ticker.py`, `core/scheduler_lock.py`, `core/scheduler_state.py`, `core/scheduler_control.py`, `core/todo_*.py`, `api/routers/todos.py`, `tools/todo.py` | the lock on `scheduler.lock`; the list of TODOs (a JSON file), its index and the execution markers (SQLite); per process: whether it owns the schedule, what it holds back, its runs, retry counts and unreleased markers | claim, recover, stand by, take over, poll, run, settle, retry, pause, give up, hold and release missed work, edit |
| Rendezvous, approvals | `core/future_rendezvous.py`, `core/hook_approvals.py`, `core/fallback_approvals.py`, `core/approval_records.py`, `core/hooks/actions.py` | waiters' futures by record id, the records on disk | mint, park, resolve, abort, time out, cancel, sweep |
| Cross-thread requests | `core/thread_requests.py` | request ledger | send, reply, expire, deliver |
| Turn runner, stream buffer and its readers | `core/turn_runner.py`, `core/turn_stream_buffer.py`, `core/loop_pulse.py`, `api/routers/chat.py`, `api/routers/thread_operations.py`, `triggers/sse_consumer.py` | per turn: its last events (4000, 2 MiB), their numbers, live or ended; per thread: the current buffer; per reader: a cursor and a captured event; per client: turn, last seq, attempts | begin, append, finish, read, attach, re-attach, expire, drop; recover a chat, attach to an autonomous turn, fall back |
| Event bus | `core/event_bus*.py` | subscriber queues | publish, subscribe, relay |
| Provider fallback | `core/fallback_reclaim.py` | reclaim jobs per thread | fall back, reclaim |
| Workflows, hooks, compaction, memory, MCP, snapshots, credentials, teams, browser, dreaming, notifications, commands, tools, API, CLI, front ends | the rest of `core/`, `api/`, `tools/`, `cli/`, `setup/`, and the front ends | stores, sessions, processes | see `PROJECT.json` for the reason each is left out |

### 1.2 How they interact

* A route authorises a request under `thread_admission_guard`, snapshots the thread's **epoch**,
  passes the **interactive gate** and starts `astream()`.
* `astream()`/`chat()` try the **lock**.  On success the call is the thread's *holder*.  On failure
  it asks whether the holder is *releasing*: if not it leaves its prompt in the **queue** and
  observes it (having given its gate slot back), otherwise it waits for the lock.
* Between two drives of its graph the holder **drains** the queue, injects the batch and drives again;
  when nothing is left it **closes** the queue, drains once more and releases lock and marker together.
* A tool boundary inside a drive **peeks** at the queue and ends the drive early (a *halt*).
* `/stop` sets the **abort** flag and takes the queued prompts back; delete and clear compete for the
  same lock, and delete moves the epoch on so that requests authorised earlier are refused.
* The tool `claude_code` and the command `/code` start **jobs**: a watcher thread drives each one and hands its
  reports to the waiting caller (**latch**) or posts them to the thread, where a stop, a busy thread's queue or a change of owner may drop a report of the tool's; a prompt for a live session is queued on its job.
* The **ticker** of the one process that holds the schedule's lock polls the index of TODOs and runs what is due in a pool; each run
  marks its TODO, runs a turn and rewrites the TODO's schedule.  REST routes, slash commands and the agent's tools edit the same list, in that
  process or, in the Docker deployment, in another one (the API).
* A turn appends its events to its **buffer** and rings the buffer's **doorbell**; a response (`POST /chat`, the re-attach route) is a reader of the buffer on
  the API's loop.  A client whose connection is cut asks the status route which turn the thread has, and re-attaches after the last number it saw.  A bot attaches to an autonomous turn
  when the **firehose** announces it, and leaves its completion to the firehose if the attach fails.
* A `require_approval` hook or the fallback gate inside a turn **waits** on a future; routes, commands, `/stop` and a sweep answer it.
* Triggers and completions *probe* the lock and queue a prompt on a busy thread; some completions (not a Claude Code run's) watch its
  outcome and try again.

### 1.3 What is hard

Shared state is guarded by several short critical sections rather than one: the lock, the queue's
lock, the abort event and the epoch registry.  Coroutines interleave at awaits, threads anywhere.
A prompt passes through four hands (caller, queue, batch, waiter) and each of them may fail, be closed,
be stopped or time out.  The schedule is spread over a lock, a JSON file and two SQLite tables that are written one after the other
by threads of several processes, any of which may die in between.  An answer is posted to a waiter that may have timed out.  A buffer is written from another thread than the
loop that reads it, evicts while it is read, and is replaced and expires while clients look for it.  `PROJECT.json` lists each such place as a hazard, at its line, with the
property that covers it.

### 1.4 What makes each component correct

* **Lock**: one holder; the lock goes back exactly once; the release marker goes with it.
* **Queue**: every prompt accepted is answered exactly once; at any moment the pending prompts are
  those in the queue or in the holder's batch; the bound holds; nothing is left on an idle thread.
* **Turns**: a message is used once; a prompt is absorbed only by a turn of its own user; a turn never
  runs on a thread deleted since it was authorised; every call returns.
* **Gate**: the count is exact; the ceiling holds; waiters are served in order and none waits beside a
  free slot; everything is given back in the end.
* **Claude Code jobs**: a run's reports account for each end-turn once and in order, whoever hands them over; a `/code` report reaches its user
  whatever was stopped, and a tool's is silenced only by a stop that concerns its run; a queued prompt is run, or named as dropped; a session is resumed by one run at a time; the slot covers the run and is free in the end.
* **Ticker**: a TODO is run by one run at a time, whichever process owns the schedule; what is due is served; a marker has somebody to
  remove it; held work waits until it is released; the index agrees with the list; a series does not end in silence, a pause and a deletion last.
* **Approvals**: one caller is told that it answered; nothing runs without consent; a record does not outlive its waiter; every wait ends.
* **Stream**: a client is shown one turn's events from the first, in order, once each, and is told that the reply is whole only after its end; no reader sleeps through an event; the turn that
  has the thread can be joined; every client comes to an end.
* **Requests** (planned): a reply reaches its sender once.

## 2. Modules

| Module | Models | State | Notes |
|---|---|---|---|
| `ThreadLocks` | `core/thread_lock_manager.py` | `owner`, `abort`, `threadEpoch`, `deleting` | operations on one thread's lock |
| `PendingPromptQueue` | `core/pending_prompt_queue.py` | `queue`, `releasing`, `halted`, `outcome` | operations on one thread's queue |
| `TurnAdmission` | `chat`, `astream`, deletion, clearing, stop, withdraw, hold, trigger probe | the two above (by INSTANCE) and `pc`, `epoch`, `batch`, `author`, `loop` | composes them; one action per operation on shared state |
| `TurnAdmissionProofs` | | | theorems about `TurnAdmission` |
| `PromptPromise` | what a sender is promised about a message | `fate` | abstract; implemented by `TurnAdmission` |
| `PromptPromiseProofs` | | | `TurnAdmission` implements `PromptPromise` |
| `TurnQueueProofs` | | | theorems about what is queued on a thread, on top of the former |
| `InteractiveGate` | `core/interactive_admission.py` | `active`, `waiters`, `future`, `knock`, `slots`, `pc`, `limit` | |
| `InteractiveGateProofs` | | | theorems about `InteractiveGate` |
| `InlineLatch` | `InlineLatch` in `core/completion_delivery.py` | `resolution` | one latch for each run |
| `ClaudeCodeJobs` | the tool, `/code`, the watcher, the `/code` registry | the latch (by INSTANCE) and `call`, `registry`, `process`, `watch`, `report`, `followups`, `slot`, `last`, `abort`, `queued`, ... | composes them on one thread |
| `ClaudeCodeJobsProofs` | | | theorems about `ClaudeCodeJobs` |
| `SchedulerLock` | `core/scheduler_lock.py` and the system's file locks | `made`, `path`, `flock` | operations |
| `TodoStore` | the list, the index and the markers: `core/todo_manager.py`, `core/todo_schedule_db.py`, `core/todo_constants.py` | `list`, `listLock`, `row`, `marker`, `now` | operations and item updates |
| `Ticker` | `core/ticker.py`, the edits of `api/routers/todos.py` and `tools/todo.py`, the release of held work | the two above (EXTENDS) and `life`, `held`, `due`, `run`, `draft`, `retries`, `editor`, ... | composes them |
| `TickerProofs` | | | theorems about `Ticker` |
| `Rendezvous` | `core/future_rendezvous.py` | `items`, `future`, `posted` | operations |
| `Approvals` | `core/hook_approvals.py`, `core/fallback_approvals.py`, `core/approval_records.py`, `core/hooks/actions.py`, the resolve routes | the one above (EXTENDS) and `kind`, `at`, `verdict`, `disk`, `persist`, `call` | composes it |
| `ApprovalsProofs` | | | theorems about `Approvals` |
| `TurnBuffer` | `core/turn_stream_buffer.py`, `core/loop_pulse.py` | `state`, `stamped`, `lo`, `hi`, `current`, `aged`, `doomed`, `source`, `bell` | operations on one thread's buffers |
| `TurnStream` | `core/turn_runner.py`, the two streaming routes and the status route, `triggers/sse_consumer.py` | the one above (EXTENDS) and `at`, `ends`, `rd`, `cursor`, `batch`, `wire`, `cl`, `pin`, `upto`, `tries`, `completion`, ... | composes it |
| `TurnFeed` | what a client is promised | `made`, `ends`, `of`, `upto`, `shown`, `verdict` | abstract; implemented by `TurnStream` |
| `TurnStreamProofs` | | | theorems about `TurnStream`, which implements `TurnFeed` |
| `MCTurnAdmission`, `MCInteractiveGate`, `MCClaudeCodeJobs`, `MCTicker`, `MCApprovals`, `MCTurnStream` | | | instances for TLC |

`PROJECT.json` maps every definition to its lines.

### 2.1 `TurnAdmission`

One thread id is modelled: nothing in the lock manager or the queue relates two of them.  A call is an
element of one of the sets `Streams`, `Chats`, `Holds`, `Clears`, `Deletes`, `Stops`; `pc` says where it
is.  Between two steps a call does only what no other call sees.

* *Arriving* (`Authorise`, `Enter`, `Probe`, `TryLock`, `CheckReleasing`, `EnqueuePrompt`, `WaitAcquire`,
  `WaitTimeout`): the try-acquire, the look at the closing marker and the enqueue are three steps, as they are
  three critical sections.  A queued caller (`Observe`, `QueueTimeout`, `Detach`) reads its outcome, gives up
  after `lock_timeout`, or disconnects; the last two leave the prompt in the queue.
* *Running* (`StartTurn` to `FailClear`): `StartTurn` re-checks the epoch and clears the abort flag.
  `RouteAfterTools` is the halt at a tool boundary.  `Drain`, `Redriven`, `Continue`, `CloseQueue` are the drain
  loop; `SteerDrain`/`Resteered`/`MidDone` are `chat()`'s first loop, which `astream()` does not have.
  `TurnFails`, `RedriveFails`, `CloseTurn` are the ways out by an exception and by closing the generator.
* *Model-free holders* (`HoldClose` ... `DeleteEnd`).
* *Users* (`StopSignal`, `StopRestore`, `WithdrawPrompt`).

`loop` makes the coroutines of the event loop cooperative: a step of a call in `OnLoop` may keep the loop
(`KeepGoing`) until its next await or yield (`Suspend`).  Calls not in `OnLoop` run in worker threads (the
ticker, triggers, channels, `chat()`), and interleave everywhere.

What a waiter can learn about its prompt (`abandoned`, `restored`, `error_code`, the event, the last mailbox
entry) is one value, `outcome[p]`.

`PromptPromise` is the specification a sender sees: a message is new, then refused, run as a turn of its own, or pending; a pending one is
answered once.  `Fate` is the refinement mapping: a message is `"run"` from the start of its call's turn on, otherwise it is what its waiters were
told, and a call refused before it queued anything is `"refused"`.  (A `chat()` that gives up waiting has a pending message, not a refused one, because the
prompt stays queued.)  `PromiseKept` says that `TurnAdmission` implements it.  That a pending message *is* answered is `EveryPromptWoken`, on `OneLoop`; `ClosedBatch.cfg` (section 3.2) is where it is not.

Abstractions: what a drive does inside the graph is one step that may end, halt, queue a note or fail.  `RouteAfterTools` joins the
three queue operations of one tool boundary (a note for an expired tool, the size check, the halt mark), which no decision of
another call separates.  `StartTurn` joins `set_lock_info` with the abort flag's reset: a stop between the
two is forgotten by the code (section 5).  A prompt is woken in the step
that removes it from the queue; no other reference to it exists by then.  The lock poll (50 ms) is a
step that is possible whenever the lock is free, so any waiter may win.  Deleting the stores is one step.

### 2.2 `InteractiveGate`

Everything runs on the event loop, so a step is what a coroutine does between two awaits.  A waiter's future and what
else reached it (`knock`: its timeout or its cancellation) are separate, because `asyncio.wait_for`
resolves them in an order that depends on the Python version: from 3.12 a cancellation that finds the future
settled raises and the code gives the count back (`WakeGivesBack`); in 3.11, which the images ship, the result is
returned (`WakeAdmitted`).  Both are in the model.  The limit is a setting: `SetLimit` changes it at any time, and nothing
wakes waiters then, which is the code's policy.

### 2.3 `ClaudeCodeJobs`

Threads only: the caller of the tool or of `/code`, each run's watcher, its process.  A call lends its name to the job it starts;
the jobs that queued follow-ups become take names from `Spares`.  An end-turn is a number, a report the interval of
end-turns it accounts for, so that a gap, a repetition and a lost last turn are visible.  Three variables are history and not in the code: `log[j]`, the reports of job `j` as
they were handed over, to the caller or for delivery; `lost[j]`, why any of them reached nobody after that; and `halted`, the jobs that a stop concerns.

* *Calls* (`Resolve` to `CodeFinish`): looking for a live run, preparing and registering one's own are separate steps, as is queueing on
  a job that was found live.  `WaitEnds` and `Claim` are the two halves of `wait_inline`: whether the report was there in
  time is decided before the latch's lock is taken.
* *The run* (`EndTurn`, `Exit`) and *the thread* (`ThreadStep`): `/stop` signals the runs and, if a turn holds the thread, aborts it too (`Stop`); other aborts (`Abort`: by a parent's cascade, by the
  terminal client, by a `/stop` when no job runs) signal no run; an abort sets the flag and discards what programs have queued; a turn that starts clears the flag
  (`TurnStarts`); a drain absorbs the queue, a failed drive discards it and a full queue evicts (`Absorb`).
* *The watcher* (`Poll` to `Release`), step by step through `_watch`, `_report` and `_start_followups`.

Handing a report over is not the end of it.  A *tool's* is submitted (`Submit`, from `submit_completion`): it is dropped if the thread's abort flag is up, if there is no current agent, if the thread's owner is another or
cannot be looked up, or if the delivery raises; it is queued on a busy thread, whose next stop discards it (`drop_on_abort`: nobody follows its outcome); otherwise it fires a turn.
A */code* report (`Relay`, from `_deliver_report`, and from `record_inline` for the record of an inline one) takes the thread as a model-free holder, which clears the flag and hands back what was queued, or becomes a notification; it is never dropped.  So
`EndTurnsDelivered` says both what was handed over and what may become of it: a tool's report lost to a stop belongs to a run that was under way when the stop came or later, or that began before any turn had cleared the flag.
That the flag of an older stop silences no later run rests on every turn and hold clearing it as it starts, and is what the mutant `ClearAbortNot` breaks.

Abstractions here: whether a turn holds the thread is not a variable, both outcomes of each look at it are in the model, so a report may be queued, and a stop may find a holder, at any time; a fired turn is not followed further (that it meets another holder
and queues is the other outcome).  `"failed"` stands for every loss without a stop.  Submission is one step, though it may wait for minutes for a holder.  A notification that cannot be stored, and a report that cannot be rendered, are left out.
The turns, their queue and its holders in full are `TurnAdmission`'s; completions that are retried are the planned `CompletionDelivery`'s.

### 2.4 `Ticker`

One data directory, one user's list.  `SchedulerLock` keeps files and their name apart, because a lock belongs to a file: a process whose
file was deleted still holds *its* lock while another takes the new one.  `TodoStore` has the list (written whole), the index and the
markers (a statement each).  A clock slot is the interval of the recurrences.

* *A process* (`life`) starts, claims or stands by, recovers (`RecoverMarkers`, `RecoverIndex`: the markers are cleared and the lists
  read before the index is written), runs, stops and exits.  `Crash` is possible at any moment; only files stay.  `held` is what the
  process holds back, `pendingMissed` the same on disk, `request` a release request as old or as young as the hold.
* *The poll* reads what is due (`PollBegin`) and then reaps, retries markers and submits (`PollSubmit`): what ends in between is a case of its own.
* *A run* (`RunClaim` to `RunReleases`) is one step per statement on a store.  A read-modify-write of the list is two: `RunLoad` takes the
  list's lock *of its process* and keeps a `draft`, and the step named after what it writes saves it.  Reading the list without the lock (`Decide`,
  `RunChecks`, `RunSyncReads`, `RunLooksAtStreak`) is a step too.  The turn itself is a choice of three ends.
* *Edits* (`EditLoads` to `EditIndexes`): PATCH writes the index after the list, the other routes and the tools inside their update; a REST edit of a TODO that is
  executing is refused, and its update saves all the same.
* *Faults*: `DiskFaults` lets a save of the list fail, `DbFaults` names the statements that may, `LockFaults` makes the lock unavailable and deletes the file.

`served` is a history of executed occurrences, used by `NeverTwice` only.  Abstractions: the count of a failure streak stops one above the
threshold (`Failed`), beyond which no branch looks at it; the poll's own exceptions, which skip to the next poll, are the statements' failures.

### 2.5 `Approvals`

A hold is one record id, minted once, of one of three kinds, fixed in `Init`: a hook's on the API's loop, a hook's bridged from a thread (it waits on a loop of its own, so
its steps interleave with the routes'), a fallback's (it registers first and has its record written in a thread).  What the code does between two awaits on the API's loop
is one step.  `Rendezvous` keeps the answer that was posted (`posted`) apart from the one that arrived (`future`): a waiter can end between the two.  `took` is the history of who was told to have
woken a waiter, which is what a route reports.  A resolve call looks for a live record, else loads it in a thread, answers, and cleans up what nobody waits for; the slash commands
do the same steps without a pause.  Notifications, cards and the rights of users are left out; one user's holds are modelled, as the cap is per user.

### 2.6 `TurnStream`

One thread id.  A turn has one client and one reader, named as the turn is; an event is its number.  A turn in `OnLoop` is a `POST /chat`: it runs on the API's loop, writes an event
there in one step, and its client is `consume_chat_stream_with_recovery`.  Any other turn is an autonomous one in a worker's loop: `Stamp`, `Store` and `Ring` are a critical section each
and interleave with everything; its client is a bot's `AutonomousTurnAttach`, started by the firehose's first event (`Announce`).

* *The turn* (`Ask` to `FinishTurn`).  The generator, which has the lock, is closed before the last event is written (`Release` before `Done`), so the next turn may begin and
  replace the buffer while its predecessor is still live.
* *A reader* (`StartLook` to `RunCallback`) is `stream_entries`, a step per look at the buffer: capture the event, take a batch, look for a gap, yield each entry (`Give`,
  where a slow client holds it up: `Window`), look at the state, drain, wait.  The looks of one pass are not interrupted by the loop (`LoopFree`), only by workers.
* *A connection* is a set of numbers under way (`wire`; 0 is `turn_attach`), delivered in order until it is cut (`Cut`).
* *A chat's client* (`AfterCut`, `AfterEnd`, `AskStatus`, `Reattach`): raise before the turn has an identity, else ask the status, re-attach from `last_seq`, back off, give up after
  `MaxAttempts`.  *A bot* (`AttachFails`, `Settle`, `Complete`): pinned to the turn of its first attach, one retry, fall back or deliver what it has.
* *The registry*: `Retention` and `Sweep` (an expired buffer is found in one critical section and discarded in another), `Delete`, `Restart`.

`TurnFeed` is the specification a client sees, and `FeedKept` says that `TurnStream` implements it: `made` is what was stamped, `of` the turn a client has been shown something of, `verdict` the
outcome it reports.  `shown`, the count of what it dispatched, is the only history variable, and is what makes a repetition or an omission visible next to `upto`.

Abstractions: an exception in a handler counts as a cut.  Eviction by bytes is any number of entries, the new one included.  A request that waits for its thread's lock is `asked`; the queued phase and
its mailbox are `TurnAdmission`'s.  A deletion comes when no request of the thread waits.  A turn starts after the abort flag, epoch and gate let it, which is `TurnAdmission`'s too.

## 3. Runs

| Run | Instance | Question |
|---|---|---|
| `OneLoop` | 3 streams (two users; one may not queue), a clear and a note on the event loop, queue of 2, fair | Does each pending prompt stay reachable, is none left behind, does no halt or user boundary leak, is every prompt woken and does every call return, when everything runs on one loop? |
| `Threads` | a stream on the loop that its consumer may close, a trigger's post and a `chat()` in threads, a stop, a note, queue of 1 | `PromptPromise` implemented, under free interleaving |
| `ModelFree` | a stream, a hold, a clear and two deletions | No turn or clear on a deleted thread; nothing queued behind a holder that does not drain |
| `GateFixed` | 5 requests (one exempt, one that may not wait), ceiling 1, fair | The exact count, ceiling, order, no idle slot, everything handed back |
| `Jobs` | a tool call, a `/code` (its run without a session), a follow-up, failures, stops, aborts and turns of the thread, one end-turn each of two runs, fair | Is a report taken inline only when there is one; do the reports of a run cover it in order, once, to its end, and is none dropped but for a stop of its own or a failure; is each follow-up that could not start named; does a running `/code` run always hold the slot, and is it free in the end; is every call answered? |
| `Takeover` | 2 processes of two starts each, one recurring TODO, 2 attempts, pause after 1 failure, missed work held, a status page that probes; saves, claims and releases may fail | One run per TODO, no marker nobody removes, held work waits across owners, index and list agree, a series goes on |
| `TakeoverLive` | 2 processes of one start, a one-shot and a recurring TODO, a pool of 1, fair | Is what is due served, and is the schedule taken over? |
| `Unguarded` | 2 processes of two starts, a lock that may be unavailable and whose file may be deleted, 3 files, fair | Do two schedulers notice each other? |
| `Editors` | 1 process, one recurring TODO, a REST caller and a tool with one edit each | Do a pause, a deletion and the armed occurrence survive every interleaving of run and edits? |
| `Approvals` | 2 holds (two fallbacks, or a hook and a bridged one), 2 resolve calls, a stop, sweeps, crashes, a cap of 1, fair | One answer, no run without consent, no record without a waiter, the cap, an end of every wait |
| `Stream` | a chat with 2 faults; two chats, one of them with a client, and a fault; a watched autonomous turn and a fault; a buffer of 2 events, 1 on the wire, 2 attempts, fair | Is a reader always woken; can the turn that has the lock always be joined; is `TurnFeed` implemented; does every turn and client end? |

Bounds.  Three turns are needed for one to hold, one to be in the queue and one to arrive; with a queue of 1 the
second arrival evicts, with 2 it does not, and both are used.  Two deletions are needed for the race of two deletes, one
for everything else.  Every call is made once, so a new holder after the first is always another call; histories of
two or three consecutive holders are covered, and no state outlives a holder except those the invariants speak about.
A Claude Code run of one end-turn has an inline or posted first report with or without that turn, and a final one that carries the rest.
`Talkers` bounds which runs may end a turn before they exit: the tool's and the follow-up's, which may be either kind of run.  Stops, aborts and turns of the thread are not bounded.
The call, the command and the follow-up have every order of look-up, registration, exit, take-over and release; a second follow-up would repeat the
first's steps.  Longer runs and more calls, several `/code` commands among them, are what the theorems are for (section 4).  In the gate, ceiling 1 with three patient requests has two waiters behind a hand-off and one of another kind beside them;
ceilings 0 and 2, and the moves between them, are in the theorem `CounterExact`.  The queue's bound is 256 in the code; only being at it matters.

Of the ticker, two processes of two starts have every order of owner, standby, stop, crash and second owner, and an owner that starts again while the other takes
over; a third would stand by like the second.  `MaxTime` is the last slot of the clock: at 1 a series fires, is re-armed, fires again and is armed for a slot that never comes (`MaxTime + 1`).
One TODO is enough where TODOs meet only in the list file (`LostEdit` and `TakeoverLive` have two).  `MaxRetries` of 2 has a retry and a last attempt, `PauseAfter` of 1 a pause; with 1 in `Editors` the first failure
already pauses.  `MaxEdits` counts the edits of each editor; two editors have one each, so that a re-arm can meet a deletion and a run both.  `MaxFiles` of 3 lets the lock's file be deleted twice.  Two approvals at a cap of 1 meet at the cap in each order; two resolve calls and a stop are three answers to
one hold.  A crash may come at any time, and leaves records of a hold that was asked before it and a resolve call made after it.

Of the stream, a buffer of 2 under a turn of 3 events evicts while a reader holds 1 on the wire and 1 in its batch, and empties when an event is larger than the byte bound.  A fault is a cut, a restart, a deletion or the
end of a retention; two of them cut a resumed chat again, and a bot's second failure may be its idle timeout, which is not counted.  `StreamWide.cfg` has a chat and an autonomous turn on one thread.  Longer turns, more turns and more faults are what the theorems are for.

Fairness (`FairSpec`).  Weak fairness on each call's own steps: threads and coroutines get scheduled; a drive ends, because
the graph has an iteration cap and tools and providers have timeouts; `lock_timeout` passes.  No fairness on what users do: making a
call, stopping, withdrawing, disconnecting, editing, answering, releasing held work, starting a process.  A gate request's fairness covers its timeout firing.
Of the Claude Code jobs, the calls' and watchers' steps are fair (waits, budgets and graces are timed) and so is the exit of a process, which the bridge's hard
timeout kills; end-turns, stops, aborts and the thread's turns are not.  The ticker's poll thread loops for as long as its process lives, the pool's threads run what they were given, and the clock
goes on; processes need not crash and need not come back.  Of the approvals, the steps of a thread or loop are fair and so is the closing of a window, which is a timer; sweeps are not.
Of the stream, turns, readers and clients each go on: the loop's ready queue is first in, first out and a worker's thread is scheduled, so one whose chance comes again and again takes it, whatever the others do in between (strong
fairness, since a look on the loop disables the others for its duration).  The reader's poll of 15 s and the idle timeout of 900 s are *not* fair: `AllEnd` holds by the doorbell alone.

Deadlock is checked in `OneLoop`, `Threads`, `ModelFree`, `GateFixed` and `Jobs`, whose modules stutter when everything is over and only then.  The ticker's, the
approvals' and the stream's runs do not check it: their processes may all be down for good, and their holds, calls and clients may all be over.

### 3.1 A run that finds the code at odds with what it says

`LostEdit` checks a property that holds in `Editors`, on an instance that adds a second process: the API's.  `atomic_update` reads, changes and writes the list
under a lock of its own process (`core/todo_manager.py:699`).  A run has the list loaded in order to mark its TODO; the API deletes another TODO and saves; the run saves what it loaded, and the
deleted TODO is back.  `core/todo_manager.py:708` says that multiple concurrent modifications do not overwrite each other.

### 3.2 Further instances

Kept for whoever changes this code; run one with `tlc -config X.cfg M`.  TLC finds a behaviour that violates the property, except in the last.
The first four check a property that holds in a run of section 3, on an instance that adds one thing.

| Configuration | Module | Property | What it shows |
|---|---|---|---|
| `StopThenSend.cfg` | `MCTurnAdmission` | `EveryPromptWoken` | A stopped `astream()` leaves its loop without closing the queue (`core/agent.py:3774`); a message queued after the stop took the queue back waits until some other turn comes, while `core/completion_delivery.py:305` says that every enqueued prompt is woken |
| `ClosedBatch.cfg` | `MCTurnAdmission` | `PendingReachable` | A consumer closes the generator during a re-drive (`core/agent.py:3903`): the batch drained before is in no queue and nobody answers it, against `core/agent.py:4227` |
| `LateArrival.cfg` | `MCTurnAdmission` | `QueuedBehindHolder` | A caller in another thread reads "not releasing", the holder closes, drains and unlocks, and then it enqueues: its prompt is on an idle thread, against `src/Nymeria/docs/api.md:1632` |
| `LostFollowup.cfg` | `MCClaudeCodeJobs` | `ReceiptHonoured` | A prompt is queued on a job whose watcher has already taken its follow-ups: a receipt, and then nothing (`tools/claude_code_background.py:431`) |
| `DeletedPrompt.cfg` | `MCTurnAdmission` | `StaleNeverAbsorbed` | The epoch is not looked at on the queueing path (`core/agent.py:3238`), so a prompt authorised for a deleted thread is absorbed by the turn of the thread that reuses the id; `core/thread_lock_manager.py:28` says that deletion invalidates such requests |
| `OtherUserChat.cfg` | `MCTurnAdmission` | `OwnUserOnly` | `chat()` does not filter its batch by user; `src/Nymeria/docs/api.md:1636` says that prompts are absorbed only for the same `user_id` |
| `HaltCarried.cfg` | `MCTurnAdmission` | `HaltNotCarriedOver` | The last loop of `chat()` does not consume the halt count after a re-drive, and the next turn reports it; `core/agent.py:2679` says "always" |
| `Forked.cfg` | `MCClaudeCodeJobs` | `OneRunPerSession` | A tool call and a `/code` both look for a live run before the other has registered its own; both resume the thread's session, which `core/command_executor_claude_code.py:193` means to exclude |
| `LateOutcome.cfg` | `MCClaudeCodeJobs` | `LastIsNewest` | A `/code` that answers inline records its outcome after its follow-up has recorded a newer one; `core/claude_code_delivery.py:115` says that it must not |
| `StaleDue.cfg` | `MCTicker` | `NeverTwice` | A poll reads what is due, the run ends, and the same poll reaps it and submits the occurrence again (`core/ticker.py:1214`, `1232`); `core/ticker.py:299` speaks of preventing duplicate execution |
| `LateDecline.cfg` | `MCApprovals` | `DeclinedStays` | A user is told that the switch was declined, the waiter's window closes before the posted answer arrives, and a timeout swaps; `core/hook_approvals.py:238` has `False` for a wait that timed out, and the fallback coordinator does the same |
| `EarlyStale.cfg` | `MCApprovals` | `StaleMeansGone` | A bridged hook writes its record before it registers its future: a resolve in between finds no waiter, deletes the record and reports the hold stale |
| `CancelledPark.cfg` | `MCApprovals` | `EveryExitDeletes` | A turn cancelled while its record is being written leaves the record (`core/fallback_approvals.py:522`); line 501 says that every exit path deletes it |
| `LostReply.cfg` | `MCTurnStream` | `WholeIsNotLost` | A client that recovers is cut after `done` was dispatched; its next attach ends with nothing new, and it reports the reply lost (`triggers/sse_consumer.py:917`); line 799 says that such a drop has nothing left to recover |
| `Swallowed.cfg` | `MCTurnStream` | `NothingSwallowed` | A gap opens before a bot's attach has rendered anything: the gap event is skipped, the attach ends as delivered and keeps the completion from the firehose, against `triggers/sse_consumer.py:1243` |
| `StreamWide.cfg` | `MCTurnStream` | `TypeOK`, `NoWakeLost`, `HolderAttachable`, `FallbackTells`, `FeedKept` | They hold for a chat and an autonomous turn on one thread, with a client of the one or the other and a fault (2.3 million states) |

Two divergences met while modelling are in the model and have no property of their own.  `POST /todos/{id}/complete` and the slash command call `sync_schedule_to_db` inside their update
(`api/routers/todos.py:509`), which reads the list that is still saved, against the comment at `api/routers/todos.py:410`: the row keeps the old slot, which is due earlier and is served by a run that finds the newer slot (`Rewritten`) and
puts the row right.  And a "done" before the last occurrence has come moves past the armed slot: the
first occurrence of a series, for want of a `last_execution` to anchor on, and the earlier slot that a series is rescheduled to after an early "done", which the anchor has already counted.  `DoneKeepsArmed` speaks of series
whose last occurrence has come.

## 4. Theorems

All theorems are about `Spec` for every value of the constants that satisfies the module's assumption
(`TurnAssumption`: the kinds of calls are disjoint, the queue's bound is at least 1, which `PromptPromiseProofs` needs to know that an eviction finds a prompt to evict; `GateAssumption`: finitely many requests, limits are
naturals; `JobsAssumption`: tool calls, `/code` calls and spare names are disjoint; `StoreAssumption`, `NoneAssumption`: the clock's last slot is a natural, and the value for "nothing" is neither a slot nor an item; `TurnBufferAssumption` and
`TurnStreamAssumption`: a buffer keeps at least one event, each turn has its client, bounds are naturals).

* `TypeCorrect`, `Exclusion`, `MarkerOwned` rest on `Invariance`, the inductive invariant
  `IInv == TypeOK /\ LockExclusion /\ ReleaseMarkerOwned /\ TurnsOnly`.  The three need each other: the marker is dropped only by the
  owner because only the owner is at a releasing place, which is exclusion; `TurnsOnly` (the places of a turn are
  reached by turns) is what excludes a hold or a deletion in the drain loop.  The step lemma is
  split twice: `*KeepsControl` for places, lock and marker, `*KeepsData` for types and the bound.
* `LivingThread` adds `DeletionMarked` (the thread is being deleted exactly while its owner is a deletion
  between its first and last step under the lock): the epoch moves only under the lock, so a turn whose epoch was current when it took
  the lock keeps a current epoch until it leaves.
* `KeepsPromise` and `OneUse` rest on `IInv` and `Custody`: whatever is in the queue or the batch is pending, no prompt is in both or in the queue
  twice, and a call that may still take the lock has not queued anything.  The first half is what lets an eviction, a withdrawal, a stop or a drain
  wake the prompts it removes without waking one twice; the second keeps a message from being run and queued.  Each action is shown to be
  `Faithful` (it keeps `Held`, tells a prompt only what its outcome allows, moves its call only where `MayMove` allows), and `FateMoves` turns a faithful step into a step
  of `PromptPromise` or a stutter.
* `TurnQueueProofs` adds `BatchInv` (the batch is of the call past the lock, and only between a drain and the end of the drive it was injected into), and on top of it one invariant for each promise of the queue:
  * `HolderAbsorbs` and `OwnUser`: who drains is who absorbs, and `astream()` filters what it drains.  `OwnUser` assumes `Chats = {}`, because `chat()` does not (`OtherUserChat.cfg`).
  * `Reachable`: with `Reach`, whatever is pending is in the queue or the batch; the other direction is `Custody`.  It assumes `Closable = {}`: a stream closed in a re-drive drops its batch (`ClosedBatch.cfg`).
  * `Quiet`: a hold and a deletion put the marker up before they empty the queue, and `enqueue` refuses under the queue's lock while it is up; no hypothesis is needed.
  * `HaltsAreConsumed`: a halt that is noted belongs to a turn that drives, re-drives or fails, and each of these consumes it on its way out.  It assumes `Chats = {}` (`HaltCarried.cfg`).
  * `IdleMeansEmpty` and `QueuedInTime`: under `OneEventLoop` (every call is a coroutine of one loop and nobody stops one) the look at the marker and the enqueue happen without giving the loop away, and so do the last drain and the
    unlocking (`LoopInv`), so nothing can be queued after the drain that would have found it.  With a call in a thread both are false (`LateArrival.cfg`); with a stop, `StopThenSend.cfg` shows what is left behind.
* `GateTypeCorrect`, `CounterExact` rest on `GInv == TypeOK /\ SlotsAccounted /\ DequeLive /\ SlotsRun`.  `DequeLive` (each live future is
  in the deque, once) is what makes a hand-off move one count from one slot to one waiter.
* `Fifo` is an action property from the same invariant.
* `Ceiling` and `NoIdleSlot` hold while the setting stands still (`Limits = {FirstLimit}`): with a moving limit
  both are false by design.
* `TypeSafe`, `ReportsAreInSequence`, `EndTurnsAreDelivered` rest on `ReportInv`: what holds of a job at each place of its watcher
  (`JobState`: what was handed over, what is in hand and what the observer has counted add up), of a call and the latch of its job (`CallState`: only
  a caller that saw a report can have made the latch say inline) and of a follow-up (`FollowState`).  The latch is what makes them inductive: while the first report is
  on offer it is in the log exactly if the latch says inline.  `EndTurnsAreDelivered` adds `LossInv`: while the flag is up every job counts as stopped, a loss to a stop is a stopped job's, a job that has not begun has nothing lost or queued, and
  no `/code` report is ever in the queue.  It is the third of these that lets a turn which clears the flag forget the jobs that have not begun.
* `RunsHoldTheSlot` adds `SlotInv`: the slot is held from the claim to the start of the run, for a `/code` and for a follow-up; taking it
  over is safe because the run that is followed has exited, which is `ReportInv`.
* `DroppedAreReported` adds `NamedInv`: a follow-up that its watcher has given up is among the notes of the final report that is about to be handed over, or of one in the log; that a latch which says inline leads to the log is `ReportInv`.

* `TickerProofs`: `TypeCorrect`, and under `~LockFaults` `OneRun`, `Held` and `Markers` (the last where the recovery's statements do not fail either).  The inductive invariant says who may be at
  work: a process that goes by owning the schedule holds the one lock, a stopped one included, so the places of a run are reached in one process only;
  a hold in memory is the one on disk; a marker is with a run or on the list of the poll.  With lock faults these are false by design, since a claim fails open: what remains is `TwoSchedulersReported`.
  The list of TODOs has theorems of its own, each on the previous one's invariant:
  * `Deleted`, `Paused`, `DoneEarlyIsHarmless` under `OneWriter`: one process writes the list, because it is the only home, or because nobody edits and the lock can be had.  `WriterInv` says that a loaded draft is under the list's lock and is the
    list as it stands (`LoneDraft`), so that what is saved differs from it in one item only; that is what `LostEdit` breaks with a second home.  `PauseInv` says that a paused item has no slot and that no run of a paused TODO is at a place from which
    it would re-arm it, since a run gets there only if it found its slot still armed, and no edit begins a pause.
  * `Series` under `RunsOnly` (no editors, the lock can be had): `SeriesInv` says that every TODO stays active, that a series has a slot or is paused, and that no run of a series gets to the places that clear a slot for good.  A user may cancel a schedule, hence no editors.
  * `NoSilentEnd` under `OneWriter` is what is left of it with editors: `GoneInv` says that a run which clears or gives up a series has found it deleted, and `Deleted` that it stays so.
  * `IndexFollows` under `RunsOnly` and `RowsSaved` (the statements that write a row do not fail): `IndexInv` says that a row is what the list says unless its run is between saving the list and writing the row, and that a process that rebuilds the
    index has read the list as it is.  Without the first hypothesis two syncs may cross (section 5); without the second a row stays behind until the next start rebuilds it.
* `ApprovalsProofs`: `TypeCorrect`, `OneAnswer`, `OnlyByConsent`, `WaitersClean`, `StaleOver` rest on `IInv == TypeOK /\ HoldInv /\ CallInv`.  `HoldInv` relates, for each hold, the place of its waiter, its entry in the registry, the
  answer posted or set and who took it: as long as the entry is there nobody has taken the hold, which is why a pop decides.  `CallInv` says what a resolve call has learnt that stays true while it waits.
  `CapKept` adds `BoundInv`: a fallback that waits was counted by every later check, because it registers before it checks.
* `TurnStreamProofs`: `TypeCorrect`, `Woken`, `Joinable` and the refinement `Fed` rest on `IInv == TypeOK /\ BufferOK /\ ReaderOK /\ ClientOK /\ BellOK /\ RegistryOK`.
  `ReaderOK` says that what is on the wire is exactly `upto + 1 .. cursor` and the batch starts right after it: this is what makes eviction, a slow client and a resume lose or repeat nothing, because a fetch that leaves a hole
  ends the stream instead.  `ClientOK` ties a client that has seen something to one buffer, whose numbers it resumes by (a re-attach to another turn's buffer is refused), and lets "finished" be noted only with an end it was shown.
  `BellOK` is the missed-wakeup argument: between its look and its wait a reader whose captured event is not set misses nothing, unless the worker is between storing and ringing.  `RegistryOK` says that an expired buffer being
  discarded belongs to an ended turn, so dropping it cannot take the live one.  Each step is shown to leave everybody else's part alone (`ActorFrame`, `TurnFrame`, `StartFrame`) and then its own part;
  for `Fed` a stamped event is a `Make`, a dispatched one a `Show`, and every way out of a stream a `Tell`.  `FallbackTold` is inductive on its own.

Proved and not repeated in a run: the type invariants, `LockExclusion`, `ReleaseMarkerOwned`, `RunOnce`, `AbsorbedByHolder`, `OnlyUsersUnschedule` (it can be put among the PROPERTIES of `Editors.cfg`), `QueuedBehindHolder` (its violation in `LateArrival.cfg` is outside the hypothesis), `FallbackTells`.

Every safety property of the passing runs is stated by a theorem.  Only model-checked is liveness: `EveryPromptWoken`, `EveryCallReturns`, `GateEmpties`, `AllSettles`, `DueIsServed`, `TakeoverHappens`, `TwoSchedulersReported`, `HoldsEnd`,
`AllEnd`, since fairness and ENABLED are beyond the prover.  The theorems with a hypothesis name it in their statement, and a configuration of 3.1 or 3.2 shows what happens without it, except where the bullet says why the property does not mean to hold there.

## 5. Not modelled

Listed with reasons in `PROJECT.json`.  In short: plumbing and I/O (API, tools, channels, front ends, CLI), stores whose operations are single
statements (credentials, accounts, teams), transformations of message lists (compaction, history), and interpreters of user programs (workflows).  They are by far the larger part of
the repository: most of its lines are integrations with external services, forms and views, whose state is elsewhere.

Of the ticker: the sweep of markers older than a day, deferral and repair of an unreadable list, workflow TODOs, the accounting of deliveries and of skipped
occurrences, the triggers and sweeps that the same thread polls, and the creation of TODOs.  The API's process (an editor's home that is not a scheduler) does not crash.  A recovery that raises is not retried.
Of the approvals: suspended workflows (`core/workflows/approvals.py`), notifications and cards, rights of users, the other users of the rendezvous (credential prompts, browser, UI and CLI prompts), a loop that is closed while its future is open, and
the event that a swept record should have been announced with.
Of the stream: the executor's loops (`core/turn_executor.py`), a graceful shutdown, the mailbox of a queued request, the worker's wait for its sink's deliveries, an append after a turn ended in error, a self-invoked or in-process chat, whose client gets no identity and has no recovery,
and the desktop, mobile and terminal clients, which have recoveries of their own.

Hazards seen there and not turned into properties: a chat that is cut while its request waits for the lock has no identity yet, and its caller posts it again although the turn will run (`triggers/sse_consumer.py:736` names two other such shapes); a bot's first attach names no turn and may land on a newer one; a stop between a holder's `set_lock_info` and its reset of the abort flag is forgotten (`core/agent.py:2473`); a queued
prompt's mailbox drops past a bound (`core/pending_prompt_queue.py:85`); a completion accepted into the in-memory queue is lost with the process (`core/completion_delivery.py:296`); a waiter of the gate keeps the limit it read (`core/interactive_admission.py:116`); `sync_schedule_to_db` reads the list and writes the row in two steps, so two of them may cross (`core/todo_manager.py:1054`; `IndexAgrees` is about a TODO that no editor touches); a rebuild writes what it read before an edit (`core/todo_schedule_db.py:647`);
a probe makes a starting ticker stand by, for good if it may not take over (`core/scheduler_lock.py:246`); `clear_todo_schedule` and the give-up remove the row before the list is saved (`core/ticker.py:2706`); the cap of bridged hooks is checked before they register
(`core/hook_approvals.py:341`); two fallbacks that race for the last place may both be refused.

## 6. Plan

1. Theorems where only a run speaks so far: `Deleted` for a second home whose edits do not overlap a run's, the hypothesis of `IndexFollows` narrowed to a TODO that no editor touches, and `PendingReachable` with closed generators,
   for every prompt that is not in the batch of one.
2. `CompletionDelivery`: submission, watching the outcome, eight retries, the loss of the in-memory queue with the process; the
   submissions of `ClaudeCodeJobs` (which are not retried) as a case of it.
3. The queued phase of a chat (its mailbox, and what it drops) between `TurnAdmission` and `TurnStream`.
4. `ThreadRequests`, `TriggerManager`, `FallbackReclaim`, `EventBus`.
