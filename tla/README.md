# Formal models of mcp-dap-server

TLA+ models of the concurrent core of `mcp-dap-server`, the TLC configurations that
check them on small instances, and TLAPS proofs of their central invariants for every
value of the constants. File and line numbers refer to the Go sources one level up.

## The system

An MCP server whose tools drive one debug adapter (Delve or GDB) over DAP. Every MCP tool
call runs in its own goroutine.

| Part | Source | State | Operations | Correct when |
|---|---|---|---|---|
| DAP client | `dap.go` | `seq`, `sendMu`, `inbox`, `readErr`, `notify`, `executionAcks`, `closeOnce`, handlers | `issueRequest`, `waitMessageContext`, read loop, `Close`, `shutdown` | every caller gets its own answer or an error; no wakeup is lost; requests are ordered; handlers run before waiters; the end is reported once |
| State feed and resume | `tools_control.go`, `tools_session.go:78-130` | `generation`, `dbgState`, `dbgSeq`, `stopEpisode` | `observeState`, `executionAcknowledgement`, `resume`, `get-debug-state` | the published state follows the target; nothing crosses from one session to another |
| Session lifecycle | `tools_execution.go`, `tools_session.go` | `ds.mu`, `ds.client`, `ds.controlClient`, `cmd` | `debug`, `continue`, `step`, `pause`, `stop`, `handleClientEnd`, `cleanupLocked` | tools, session and adapter process agree; `stop` always gets through; an ended session is cleaned up |
| Tool registry | `tools_session.go:173-357` | registered MCP tools | `registerSessionTools`, `unregisterSessionTools` | session tools are offered while there is a session |
| Startup handshake | `tools_execution.go:422-680`, `backend.go` | launch sequence, responses seen | both adapter startup orders | neither order loses or waits for a message that is gone |
| Breakpoint tracking | `tools_breakpoints.go`, `tools_execution.go:34-101` | `functionBreakpoints`, `lineBreakpoints` | replace, add, remove, clear, run-to-cursor | the tracked lists are the adapter's |
| Frame selection, event caches | `tools_inspection.go`, `tools_session.go:93-138` | `lastFrameID`, `invalidated`, caches | `evaluate`, `context`, `info`, folding of events | no stale frame is used unasked |
| Variable expansion | `tools_inspection.go:481-602` | `variableBudget` | recursive expansion | bounded, with a visible truncation |
| Adapter processes, logs | `backend.go`, `security.go` | child process, log budget | `startDelve`, `boundedLogWriter` | the child is reaped on every path; the log is bounded |
| Parameters, prompts, entry point, dev tool | `flexint.go`, `prompts.go`, `main.go`, `scripts/` | none | pure functions and I/O | unit tests |

How they interact. A tool takes `ds.mu`, sends a request through the client and sleeps until
the client's read loop has queued the answer. `pause`, `stop` and `resume` do not take
`ds.mu`; they use `controlClient` under `controlMu`. The read loop runs three callbacks into
the session: the event handler and the acknowledgement (which take `eventMu`), before the
message is queued, and the end callback (which takes `ds.mu`), after Terminated or the end of
the transport. `cleanupLocked` runs in whichever of these goroutines holds `ds.mu`.

Hard behaviours: goroutines that race on the inbox and the notify channel; callbacks of the
read loop into a lock its own waiters hold; three ways to end a transport; a session replaced
while messages, callbacks and control tools of the old one are still under way; cancelled calls
whose requests the adapter carries out all the same; partial failures of `debug`. `PROJECT.json`
lists each hazard at its line with the properties that watch it.

## Modules

| Module | Models | Runs |
|---|---|---|
| `RequestResponse` | what the client promises: ordered requests, each caller its own answer at most once | (property of `dap_client_live`) |
| `DAPClient` | one client: callers, read loop, owner, adapter | `dap_client`, `dap_client_live` |
| `DebugState` | the published state of successive sessions, and `resume` | `debug_state` |
| `SessionLife` | what the server promises about its debuggers: one at a time, with its tools, and nothing left behind | (property of `debug_session`) |
| `DebugSession`, `MCDebugSession` | the tools, `ds.mu`, clients, cleanup, registration | `debug_session`, `debug_session_live`, `terminated_deadlock`, `stale_stop`, `stale_stopped_event` |
| `DelveSpawn` | `startDelve`: child, scanner goroutine, timer, reaping | (part of `startup`) |
| `Startup` | one `debug` call from the spawn to its result, with Delve and two generations of GDB; extends `DelveSpawn` | `startup` |
| `Breakpoints`, `MCBreakpoints` | breakpoint lists and run-to-cursor | `breakpoints`, `run_to_nowhere` |
| `VariableExpansion` | the expansion of scopes and variables with its budgets | (part of `inspection`) |
| `Inspection` | `evaluate`, `context` and the reports of stops: default frame, invalidation, expansion; extends `VariableExpansion` | `inspection` |
| `VariableTree`, `MCInspection` | the tree an expansion should show, and that it does; extends `Inspection` | `inspection` |
| `DAPClientProofs`, `DebugStateProofs`, `DebugSessionProofs`, `StartupProofs`, `BreakpointsProofs`, `InspectionProofs`, `VariableTreeProofs` | theorems about the module they are named for | |
| `SequenceLemmas` | what `RemoveAt` returns, used by the proofs | |

The modules cut the server along its locks. `DAPClient` is what happens under `sendMu`, `inboxMu`
and `closeOnce`; `DebugState` what happens under `eventMu` and `controlMu`; `DebugSession` what
happens under `ds.mu`. Each treats the other two as atomic where their own module shows that they
may be. `Startup`, `Breakpoints` and `Inspection` look at the inside of the `ds.mu` sections that
`DebugSession` takes as one request and one wait: `Startup` inside one `debug`, `Breakpoints` inside
one breakpoint tool after another, `Inspection` inside one `evaluate`, `context`, `continue` or
`step` after another, while the read loop and `resume` go on beside it.

### DAPClient

State: the fields of the Go struct by their names; `pc[c]` is where a caller is (`write`: in
`issueRequest` with `sendMu`; `scan`: looking through the inbox; `parked`: in the `select` on the
notify channel it read before); `rl` where the read loop is; `hand` the message it holds. `wire`
and `stream` are the two directions of the transport.

| Action | Code |
|---|---|
| `Begin`, `Write`, `WriteFails` | `issueRequest`, from the lock to the end of the write |
| `Take`, `WaitFails`, `Park`, `GiveUp` | `waitMessageContext` |
| `ReadMessage`, `ReadFails`, `Dispatch`, `Publish`, `EndLoop`, `CallbackReturns` | `readLoop` |
| `Close` | `Close`, `end`, `closeTransport` |
| `ClearHandlers`, `Shutdown` | the client's part of `cleanupLocked` |

The scan and the receive are two steps because the code releases `inboxMu` between them. The
notify channel is not a value: a parked caller holds the current channel, and closing it is what
`Notified` does. Both handler setters are one step, since no step of the client tells an
installed observer with a removed handler apart. `Executors` are the tools that hold `ds.mu` for the
whole of their call, so one of them at a time, and execution requests are theirs; `resume` appears as
one of them that gives up. The end callback into the session and every cleanup need `ds.mu` too: the
cleanup starts only when no executor is in a call (`SessionLockFree`), and the callback, and with it
the read loop, waits until somebody has cleaned up (`owner = "shut"`). Who does, and what else the lock
protects, is `DebugSession`'s subject.

### DebugState

Client number *n* is the one of generation *n*. `handlers`, `hand` and the messages carry what
each closure captured. `pub` is the snapshot `get-debug-state` returns. `target` and `stops` are
what the debuggee really does; the number of the stop a message belongs to is a ghost, which lets
the properties compare what is published with what is true. A message is read together with the
handler or callback that will apply it (`Read`), and applied when `eventMu` is taken (`Observe`,
`RunAck`); between the two the session may be replaced.

### DebugSession

`pc`, `op`, `on` describe each call: its place, its tool and the client it talks to. `cleaning`,
`after` and `doomed` are the progress of `cleanupLocked` in whoever holds `mu`. Every client keeps
its own read loop, inbox, transport and adapter, so that those of an ended session go on beside
the new one.

What it abstracts, and why that loses nothing the properties are about:

- A wait is one step, enabled when the inbox holds a match or the transport has failed:
  `DAPClient` shows that no wakeup is lost.
- The answer to a call that has returned is dropped (`Drop`) instead of staying in the inbox: answers
  are matched by number, so nobody takes it. `AnswerInv` below shows that there is one at most, so
  taking out one is taking out all. Unclaimed *events* do stay.
- Unregistering the tools and replacing the state are one step, as are closing the transport,
  killing and reaping: the holder of `ds.mu` does them in sequence and nobody sees the registry and
  the state in between except calls that wait for `ds.mu` anyway.
- An adapter that is closed says nothing more.
- The startup handshake is one launch request and its response, and the continue that `debug` sends
  from an entry stop to a first breakpoint part of the target's start: `Startup` models both, and shows
  that a handshake that fails leaves what this module says it leaves. A `debug` that stays at the entry
  (`pc` and command `entry`) leaves the target in its stop 0 and takes that stop with the response,
  which Delve sends after it and nobody else can take meanwhile. The best-effort `cancel` request after
  a cancelled wait is left out: it changes neither the session nor the wait.
- The write of a request is one step. `stop` waits for `sendMu` as well, which a writer holds as long as
  the adapter reads nothing; here such a write is over or fails at once. `resume` is not a call of this
  module either: `DebugState` has it.
- `evaluate`, `context`, `info` and the other tools that send requests and wait under `ds.mu` are
  the one tool `request`; `continue` stands for `step` as well.

`SessionLife` hides all of this but the session there is (`client`), the one `cleanupLocked` has taken
out and not reaped (`doomed`), the tools that are offered and the adapters that are alive (`Running`).

### DelveSpawn and Startup

`spawn` is where `startDelve` is, `child` the process (`dead` is a zombie), `pipe` its standard
output, `scanner` the goroutine that reads it, `ready` the channel of capacity one between the two.
`config` is what the caller asked for: adapter, mode, `stopOnEntry`, whether there are breakpoints,
and whether the adapter supports `configurationDone`. `pc` is where `debug` is, named for the answer
or event it waits for; `active`, `launchSeen` and `seen` are `activeSeq`, `launchResponseSeen` and
what `waitForStopOrTermination` has taken. `placed`, `launch`, `target` and `stops` are the adapter's.

| Action | Code |
|---|---|
| `StartFails`, `Start`, `Announced`, `Timeout`, `Kill`, `CloseOutput`, `Reap` | `startDelve` |
| `Scan`, `ScanEnds`, `Drain`, `DrainEnds` | its goroutine |
| `SpawnGDB` | `gdbBackend.Spawn` |
| `SpawnFailed`, `ConnectFails`, `Connect` | the spawn and the transport in `debug` |
| `InitializeAnswered`, `LaunchAnsweredFirst`, `InitializedEvent`, `BreakpointsSet`, `ConfigurationAnswered` | the handshake, in the order the adapter asks for |
| `LaunchAnswered`, `AtEntryStop`, `StackRead` | the entry path: the stop is taken if it is there |
| `ResponseTaken`, `StopTaken`, `TerminatedTaken` | the wait for the first stop, which continues from an entry or attach stop |
| `WaitFails`, `Cancel`, `Refused`, `CleanUp` | every error path and the deferred rollback |
| `Deliver`, `ReadFails`, `ClientEnded` | the read loop, with the end callback that needs `ds.mu` |

The adapter actions give each adapter the order in which it answers: Delve accepts the launch before
or after `initialized` and reports its entry stop before it answers `configurationDone`; GDB 14 starts
the program at the launch, which the code therefore sends last; GDB 16 takes the launch first and
answers it only at `configurationDone`, in either order, and may refuse it.

### Breakpoints

`call` is the call that holds `ds.mu` with its local variables, `tracked` the lists of the session,
`adapter` those of the adapter, `wire` the requests on their way. A request that was given up stays
in `wire`, so the adapter applies it later. `unsure`, `user` and `leftover` are ghosts: the lists a
caller gave up on, the breakpoints a tool reported as set, and those a tool left tracked although
nobody was told that they are set. There are three ways to the last: a removal that failed, a continue
that could not be written after its breakpoint was set, and an answer without breakpoints to
`breakpoint`; after the latter two the code attempts no removal.
A verified breakpoint and a pending one are the same to the code (`kept`).

### VariableExpansion and Inspection

The Go code expands variables by recursion. `VariableExpansion` holds the recursion as a work list:
its head is what the code does next, its tail what the callers do after it returns; `leave` is the
deferred removal of a reference from the path, `more` the children above the limit. One expansion is
a record and each step an operator on it, so that an answer, an error or a cancelled wait may come
between any two. `VariableTree` is the reference, without a budget or a work list: an entry of the
tree is named by the positions that lead to it, `Entries` are those that the answers list, `Due` the
lines they ask for, and `Before` the order in which a reader finds them.

`Inspection` calls them. `lastFrame` and `invalidated` are the Go fields; a frame carries as ghosts
the stop and the number of invalidations it was produced at, which adapters do not number. `Left` is
the last stop the target has left and `strayed` the last one it was taken from unseen, by a `resume` or
by a `continue` or `step` that ended before it came to the stack of its stop. `out`
is the expansion under way, `unawaited` counts the waits a call gave up. The answer to such a wait
is dropped (`Unclaimed`): answers are matched by number, so nobody takes it.

| Action | Code |
|---|---|
| `Evaluate`, `EvaluateTaken` | `evaluate`, with `consumeInvalidation` |
| `Context`, `StackTaken`, `ThreadsTaken`, `ScopesTaken` | `context` and `getFullContext` |
| `Execute`, `ResponseTaken`, `StopTaken` | `continue` and `step` up to `getStopContext` or `getFullContext` |
| `Expand`, `VariablesTaken`, `VariablesUnavailable`, `Expanded` | `writeScopesAndVariables`, `writeVariableBudgeted` |
| `WaitFails`, `ErrorTaken` | the error paths |
| `Deliver`, `Lose`, `CleanUp`, `Resume` | the read loop, the end of the transport, `cleanupLocked`, `resume` |

`info` reads the default frame for its registers and changes nothing.

## What is checked

| Run | Instance | What it shows |
|---|---|---|
| `dap_client` | two tools (one may send execution requests), two requests, two events, inbox of two, transport of one request | `NoLostWakeup`, `WireOrder`, `AckBeforeWaiters`, `ObservedBeforeWaiters`, `EndOnce`, `InboxBounded` in 4.0 million states |
| `dap_client_live` | the same with one event of either kind | the client implements `RequestResponse` (`KeepsPromise`); after the end of the transport every call ends, unless the deadlock below catches it (`CallsEnd`); 280 thousand states |
| `debug_state` | two sessions, two stops each, two execution requests, one `resume` at any time | `NoFalseRunning`, `FeedCatchesUp`, `ResumeKeepsItsSession`, `FeedOrder` in 3.1 million states |
| `debug_session` | two concurrent calls of debug, continue, request, detach, stop; two sessions; one stop | `ToolsMatchSession`, `AdaptersReaped`, `EndCleansItsSession`, and the sessions implement `SessionLife` (`OneDebuggerAtATime`), in 2.8 million states |
| `debug_session_live` | a call that may debug or pause beside one that may also stop; two sessions | `StopReturns` and `EndedSessionIsCleanedUp`, up to the deadlock below, and `StopReturns` up to a newer session that holds the lock |
| `startup` | one debug call in every mode with each of three adapters, two lines of Delve's output, a pipe of one, two stops | `FailedStartLeavesNothing`, `BreakpointsBeforeRun`, `ReportsItsStop`, `NoStopLeftBehind`; `DebugReturns`, `ScannerEnds`, `OutputDrained`; 160 thousand states |
| `breakpoints` | a file and the function list, two places, five replacements | `ListsAgree`, `KeepsBreakpoints`, `NothingLeftOver`, `NoSendWithoutSession` in 1.9 million states |
| `inspection` | one call after another, two stops, two invalidations, trees of up to four variables over two levels | `WholeOrTruncated`, `RequestsBounded`, `StaleFrameIsAnnounced`, `FrameFollowsTarget` in 3.0 million states |
| `terminated_deadlock` | two calls of any tool, two sessions | violated: `HolderWakesForTerminated` |
| `stale_stop` | the same | violated: `StopEndsItsSession` |
| `stale_stopped_event` | the same, with two stops after the entry | violated: `ContinueReportsItsStop` |
| `run_to_nowhere` | as `breakpoints` | violated: `RunToHasItsBreakpoint` |

Each module also has a type invariant. Every property of a passing run has a mutant in
`PROJECT.json`: a change of one definition, of the kind a bug in that code would be, under which
the property fails.

### What the violated runs say

1. **`terminated_deadlock`** - `dap.go:223-225` says that a tool waiting with the session lock wakes
   for Terminated and can release the lock before the callback needs it. `continue`, `step` and
   `debug` do; a tool that waits only for its response (`evaluate`, `context`, ...) does not. The
   read loop waits for `ds.mu` and the holder of `ds.mu` waits for the read loop; `stop` joins the
   queue. Only the cancellation of the waiting call ends it.
2. **`stale_stop`** - `stop` closes the client it found and then cleans up whichever session is there
   when it gets `ds.mu`, which may be one that a `debug` call has started meanwhile.
   `handleClientEnd` compares the client; `stop` does not.
3. **`stale_stopped_event`** - the inbox is durable: a stopped event nobody took is what the next
   `continue` pairs with its own response, and it reports a stop the target has already left. In the
   run `debug` takes the entry stop, a `continue` is cancelled while the target runs, and the next
   `continue` reports the stop it has just left; a `pause`, which takes only its response, leads there
   too. (So does `resume`, which the run does not have.)
4. **`run_to_nowhere`** - the clean-up of a cancelled run-to-cursor runs with the cancelled context:
   the removal is sent and not awaited, so the adapter drops the breakpoint and the tracked list
   keeps it. The next `continue` to that place believes it is set.

### Known limits of the code

Met while modelling and stated where the models except them:

- `DebugReturns` has two exceptions. A launch answered before `initialized` is awaited a second time
  by the waits that start with nothing seen, for a core and for GDB (`tools_execution.go:653`); Delve
  in core mode may answer so early. And the deadlock of `terminated_deadlock` may catch `debug` too.
  So `DebugReturns` finds neither of them; it is about every other way not to return.
- `CallsEnd`, `StopReturns` and `EndedSessionIsCleanedUp` except the deadlock of `terminated_deadlock`:
  `handleClientEnd` needs the `ds.mu` that a tool asleep for its response holds. If the adapter sends
  `terminated` and exits, such a call never ends.
- `docs/dap-conformance.md:58` asks that an invalidated frame selection be refreshed before
  `evaluate`, and the code does not do that. One `evaluate` is refused; the next goes to frame 0 without
  a refresh, and an `evaluate` with an explicit frame clears the flag unseen (`StaleFrameIsAnnounced`
  excepts it, and says nothing of frame 0). A `context` chooses a new frame and leaves the flag, so the
  `evaluate` after it is refused once for nothing.
- `evaluate` after a cancelled or failed `continue` or a `resume` uses the frame of the stop before
  (`FrameFollowsTarget` excepts these), although `tools_inspection.go:17` calls it the current one.
- `docs/dap-conformance.md:50` asks for visible truncation. A text cut at the limit of output bytes never
  has room for the marker (`tools_inspection.go:511-535`), and `WholeOrTruncated` excepts every such text.
- An answer without breakpoints makes `breakpoint` fail and leaves the new breakpoint tracked
  (`tools_breakpoints.go:186-188`, `238-240`), as a `continue` that cannot be written leaves its
  temporary one (`tools_execution.go:88-91`); `NothingLeftOver` excepts both.
- `StopReturns` excepts a newer session: a `debug` that takes `ds.mu` between the close and the
  cleanup of `stop` makes `stop` wait for it. It does not cover a `stop` that waits for `sendMu`.
- Delve's entry stop is taken without waiting. It precedes the answer `debug` waits for in `Startup`, as
  the comment at `tools_execution.go:643-645` says of Delve; one that came later would stay queued.

### Bounds, and why they are enough

Every bound is a constant named `Max...` or a set in the `.cfg`.

- Two callers or calls: every property is about one actor against another (a waiter and the read
  loop, a holder of `ds.mu` and a control tool, an old session's call and a new session's).
- An inbox of two messages, a transport of one request: the limit, a full inbox with a match
  behind a non-match, and a blocked writer all occur. The limit is a constant, and the theorems hold
  for all its values, so also for 4096.
- Two sessions: the staleness hazards are between a session and its successor. Two stops and two
  requests: one stop that overtakes an acknowledgement, one request carried out in a later stop.
- `debug_session` offers all tools but `pause`, which changes nothing its invariants mention.
  `debug_session_live` offers `debug` and `pause`, and `stop` to one of the two calls (`Stoppers`): a
  `debug` holds `ds.mu` first while it waits for a response alone, as a request does, and then while it
  waits for a stop, as a `continue` does, and its target never stops. The violated runs offer all six.
- Two stops after the entry in `stale_stopped_event`: the one that is missed, and a `continue` that
  still has one to come.
- `startup`: two lines are noise before an announcement, an announcement before more output, or a
  line that fills the pipe while nobody reads; two stops are an entry stop that is passed over and the
  one that is reported.
- `inspection`: the limits of the code (depth, variables, requests, bytes, children) are constants of
  two to four here, so that each is reached, and reached before each other; the three sizes of the
  text before the variables leave room, leave room for part of a line, and leave none.
- Five replacements: set, set again by run-to-cursor, take back, clear, and one to heal.

`CHECK_DEADLOCK FALSE` everywhere: with the bounds used up and the adapter silent the system may
rightly stand still.

### Fairness

`Spec` is without fairness; the liveness runs use `FairSpec`.

- Weak fairness of what a goroutine does next when nothing blocks it: the Go scheduler is preemptive.
- Strong fairness of steps that take a lock (`sendMu`, `ds.mu`): `sync.Mutex` hands the lock over to
  a waiter that has starved for a millisecond.
- Weak fairness of the cancellation of `stop`'s wait only: it has a timeout of two seconds
  (`tools_execution.go:153`). Other calls need not ever be cancelled.
- `Startup` assumes more, because its question is whether `debug` can get stuck with an adapter that
  behaves: `debug`, its goroutines and the startup timer run, an adapter that lives answers, and a
  running program reaches a stop or its end. Nobody is sure to cancel.
- Elsewhere none for the adapter or the target: they may never answer, stop or exit. In `DAPClient` cleanup
  is certain to begin only when the read loop's callback asks for it and `ds.mu` is free again and again
  (strong fairness of a step that needs `SessionLockFree`): a tool that sleeps with the lock keeps it off.

## What is proved

All theorems hold for any callers, sessions, files and bounds that satisfy the assumptions the
modules state on their constants: `ClientAssumption`, `StateAssumption`, `SessionAssumption`,
`SpawnAssumption`, `MaxStopsAssumption`, `BreakpointAssumption`, `BudgetAssumption`,
`InspectionAssumption`. A property is seldom inductive by
itself; named below is the invariant that is, and what it adds. TLC has checked each of them on the
instance of its run.

`DAPClientProofs`, in this order, each invariant resting on the ones before:

- `TypeCorrect`. `TypeInv` adds to `TypeOK` that `sendMu` is held exactly by the caller in `write`
  (`Locking`) and how far the read loop and the owner are when the transport is closed (`Closing`).
- `InboxStaysBounded`. `EndInv` adds `LoopEnded`: a read error is published exactly when the loop
  is over, so nothing is appended after it.
- `EndsOnce`, from the same invariant: whoever finds `closed` false sets it and counts as the end.
- `NoWakeupLost`. `WakeInv` adds `Numbered`, that a caller's request has a number already used:
  `Publish` wakes everybody, and no other step adds to the inbox or changes what a parked caller
  waits for.
- `RequestsInOrder`. `OrderInv` adds that all numbers in the transport or with the adapter are below
  the number `sendMu`'s holder is writing, which needs the mutual exclusion of `Locking`.
- `EventsObservedFirst`. `EventInv`: events keep their order from the adapter to the read loop's hand
  (`Ascending`) and into the inbox, where an installed observer has seen them all (`Behind`), as it
  has the one about to be queued (`Seen`).
- `AcknowledgedFirst`. `AckInv`: a request is answered at most once (`AnsweredOnce`) and its
  acknowledgement stays registered until its answer is dispatched (`CallbackKept`).

`Implements`, the refinement: under the mapping of `DAPClient`, the initial states are
initial states of `RequestResponse` and every step is one of its steps or none. It needs `OrderInv`
and `AckInv`, without which an answer might be taken twice or a request sent out of order.

`DebugStateProofs`:

- `TypeCorrect`. `TypeInv` adds `Lifetime` (clients are closed in order, `client`, `control` and the
  published generation are those of the phase) and `Resuming` (a resumer's client is the one of the
  generation it was asked for).
- `ResumeReachesItsSession`, from `Resuming`: the request is written to the snapshot's client.
- `FeedIsOrdered`, an action property: each step that changes `pub` is one of three kinds.
- `RunningIsTrue`. `FeedInv`: each message under way is about a stop that is not shown yet or a
  continuation of one that is over, in the order of the stops (`UnderWay`), and the published episode
  is behind a target that has stopped while the state says running (`Published`).
- `CatchesUp`. `CatchUp`: the messages of the live client come in an order in which none undoes a later
  one (`Sorted`), and they account for every difference between the published state and the target
  (`Told`). A session starts with a client on which nothing was ever said (`Fresh`).

`DebugSessionProofs`: one invariant of four parts. `LockInv` (the holder of `ds.mu` is the one whose
program counter says so, and only it is in `cleanupLocked`), `AfterInv` (where the cleanup returns
to), `SessionInv` (which clients are closed and which adapters alive at each place of the holder) and
the types these need. From it follow `ToolsFit`, `NoOrphans`, `EndsItsOwn` and `LockIsHeldOnce`.

`Implements`: every step is one of `SessionLife` or none. `LifeInv` adds that nothing has happened to a
client that does not exist yet. That no adapter is alive when one is spawned follows from
`AdaptersReaped`, because the caller comes out of `cleanupLocked` with `ds.mu` and nothing in between.

`TypeCorrect` needs most, because `TypeOK` also says that no call has two requests open with one client.
`AnswerInv` is about the way from a call to a client and back: on it is at most one request, or one
answer, either in the stream or in the inbox (`AtMostOne`), and only while the call waits for an answer
of that client (`LineInv`). Not inductive without the answers: a call that gave up one of two answers
would leave the other to its next wait. Two calls may wait on one client at once, `pause` or `stop`
beside the holder of `ds.mu`; their ways do not touch (`Spares`).

`StartupProofs`:

- `RollsBack`. `Rollback`: what `startDelve` leaves of the child and its pipe, and when (`Spawning`),
  that the rollback of `debug` is armed as soon as the adapter runs (`Armed`), and that nothing is left
  once a failed call has returned (`Undone`).
- `BreakpointsFirst`. `Placing`: while breakpoints are missing nothing that runs the program is on its
  way, and no answer that would let `debug` go on to it (`Early`).
- `TypeCorrect`. `Announcing` adds that the scanner announces once, after `startDelve` has started it.
- `ReportsLatestStop` and `LeavesNoStop`. `StopInv`: the program is started once, after an accepted
  launch (`StartedOnce`, `LaunchedFirst`); one stop at most is under way, queued or taken, and none
  while the program runs (`OneStop`); the one `debug` holds is the latest (`Latest`, `Reported`); the
  entry stop precedes the answer to the configuration (`EntryStop`). Without `OneStop` the wait could
  continue from one stop and report an older one.

`BreakpointsProofs`:

- `TracksAdapter`. `AgreeInv`: of a list nobody gave up on, only the request the running call waits for
  is under way, and while it is unanswered or refused the two lists are the same. It rests on `SendInv`
  (who may send) and `OneRequest` (the request a call waits for is the last one sent).
- `SendsWithinSession`, from `SendInv`.
- `UserKeepsBreakpoints` and `ToolsCleanUp`. `ListInv`: every tracked breakpoint is a user's, the
  running call's own or left over (`Accounted`), and the list a call asks for differs
  from the tracked one by its own breakpoint (`Asked`). That the list without one breakpoint has all the others is
  proved from the least position at which it would fail.
- `TypeCorrect`.

`InspectionProofs`:

- `TypeCorrect`. `LinkInv`: a call has one request or one answer under way, and only while it waits
  (`OneAnswer`); the answer is to that request and was given during the call (`Answering`). The lemmas
  before it say what each step of an expansion does to its work and its counts (`Keeps`, `Asks`,
  `Resumes`).
- `AsksWithinBudget`. `BudgetInv`: every answer and every wait given up was for another of the requests
  the budget has counted, and the one that is out is not among them.
- `NoStaleFrame`. `FrameInv`: the flag is up exactly while an invalidation has been folded and not
  consumed, and a default frame is no older than the last invalidation consumed, unless an explicit
  frame hid that one. It rests on `Answering`: a stack that is taken was read after the call began, so
  after everything consumed.
- `FollowsTarget`. `StrayInv`: the default frame is of the stop the target is in, of one it strayed from,
  or an execution is under way and will say which (`Accounted`, `Moving`); and so is the stack on its
  way to a call (`TracedStacks`), although a `resume` may take the target away from both.

`VariableTreeProofs`: `ShowsTree`, for any answers, cycles and budgets. `TreeInv` relates the work list
to the tree: its items stand in the order of the tree (`Ordered`) for entries of which nothing is known
yet (`Stands`); the references above such an entry are those that the items behind it will take off the
path (`Openings`, `Leaves`), so that a cycle is marked where there is one; and each line that is due and
not written is left to an item, is about to be written, or comes after the truncation and after all
that is written (`Good`). Answers are of entries only, and lead to every entry from a root
(`AnswersInv`), so a new answer adds to the tree, in one place, just what the work takes up there. No
induction over the depth of the tree is needed: what lies below an entry is a relation between the
positions that lead to the two.

`SequenceLemmas` proves what `RemoveAt` returns.

Only model-checked:

- Liveness (`CallsEnd`, `StopReturns`, `EndedSessionIsCleanedUp`, `DebugReturns`, `ScannerEnds`,
  `OutputDrained`): out of the prover's reach.

Every invariant and every action property of a passing run is a theorem.

## Plan

Done: the client with its refinement, the state feed, the session lifecycle, the startup of a
session, the breakpoints, and the frames and variables of an inspection; theorems about all of them.

Left: the wait of `resume` for its response, against the same wait of a `continue` that holds
`ds.mu`.

## Not modelled, and why

- Contents: source text, expressions, variables, registers, disassembly, stop reasons and thread
  numbers are data no property tells apart. Formatting of results is wording.
- `FlexInt`, prompts, address and path checks: pure functions with direct unit tests. The log limit
  is one counter under one mutex. `main` wires these together; the mutation audit is a tool for
  developers and not part of the server.
- `info`, `disassemble`, `set-variable`, `restart` beyond what they share with other tools: they
  format an answer. `info` lists the breakpoint cache, and no tool reads the thread and progress caches.
- Launch arguments and the probe of GDB's version: what they select, the startup order, is an input
  of `Startup`.
- The MCP SDK and the adapters: external, modelled as the code uses them. A debug call that waits on
  an adapter that never answers is allowed to wait for ever, as it is in the code.
- `cmd.Wait` is assumed to return after `Kill`, with the copy of standard error it waits for.
- Whether a frame number of one stop names a frame of the next is up to the adapter.
- Wall-clock times (`stopped_ms`, `observed_at`).
