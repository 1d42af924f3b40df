------------------------------- MODULE Startup -------------------------------
(***************************************************************************)
(* The debug tool from the spawn of the adapter to its result: the         *)
(* handshake (initialize, launch or attach, breakpoints, configuration) in *)
(* the orders the adapters ask for, the wait for the first stop, and the   *)
(* rollback of every failure.  DelveSpawn models the spawn of Delve.       *)
(*                                                                         *)
(* debug holds ds.mu throughout.  The requests it writes before a wait are *)
(* part of the step before: a write that fails shows as a wait that fails. *)
(* All its breakpoints are one request (Breakpoints models them), and      *)
(* output and exited events, which only add text to a result, are left out. *)
(***************************************************************************)
EXTENDS DelveSpawn, SequencesExt

CONSTANT MaxStops  \* bound: stops of the debuggee while debug runs

ASSUME MaxStopsAssumption == MaxStops \in Nat \ {0}

VARIABLES
    config,      \* what the caller asked for, and of which adapter
    pc,          \* where debug is
    active,      \* activeSeq: the execution request whose response it waits for
    launchSeen,  \* launchResponseSeen
    seen,        \* what the execution wait has taken: a response, a stop
    outcome,     \* debug's result: "error", "terminated", "stopped" or "entry"
    client,      \* ds.client: "nil", "open" or, after cleanup, "closed"
    registered,  \* the tools the MCP server offers
    rl,          \* the read loop: "none", "read", "callback", "end" or "done"
    readErr,     \* the client's readErr is set
    inbox,       \* messages nobody has taken
    wire,        \* requests on their way to the adapter
    stream,      \* messages on their way from it
    launch,      \* the adapter's launch: "no", "pending", "accepted" or "refused"
    placed,      \* the adapter has the breakpoints
    target,      \* the debuggee: "none", "running", "stopped" or "ended"
    stops        \* how often it has stopped

callVars    == <<pc, active, launchSeen, seen, outcome>>
sessionVars == <<client, registered>>
loopVars    == <<rl, readErr, inbox>>
adapterVars == <<launch, placed, target, stops>>
linkVars    == <<wire, stream>>
vars == <<spawnVars, config, callVars, sessionVars, loopVars, adapterVars, linkVars>>

Adapters == {"delve", "gdb14", "gdb16"}
Modes    == {"source", "binary", "core", "attach"}

\* GDB has no source mode: it is refused only after initialize.
Configs == [adapter : Adapters, mode : Modes, stopOnEntry : BOOLEAN, breakpoints : BOOLEAN,
            configurationDone : BOOLEAN]

IsGDB == config.adapter # "delve"

\* Fault: every GDB gets its launch first.
LaunchesFirst == FALSE

\* LaunchAfterConfiguration: only the GDB versions that run at launch.
LaunchAfterConfiguration == config.adapter = "gdb14"

\* The stopOnEntry argument of the launch.
StopAtEntry == config.stopOnEntry \/ ~config.breakpoints

Response(of, ok) == [type |-> "response", of |-> of, ok |-> ok, stop |-> 0, reason |-> ""]
Event(type)      == [type |-> type, of |-> "", ok |-> TRUE, stop |-> 0, reason |-> ""]
Stopped(n, why)  == [type |-> "stopped", of |-> "", ok |-> TRUE, stop |-> n, reason |-> why]

NoStop      == [stop |-> 0, reason |-> ""]
NothingSeen == [response |-> FALSE, stop |-> NoStop]

Init ==
    /\ SpawnInit
    /\ config \in {c \in Configs : c.configurationDone \/ c.adapter = "gdb14"}
    /\ pc = "spawn" /\ active = "launch" /\ launchSeen = FALSE
    /\ seen = NothingSeen /\ outcome = "none"
    /\ client = "nil" /\ registered = "debug"
    /\ rl = "none" /\ readErr = FALSE /\ inbox = <<>>
    /\ wire = <<>> /\ stream = <<>>
    /\ launch = "no" /\ placed = FALSE /\ target = "none" /\ stops = 0

------------------------------------------------------------------------------
(* Steps of debug.                                                          *)

Goto(where) == pc' = where
Ask(request) == wire' = Append(wire, request)

\* Fault: the rollback is not armed.
ReturnsAtOnce(result) == Goto("returned") /\ outcome' = result

\* The deferred cleanup, or the explicit one after Terminated.
CleanUpAfter(result) == Goto("cleanup") /\ outcome' = result

\* gdbBackend.Spawn starts a process whose stdout carries the protocol.
SpawnGDB ==
    /\ IsGDB
    /\ spawn = "start"
    /\ \/ child' = "up" /\ spawn' = "running" /\ UNCHANGED readEnd
       \/ spawn' = "failed" /\ readEnd' = FALSE /\ UNCHANGED child
    /\ UNCHANGED <<printed, pipe, scanner, ready>>

NoHandshakeStep == UNCHANGED <<config, callVars, sessionVars, loopVars, adapterVars, linkVars>>

SpawnStep == (IF IsGDB THEN SpawnGDB ELSE StartDelve) /\ NoHandshakeStep
ScanStep  == Scanner /\ NoHandshakeStep

\* Once Delve is the peer of a handshake, AdapterExits is its end.
ChildStep ==
    /\ ~IsGDB
    /\ (\E line \in Lines : Prints(line)) \/ (spawn # "running" /\ ChildExits)
    /\ NoHandshakeStep

SpawnFailed ==
    /\ pc = "spawn"
    /\ spawn = "failed"
    /\ Goto("returned")
    /\ outcome' = "error"
    /\ UNCHANGED <<spawnVars, config, active, launchSeen, seen, sessionVars, loopVars,
                   adapterVars, linkVars>>

\* The connection is refused, or the protocol log cannot be opened.
ConnectFails ==
    /\ pc = "spawn"
    /\ spawn = "running"
    /\ CleanUpAfter("error")
    /\ \/ UNCHANGED <<client, rl>>
       \/ client' = "open" /\ rl' = "read"
    /\ UNCHANGED <<spawnVars, config, active, launchSeen, seen, registered, readErr, inbox,
                   adapterVars, linkVars>>

Connect ==
    /\ pc = "spawn"
    /\ spawn = "running"
    /\ client' = "open"
    /\ rl' = "read"
    /\ Ask("initialize")
    /\ Goto("initialize")
    /\ UNCHANGED <<spawnVars, config, active, launchSeen, seen, outcome, registered, readErr,
                   inbox, adapterVars, stream>>

------------------------------------------------------------------------------
(* Waits: each takes the first queued message it asks for.                  *)

Waits == {"initialize", "initialized", "breakpoints", "configure", "launch",
          "first", "execution", "stackTrace"}

\* The request whose response the wait is for.
Awaited == CASE pc \in {"first", "execution"} -> active
             [] pc \in {"initialized", "launch"} -> "launch"
             [] pc = "configure" -> "configurationDone"
             [] OTHER -> pc

\* Before the launch is sent, launchSeq matches no response.
Wanted(m) ==
    \/ m.type = "response" /\ m.of = Awaited
    \/ m.type = "initialized" /\ pc = "initialized"
    \/ m.type \in {"stopped", "terminated"} /\ pc \in {"first", "execution"}

Matching == {i \in 1..Len(inbox) : pc \in Waits /\ Wanted(inbox[i])}

\* waitMessageContext takes the first match, here one of a type.
Take(type, ok, i) ==
    /\ i \in Matching
    /\ \A j \in Matching : i <= j
    /\ inbox[i].type = type /\ inbox[i].ok = ok
    /\ inbox' = RemoveAt(inbox, i)

Answered(ok) == \E i \in 1..Len(inbox) : Take("response", ok, i)

\* What no step of the handshake changes.
Elsewhere == UNCHANGED <<spawnVars, config, client, rl, readErr, adapterVars, stream>>

\* The entry path: debug takes the entry stop without waiting for it.
EntryPath == config.mode # "core" /\ StopAtEntry /\ ~IsGDB

\* An error rolls the session back; at the entry stop debug does without the stack.
Fail == IF pc = "stackTrace" /\ EntryPath
        THEN Goto("returned") /\ outcome' = "entry"
        ELSE CleanUpAfter("error")

\* readErr is reported when nothing queued matches.
WaitFails ==
    /\ pc \in Waits
    /\ readErr /\ Matching = {}
    /\ Fail
    /\ Elsewhere /\ UNCHANGED <<active, launchSeen, seen, registered, inbox, wire>>

Cancel ==
    /\ pc \in Waits
    /\ Fail
    /\ Elsewhere /\ UNCHANGED <<active, launchSeen, seen, registered, inbox, wire>>

Refused ==
    /\ Answered(FALSE)
    /\ Fail
    /\ Elsewhere /\ UNCHANGED <<active, launchSeen, seen, registered, wire>>

\* LaunchArgs may refuse the mode; the launch goes out now or after the configuration.
InitializeAnswered ==
    /\ pc = "initialize"
    /\ Answered(TRUE)
    /\ CASE IsGDB /\ config.mode = "source" -> CleanUpAfter("error") /\ UNCHANGED wire
         [] LaunchAfterConfiguration -> Goto("initialized") /\ UNCHANGED <<outcome, wire>>
         [] OTHER -> Goto("initialized") /\ Ask("launch") /\ UNCHANGED outcome
    /\ Elsewhere /\ UNCHANGED <<active, launchSeen, seen, registered>>

\* The answer to the launch overtakes the initialized event: it is remembered.
LaunchAnsweredFirst ==
    /\ pc = "initialized"
    /\ Answered(TRUE)
    /\ launchSeen' = TRUE
    /\ Elsewhere /\ UNCHANGED <<pc, active, seen, outcome, registered, wire>>

------------------------------------------------------------------------------
(* Configuration, and what debug waits for after it.                        *)

\* A core and GDB stop by themselves; with breakpoints the first stop may be an
\* entry stop; otherwise Delve has sent its entry stop already.
AfterConfiguration ==
    CASE EntryPath -> IF launchSeen THEN "take" ELSE "launch"
      [] config.mode # "core" /\ ~StopAtEntry -> "first"
      [] OTHER -> "execution"

\* Fault: the launch answered before the configuration is awaited again.
ConfiguredAgain ==
    /\ registered' = "session"
    /\ Goto(AfterConfiguration)
    /\ IF LaunchAfterConfiguration THEN Ask("launch") ELSE UNCHANGED wire
    /\ UNCHANGED seen

\* Only the loop for breakpoints knows that the launch is answered already.
Configured ==
    /\ registered' = "session"
    /\ Goto(AfterConfiguration)
    /\ seen' = [seen EXCEPT !.response = launchSeen /\ AfterConfiguration = "first"]
    /\ IF LaunchAfterConfiguration THEN Ask("launch") ELSE UNCHANGED wire

\* configurationDone goes only to an adapter that supports it.
Configure ==
    IF config.configurationDone
    THEN Ask("configurationDone") /\ Goto("configure") /\ UNCHANGED <<registered, seen>>
    ELSE Configured

InitializedEvent ==
    /\ \E i \in Matching : Take("initialized", TRUE, i)
    /\ IF config.breakpoints
       THEN Ask("breakpoints") /\ Goto("breakpoints") /\ UNCHANGED <<registered, seen>>
       ELSE Configure
    /\ Elsewhere /\ UNCHANGED <<active, launchSeen, outcome>>

BreakpointsSet ==
    /\ pc = "breakpoints"
    /\ Answered(TRUE)
    /\ Configure
    /\ Elsewhere /\ UNCHANGED <<active, launchSeen, outcome>>

ConfigurationAnswered ==
    /\ pc = "configure"
    /\ Answered(TRUE)
    /\ Configured
    /\ Elsewhere /\ UNCHANGED <<active, launchSeen, outcome>>

------------------------------------------------------------------------------
(* The first stop.                                                          *)

\* getStopContext asks for the stack when a response and a stop have been taken.
Report ==
    IF seen'.response /\ seen'.stop # NoStop
    THEN Ask("stackTrace") /\ Goto("stackTrace")
    ELSE UNCHANGED <<pc, wire>>

ResponseTaken ==
    /\ pc \in {"first", "execution"}
    /\ Answered(TRUE)
    /\ seen' = [seen EXCEPT !.response = TRUE]
    /\ Report
    /\ Elsewhere /\ UNCHANGED <<active, launchSeen, outcome, registered>>

\* Fault: only an entry stop is passed over.
PassesEntryOnly(reason) == pc = "first" /\ reason = "entry"

\* In the loop for breakpoints, the stop debug continues from.
PassesOver(reason) ==
    /\ pc = "first"
    /\ reason = "entry" \/ (config.mode = "attach" /\ reason = "attach")

StopTaken ==
    /\ \E i \in Matching : LET m == inbox[i] IN
         /\ Take("stopped", TRUE, i)
         /\ IF PassesOver(m.reason)
            THEN /\ Ask("continue")
                 /\ active' = "continue"
                 /\ seen' = NothingSeen
                 /\ UNCHANGED pc
            ELSE /\ seen' = [seen EXCEPT !.stop = [stop |-> m.stop, reason |-> m.reason]]
                 /\ Report
                 /\ UNCHANGED active
    /\ Elsewhere /\ UNCHANGED <<launchSeen, outcome, registered>>

TerminatedTaken ==
    /\ \E i \in Matching : Take("terminated", TRUE, i)
    /\ CleanUpAfter("terminated")
    /\ Elsewhere /\ UNCHANGED <<active, launchSeen, seen, registered, wire>>

\* The entry path of Delve: its launch is answered before debug goes on.
LaunchAnswered ==
    /\ pc = "launch"
    /\ Answered(TRUE)
    /\ Goto("take")
    /\ Elsewhere /\ UNCHANGED <<active, launchSeen, seen, outcome, registered, wire>>

\* Fault: the entry stop stays queued.
LeavesEntryStop == UNCHANGED <<inbox, seen>>

\* takeMessage: a stop that is queued is taken, none is waited for.
TakeEntryStop ==
    LET queued == {i \in 1..Len(inbox) : inbox[i].type = "stopped"} IN
    IF queued = {} THEN UNCHANGED <<inbox, seen>>
    ELSE \E i \in queued :
         /\ \A j \in queued : i <= j
         /\ inbox' = RemoveAt(inbox, i)
         /\ seen' = [seen EXCEPT !.stop = [stop |-> inbox[i].stop, reason |-> inbox[i].reason]]

AtEntryStop ==
    /\ pc = "take"
    /\ TakeEntryStop
    /\ Ask("stackTrace")
    /\ Goto("stackTrace")
    /\ Elsewhere /\ UNCHANGED <<active, launchSeen, outcome, registered>>

StackRead ==
    /\ pc = "stackTrace"
    /\ Answered(TRUE)
    /\ Goto("returned")
    /\ outcome' = IF EntryPath THEN "entry" ELSE "stopped"
    /\ Elsewhere /\ UNCHANGED <<active, launchSeen, seen, registered, wire>>

------------------------------------------------------------------------------
(* cleanupLocked and the read loop.                                         *)

\* The client is closed, the tools are taken back, the adapter is killed and reaped.
EndSession ==
    /\ client' = IF client = "open" THEN "closed" ELSE client
    /\ registered' = "debug"
    /\ child' = "reaped" /\ readEnd' = FALSE

CleanUp ==
    /\ pc = "cleanup"
    /\ EndSession
    /\ Goto("returned")
    /\ UNCHANGED <<spawn, printed, pipe, scanner, ready, config, active, launchSeen, seen,
                   outcome, loopVars, adapterVars, linkVars>>

Deliver ==
    /\ rl = "read"
    /\ stream # <<>>
    /\ inbox' = Append(inbox, Head(stream))
    /\ stream' = Tail(stream)
    /\ rl' = IF Head(stream).type = "terminated" THEN "callback" ELSE "read"
    /\ UNCHANGED <<spawnVars, config, callVars, sessionVars, readErr, adapterVars, wire>>

\* What is still in the transport may be lost.
ReadFails ==
    /\ rl = "read"
    /\ client = "closed" \/ child # "up"
    /\ readErr' = TRUE
    /\ rl' = "end"
    /\ stream' = <<>>
    /\ UNCHANGED <<spawnVars, config, callVars, sessionVars, inbox, adapterVars, wire>>

\* handleClientEnd needs ds.mu, which debug holds until it returns.
ClientEnded ==
    /\ rl \in {"callback", "end"}
    /\ pc = "returned"
    /\ rl' = IF rl = "callback" THEN "read" ELSE "done"
    /\ IF client = "open" THEN EndSession ELSE UNCHANGED <<sessionVars, child, readEnd>>
    /\ UNCHANGED <<spawn, printed, pipe, scanner, ready, config, callVars, readErr, inbox,
                   adapterVars, linkVars>>

------------------------------------------------------------------------------
(* The adapters (external): they serve requests in order.                   *)

Serves(request) ==
    /\ child = "up" /\ client = "open"
    /\ wire # <<>> /\ Head(wire) = request
    /\ wire' = Tail(wire)
    /\ UNCHANGED <<spawnVars, config, callVars, sessionVars, loopVars>>

Says(messages) == stream' = stream \o messages
EitherOrder(m, n) == Says(<<m, n>>) \/ Says(<<n, m>>)

Refuses(request) ==
    /\ Serves(request)
    /\ Says(<<Response(request, FALSE)>>)
    /\ launch' = IF request = "launch" THEN "refused" ELSE launch
    /\ UNCHANGED <<placed, target, stops>>

ServesInitialize ==
    /\ Serves("initialize")
    /\ Says(IF IsGDB THEN <<Response("initialize", TRUE), Event("initialized")>>
            ELSE <<Response("initialize", TRUE)>>)
    /\ UNCHANGED adapterVars

\* Delve answers at once, in either order; GDB 14 starts the program; GDB 16 defers
\* the answer to configurationDone.
ServesLaunch ==
    /\ Serves("launch")
    /\ CASE config.adapter = "delve" ->
              /\ EitherOrder(Event("initialized"), Response("launch", TRUE))
              /\ launch' = "accepted"
              /\ UNCHANGED target
         [] config.adapter = "gdb14" ->
              /\ Says(<<Response("launch", TRUE)>>)
              /\ launch' = "accepted"
              /\ target' = "running"
         [] OTHER ->
              /\ launch' = "pending"
              /\ UNCHANGED <<stream, target>>
    /\ UNCHANGED <<placed, stops>>

ServesBreakpoints ==
    /\ Serves("breakpoints")
    /\ Says(<<Response("breakpoints", TRUE)>>)
    /\ placed' = TRUE
    /\ UNCHANGED <<launch, target, stops>>

\* Delve reports the entry stop before its answer, or lets the program run; GDB 14
\* does nothing; GDB 16 needs a launch, and carries it out or refuses it.
ServesConfigurationDone ==
    /\ Serves("configurationDone")
    /\ LET done == Response("configurationDone", TRUE) IN
       CASE config.adapter = "delve" ->
              \/ /\ Says(<<Stopped(1, "entry"), done>>)
                 /\ target' = "stopped" /\ stops' = 1
                 /\ UNCHANGED launch
              \/ /\ ~StopAtEntry /\ config.mode # "core"
                 /\ Says(<<done>>)
                 /\ target' = "running"
                 /\ UNCHANGED <<launch, stops>>
         [] config.adapter = "gdb14" -> Says(<<done>>) /\ UNCHANGED <<launch, target, stops>>
         [] OTHER ->
              /\ launch = "pending"
              /\ \E ok \in BOOLEAN :
                   /\ EitherOrder(done, Response("launch", ok))
                   /\ launch' = IF ok THEN "accepted" ELSE "refused"
                   /\ target' = IF ok THEN "running" ELSE "none"
              /\ UNCHANGED stops
    /\ UNCHANGED placed

ServesContinue ==
    /\ Serves("continue")
    /\ Says(<<Response("continue", target = "stopped")>>)
    /\ target' = IF target = "stopped" THEN "running" ELSE target
    /\ UNCHANGED <<launch, placed, stops>>

ServesStackTrace ==
    /\ Serves("stackTrace")
    /\ Says(<<Response("stackTrace", TRUE)>>)
    /\ UNCHANGED adapterVars

\* Where a target that has just been started stops without a breakpoint.
FirstReasons ==
    IF config.mode = "attach" /\ IsGDB THEN {"attach"}
    ELSE IF config.mode = "core" THEN {"core"}
    ELSE IF StopAtEntry THEN {"entry"} ELSE {"breakpoint"}

TargetStops ==
    /\ child = "up" /\ client = "open"
    /\ target = "running"
    /\ stops < MaxStops
    /\ stops' = stops + 1
    /\ target' = "stopped"
    /\ \E why \in IF stops = 0 THEN FirstReasons ELSE {"breakpoint"} : Says(<<Stopped(stops', why)>>)
    /\ UNCHANGED <<spawnVars, config, callVars, sessionVars, loopVars, launch, placed, wire>>

\* It runs to its end, or is killed while it is stopped.
TargetTerminates ==
    /\ child = "up" /\ client = "open"
    /\ target \in {"running", "stopped"}
    /\ target' = "ended"
    /\ Says(<<Event("terminated")>>)
    /\ UNCHANGED <<spawnVars, config, callVars, sessionVars, loopVars, launch, placed, stops, wire>>

AdapterExits ==
    /\ spawn = "running"
    /\ child = "up"
    /\ child' = "dead"
    /\ target' = IF target = "none" THEN "none" ELSE "ended"
    /\ wire' = <<>>
    /\ UNCHANGED <<spawn, printed, pipe, readEnd, scanner, ready, config, callVars, sessionVars,
                   loopVars, launch, placed, stops, stream>>

------------------------------------------------------------------------------
Requests == {"initialize", "launch", "breakpoints", "configurationDone", "continue", "stackTrace"}

DebugStep == \/ SpawnFailed \/ ConnectFails \/ Connect
             \/ WaitFails \/ Refused \/ InitializeAnswered \/ LaunchAnsweredFirst
             \/ InitializedEvent \/ BreakpointsSet \/ ConfigurationAnswered
             \/ ResponseTaken \/ StopTaken \/ TerminatedTaken
             \/ LaunchAnswered \/ AtEntryStop \/ StackRead \/ CleanUp
LoopStep  == Deliver \/ ReadFails \/ ClientEnded
Serve     == \/ ServesInitialize \/ ServesLaunch \/ ServesBreakpoints
             \/ ServesConfigurationDone \/ ServesContinue \/ ServesStackTrace
             \/ \E request \in Requests : Refuses(request)

Next == \/ SpawnStep \/ ScanStep \/ ChildStep \/ DebugStep \/ Cancel \/ LoopStep
        \/ Serve \/ TargetStops \/ TargetTerminates \/ AdapterExits

\* debug, its goroutines and the timer run, an adapter that lives answers, and a
\* running program reaches a stop or its end.  Nothing is sure to be cancelled.
Fairness ==
    /\ WF_vars(SpawnStep) /\ WF_vars(ScanStep) /\ WF_vars(DebugStep) /\ WF_vars(LoopStep)
    /\ WF_vars(Serve) /\ WF_vars(target = "running" /\ (TargetStops \/ TargetTerminates))

Spec == Init /\ [][Next]_vars
FairSpec == Spec /\ Fairness

------------------------------------------------------------------------------
(* Properties.                                                              *)

Reasons  == {"", "entry", "attach", "core", "breakpoint"}
Messages == [type : {"response", "initialized", "stopped", "terminated"},
             of : Requests \union {""}, ok : BOOLEAN, stop : 0..MaxStops, reason : Reasons]

CallType ==
    /\ config \in Configs
    /\ pc \in Waits \union {"spawn", "take", "cleanup", "returned"}
    /\ active \in {"launch", "continue"} /\ launchSeen \in BOOLEAN
    /\ seen \in [response : BOOLEAN, stop : [stop : 0..MaxStops, reason : Reasons]]
    /\ outcome \in {"none", "error", "terminated", "stopped", "entry"}

SessionType ==
    /\ client \in {"nil", "open", "closed"} /\ registered \in {"debug", "session"}
    /\ rl \in {"none", "read", "callback", "end", "done"} /\ readErr \in BOOLEAN

AdapterType ==
    /\ launch \in {"no", "pending", "accepted", "refused"} /\ placed \in BOOLEAN
    /\ target \in {"none", "running", "stopped", "ended"} /\ stops \in 0..MaxStops

LinkType == inbox \in Seq(Messages) /\ stream \in Seq(Messages) /\ wire \in Seq(Requests)

TypeOK == SpawnTypeOK /\ CallType /\ SessionType /\ AdapterType /\ LinkType

\* A debug call that reports an error or the end of the program leaves no client, no
\* session tools and no adapter process or pipe behind, wherever it stopped: in the
\* race of startDelve, on the way to a client, or at any message of the handshake
\* (backend.go:119-124, tools_execution.go:366-371 and 608-612).
FailedStartLeavesNothing ==
    pc = "returned" /\ outcome \in {"error", "terminated"} =>
        /\ client # "open" /\ registered = "debug"
        /\ child \in {"none", "reaped"} /\ ~readEnd

\* No adapter runs the debuggee before it has the breakpoints debug was called with,
\* although one starts it at the launch, one at configurationDone and one at
\* whichever comes last (tools_execution.go:483-490 and 545-558).
BreakpointsBeforeRun == config.breakpoints /\ target # "none" => placed

\* A stop that debug reports is the last one of a debuggee whose launch was accepted,
\* and a debug called to reach its breakpoints reports neither the entry stop nor the
\* stop of the attach (tools_execution.go:580-630).
ReportsItsStop ==
    pc = "returned" /\ outcome = "stopped" =>
        /\ launch = "accepted"
        /\ seen.stop.stop = stops
        /\ ~StopAtEntry /\ config.mode # "core" => seen.stop.reason = "breakpoint"

\* debug leaves no stopped event behind that a later continue would take for its own
\* stop, although at Delve's entry it takes the stop without waiting for it
\* (tools_execution.go:635-671).
NoStopLeftBehind ==
    pc = "returned" /\ outcome \in {"stopped", "entry"} =>
        \A i \in 1..Len(inbox \o stream) : (inbox \o stream)[i].type # "stopped"

\* The wait for a core or for GDB's stop asks for an answer that was taken before.
LaunchAnswerLost == pc = "execution" /\ launchSeen /\ ~seen.response

\* The read loop waits for ds.mu and debug for what the read loop would bring.
Blocked == rl = "callback" /\ pc \in Waits /\ Matching = {}

\* debug returns without being cancelled, whether Delve announces its address or not,
\* in whichever order the adapter answers, with two exceptions: the answer to the
\* launch of a core that overtook initialized is awaited again, and the callback for
\* Terminated blocks the read loop (backend.go:110-118, tools_execution.go:502-680).
DebugReturns == pc # "returned" ~> pc = "returned" \/ LaunchAnswerLost \/ Blocked

\* The scanner goroutine ends when the adapter is reaped, even if startDelve has given
\* up and will never receive its result (backend.go:84-109).
ScannerEnds == child = "reaped" ~> scanner \in {"none", "done"}

\* Delve is never blocked for good on its standard output, before the announcement and
\* after it (backend.go:87-101).
OutputDrained ==
    Len(pipe) = PipeSize ~> Len(pipe) < PipeSize \/ child # "up"
==============================================================================
