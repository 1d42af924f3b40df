----------------------------- MODULE DebugSession -----------------------------
(***************************************************************************)
(* The life of debugger sessions: the tools as concurrent calls, the       *)
(* session lock ds.mu, the control client that pause and stop use without  *)
(* it, the read loop of every client with its synchronous callback into    *)
(* the session, cleanupLocked, and the registration of the MCP tools.      *)
(*                                                                         *)
(* What DAPClient and DebugState model is abstracted here: a wait is one   *)
(* step that is enabled when the inbox holds a match, sendMu and the       *)
(* published state do not appear, and the answer to a call that has been   *)
(* given up is dropped instead of staying in the inbox.  The startup       *)
(* handshake of debug() is one launch request and its response.  A debug   *)
(* call that stays at the entry takes the entry stop without waiting once  *)
(* it has the response: Delve sends the stop first, nobody but debug,      *)
(* which holds ds.mu, takes stops, and so the two are one message here     *)
(* (Startup tells them apart).  The continue that another debug call sends *)
(* from the entry to its first breakpoint is part of the target's start.   *)
(***************************************************************************)
EXTENDS Naturals, Sequences, FiniteSets, SequencesExt

CONSTANTS Tools,        \* concurrent MCP calls
          Offered,      \* bound: the tools the MCP client calls
          Stoppers,     \* bound: the calls that are only ever stop
          NoOne,        \* nobody: the free lock, the addressee of a given-up answer
          MaxSessions,  \* bound: sessions started
          MaxStops      \* bound: stops of one target after the one at its entry, number 0

ASSUME SessionAssumption ==
    /\ MaxSessions \in Nat /\ MaxStops \in Nat /\ Stoppers \subseteq Tools
    /\ Tools \intersect 1..MaxSessions = {} /\ NoOne \notin Tools \union 1..MaxSessions
    /\ Offered \subseteq {"debug", "continue", "request", "detach", "pause", "stop"}

Clients == 1..MaxSessions

VARIABLES
    mu,         \* holder of ds.mu: a call, a client's read loop, or NoOne
    client,     \* ds.client, 0 for nil
    control,    \* ds.controlClient, 0 for nil
    registered, \* which tools the MCP server offers: "debug" or "session"
    started,    \* number of clients created
    cleaning,   \* how far the lock holder is in cleanupLocked, or "no"
    after,      \* what the holder does after cleanupLocked
    doomed,     \* the client cleanupLocked took out of the session
    pc, op, on, \* each call: where it is, its tool, the client it talks to
    seen,       \* each execution wait: what it has taken so far
    closed,     \* closed[c]: closeOnce has run
    rl,         \* rl[c]: where the read loop is
    readErr,    \* readErr[c]
    inbox,      \* inbox[c]
    asked,      \* asked[c]: requests the adapter has not answered
    stream,     \* stream[c]: adapter messages in the transport
    target,     \* target[c]: what the debuggee does
    stops,      \* stops[c]: how often it has stopped
    gone        \* gone[c]: the adapter process is over

lockVars    == <<mu, cleaning, after, doomed>>
sessionVars == <<client, control, registered, started>>
callVars    == <<pc, op, on, seen>>
clientVars  == <<closed, rl, readErr, inbox>>
adapterVars == <<asked, stream, target, stops, gone>>
vars == <<lockVars, sessionVars, callVars, clientVars, adapterVars>>

ControlOps == {"pause", "stop"}

Response(t, ok, stop) == [type |-> "response", to |-> t, ok |-> ok, stop |-> stop]
Event(type, stop)     == [type |-> type, to |-> NoOne, ok |-> TRUE, stop |-> stop]

NothingSeen == [response |-> FALSE, left |-> 0, stopped |-> FALSE, stop |-> 0]

Init ==
    /\ mu = NoOne /\ cleaning = "no" /\ after = "return" /\ doomed = 0
    /\ client = 0 /\ control = 0 /\ registered = "debug" /\ started = 0
    /\ pc = [t \in Tools |-> "idle"]
    /\ op = [t \in Tools |-> "none"]
    /\ on = [t \in Tools |-> 0]
    /\ seen = [t \in Tools |-> NothingSeen]
    /\ closed = [c \in Clients |-> FALSE]
    /\ rl = [c \in Clients |-> "none"]
    /\ readErr = [c \in Clients |-> FALSE]
    /\ inbox = [c \in Clients |-> <<>>]
    /\ asked = [c \in Clients |-> {}]
    /\ stream = [c \in Clients |-> <<>>]
    /\ target = [c \in Clients |-> "none"]
    /\ stops = [c \in Clients |-> 0]
    /\ gone = [c \in Clients |-> FALSE]

------------------------------------------------------------------------------
(* Steps every call is made of.                                             *)

\* mu.Lock().
Acquire(t) == pc[t] = "lock" /\ mu = NoOne

\* A call that returns gives up its requests and the lock if it holds it.  Of a
\* request that was given up only its effect on the target is left, and its answer,
\* if it is on its way (there is one at most), is read by nobody.
Drop(t, s) ==
    IF \E i \in 1..Len(s) : s[i].to = t
    THEN RemoveAt(s, CHOOSE i \in 1..Len(s) : s[i].to = t) ELSE s

\* Fault: the answer to a call that has returned goes to the next one.
GivenKept(t, q) == q

Given(t, q) == [q EXCEPT !.to = IF @ = t THEN NoOne ELSE @]
Effects     == {"launch", "entry", "continue", "pause", "disconnect"}
Forget(t) ==
    /\ asked' = [c \in Clients |->
                   {Given(t, q) : q \in {r \in asked[c] : r.to = t => r.command \in Effects}}]
    /\ stream' = [c \in Clients |-> Drop(t, stream[c])]
    /\ inbox' = [c \in Clients |-> Drop(t, inbox[c])]

Return(t) ==
    /\ pc' = [pc EXCEPT ![t] = "idle"]
    /\ on' = [on EXCEPT ![t] = 0]
    /\ seen' = [seen EXCEPT ![t] = NothingSeen]
    /\ mu' = IF mu = t THEN NoOne ELSE mu
    /\ op' = [op EXCEPT ![t] = "none"]
    /\ Forget(t)
    /\ UNCHANGED <<cleaning, after, doomed>>

\* The holder enters cleanupLocked and does next afterwards.
CleanUp(p, next) == mu' = p /\ cleaning' = "retire" /\ after' = next /\ UNCHANGED doomed

\* t writes a request to client c and waits for the answer in state where.
Ask(t, c, command, where) ==
    /\ asked' = [asked EXCEPT ![c] = @ \union {[command |-> command, to |-> t]}]
    /\ pc' = [pc EXCEPT ![t] = where]
    /\ on' = [on EXCEPT ![t] = c]

------------------------------------------------------------------------------
(* The MCP server dispatches a call to a registered tool.                   *)

Call(t, tool) ==
    /\ pc[t] = "idle"
    /\ tool = "debug" <=> registered = "debug"
    /\ op' = [op EXCEPT ![t] = tool]
    /\ pc' = [pc EXCEPT ![t] = IF tool \in ControlOps THEN "control" ELSE "lock"]
    /\ UNCHANGED <<on, seen, lockVars, sessionVars, clientVars, adapterVars>>

\* Every tool but debug reports that the debugger is not started.
NotStarted(t) ==
    /\ Acquire(t)
    /\ op[t] # "debug"
    /\ client = 0
    /\ Return(t)
    /\ UNCHANGED <<sessionVars, closed, rl, readErr, target, stops, gone>>

------------------------------------------------------------------------------
(* debug.                                                                   *)

\* Fault: a session whose transport is closed is taken for cleaned up.
DebugTrustsClose(t) ==
    /\ Acquire(t)
    /\ op[t] = "debug"
    /\ IF client # 0 /\ closed[client]
       THEN mu' = t /\ pc' = [pc EXCEPT ![t] = "spawn"] /\ UNCHANGED <<cleaning, after, doomed>>
       ELSE CleanUp(t, "spawn") /\ pc' = [pc EXCEPT ![t] = "cleanup"]
    /\ UNCHANGED <<op, on, seen, sessionVars, clientVars, adapterVars>>

\* A session that is still there is cleaned up first.
Debug(t) ==
    /\ Acquire(t)
    /\ op[t] = "debug"
    /\ CleanUp(t, "spawn")
    /\ pc' = [pc EXCEPT ![t] = "cleanup"]
    /\ UNCHANGED <<op, on, seen, sessionVars, clientVars, adapterVars>>

\* The parameters are rejected, or no adapter can be spawned or reached.
DebugFails(t) ==
    /\ pc[t] = "spawn"
    /\ Return(t)
    /\ UNCHANGED <<sessionVars, closed, rl, readErr, target, stops, gone>>

\* A launch runs to the first breakpoint or another stop, or stays at the entry.
Spawn(t) ==
    /\ pc[t] = "spawn"
    /\ started < MaxSessions
    /\ started' = started + 1
    /\ client' = started'
    /\ control' = started'
    /\ rl' = [rl EXCEPT ![started'] = "read"]
    /\ \E path \in {"launch", "entry"} : Ask(t, started', path, path)
    /\ UNCHANGED <<op, seen, registered, lockVars, closed, readErr, inbox,
                   stream, target, stops, gone>>

------------------------------------------------------------------------------
(* What a call that waits can take.                                         *)

Waiting(t) == pc[t] \in {"launch", "entry", "wait", "answer"}

\* Execution waits match their own response and any stop or termination.
Matches(t) ==
    {i \in 1..Len(inbox[on[t]]) :
        LET m == inbox[on[t]][i] IN
        \/ m.type = "response" /\ m.to = t
        \/ m.type \in {"stopped", "terminated"} /\ pc[t] = "wait"}

\* waitMessageContext takes the first match.
First(t, i) == i \in Matches(t) /\ \A j \in Matches(t) : i <= j

\* Fault: a debug call that fails keeps its session.
GiveUpWithoutRollback(t) ==
    IF op[t] = "stop"
    THEN pc' = [pc EXCEPT ![t] = "close"] /\ Forget(t) /\ UNCHANGED <<op, on, seen, lockVars>>
    ELSE IF op[t] = "detach"
         THEN CleanUp(t, "return") /\ pc' = [pc EXCEPT ![t] = "cleanup"] /\ Forget(t)
              /\ UNCHANGED <<op, on, seen>>
         ELSE Return(t)

\* debug at the entry stop does without the stack it asked for.
AtEntry(t) == op[t] = "debug" /\ pc[t] \in {"context", "answer"} /\ ~seen[t].stopped

\* A call that gets no answer: debug rolls back, detach cleans up all the same,
\* stop goes on to close the transport, every other tool returns the error.
GiveUp(t) ==
    IF op[t] = "stop"
    THEN pc' = [pc EXCEPT ![t] = "close"] /\ Forget(t) /\ UNCHANGED <<op, on, seen, lockVars>>
    ELSE IF op[t] = "detach" \/ (op[t] = "debug" /\ ~AtEntry(t))
         THEN CleanUp(t, "return") /\ pc' = [pc EXCEPT ![t] = "cleanup"] /\ Forget(t)
              /\ UNCHANGED <<op, on, seen>>
         ELSE Return(t)

\* The transport failed and nothing queued matches.
WaitFails(t) ==
    /\ Waiting(t)
    /\ readErr[on[t]]
    /\ Matches(t) = {}
    /\ GiveUp(t)
    /\ UNCHANGED <<sessionVars, closed, rl, readErr, target, stops, gone>>

\* The caller cancels, or the two seconds of stop are over.
Cancel(t) ==
    /\ Waiting(t)
    /\ GiveUp(t)
    /\ UNCHANGED <<sessionVars, closed, rl, readErr, target, stops, gone>>

\* The response to t's own request where it waits for nothing else.
Answer(t, ok) ==
    /\ pc[t] \in {"launch", "entry", "answer"}
    /\ \E i \in Matches(t) : inbox[on[t]][i].ok = ok

LaunchRefused(t) ==
    /\ pc[t] \in {"launch", "entry"}
    /\ Answer(t, FALSE)
    /\ GiveUp(t)
    /\ UNCHANGED <<sessionVars, closed, rl, readErr, target, stops, gone>>

RegisterSessionTools   == registered' = "session"
UnregisterSessionTools == registered' = "debug"

\* The session tools may appear before the adapter has answered the launch.
Configured(t) ==
    /\ pc[t] \in {"launch", "entry"}
    /\ registered = "debug"
    /\ RegisterSessionTools
    /\ \/ UNCHANGED pc
       \/ pc[t] = "launch" /\ pc' = [pc EXCEPT ![t] = "wait"]
    /\ UNCHANGED <<op, on, seen, lockVars, client, control, started, clientVars, adapterVars>>

\* They have appeared at the latest when debug goes on: it waits for a stop, or, once it
\* has taken the entry stop with the response, only for the stack.
Launched(t) ==
    /\ pc[t] \in {"launch", "entry"}
    /\ Answer(t, TRUE)
    /\ RegisterSessionTools
    /\ pc' = [pc EXCEPT ![t] = IF @ = "launch" THEN "wait" ELSE "context"]
    /\ seen' = [seen EXCEPT ![t].response = TRUE]
    /\ Forget(t)
    /\ UNCHANGED <<op, on, lockVars, client, control, started, closed, rl, readErr,
                   target, stops, gone>>

------------------------------------------------------------------------------
(* continue and step (and debug's wait for its first breakpoint).           *)

Execute(t) ==
    /\ Acquire(t)
    /\ op[t] = "continue"
    /\ client # 0
    /\ ~closed[client]
    /\ mu' = t
    /\ Ask(t, client, "continue", "wait")
    /\ UNCHANGED <<op, seen, cleaning, after, doomed, sessionVars, clientVars,
                   stream, target, stops, gone>>

\* waitForStopOrTermination takes the response and a stop in either order.
TakeResponse(t) ==
    /\ pc[t] = "wait"
    /\ \E i \in Matches(t) : LET m == inbox[on[t]][i] IN
         /\ First(t, i)
         /\ m.type = "response"
         /\ IF m.ok
            THEN /\ seen' = [seen EXCEPT ![t].response = TRUE, ![t].left = m.stop]
                 /\ pc' = IF seen[t].stopped THEN [pc EXCEPT ![t] = "context"] ELSE pc
                 /\ inbox' = [inbox EXCEPT ![on[t]] = RemoveAt(@, i)]
                 /\ UNCHANGED <<op, on, lockVars, asked, stream>>
            ELSE GiveUp(t)
    /\ UNCHANGED <<sessionVars, closed, rl, readErr, target, stops, gone>>

TakeStop(t) ==
    /\ pc[t] = "wait"
    /\ \E i \in Matches(t) : LET m == inbox[on[t]][i] IN
         /\ First(t, i)
         /\ m.type = "stopped"
         /\ seen' = [seen EXCEPT ![t].stopped = TRUE, ![t].stop = m.stop]
         /\ pc' = IF seen[t].response THEN [pc EXCEPT ![t] = "context"] ELSE pc
         /\ inbox' = [inbox EXCEPT ![on[t]] = RemoveAt(@, i)]
    /\ UNCHANGED <<op, on, lockVars, sessionVars, closed, rl, readErr, adapterVars>>

TakeTerminated(t) ==
    /\ pc[t] = "wait"
    /\ \E i \in Matches(t) : First(t, i) /\ inbox[on[t]][i].type = "terminated"
    /\ CleanUp(t, "return")
    /\ pc' = [pc EXCEPT ![t] = "cleanup"]
    /\ Forget(t)
    /\ UNCHANGED <<op, on, seen, sessionVars, closed, rl, readErr, target, stops, gone>>

\* getStopContext asks for the stack while the lock is held.
Context(t) ==
    /\ pc[t] = "context"
    /\ IF closed[on[t]]
       THEN GiveUp(t)
       ELSE /\ Ask(t, on[t], "stackTrace", "answer")
            /\ UNCHANGED <<op, seen, lockVars, inbox, stream>>
    /\ UNCHANGED <<sessionVars, closed, rl, readErr, target, stops, gone>>

------------------------------------------------------------------------------
(* evaluate, context, info and the other tools that send requests and wait  *)
(* for their responses with the lock held; stop with detach.                *)

Request(t) ==
    /\ Acquire(t)
    /\ op[t] \in {"request", "detach"}
    /\ client # 0
    /\ ~closed[client]
    /\ mu' = t
    /\ Ask(t, client, IF op[t] = "detach" THEN "detach" ELSE "evaluate", "answer")
    /\ UNCHANGED <<op, seen, cleaning, after, doomed, sessionVars, clientVars,
                   stream, target, stops, gone>>

\* The write to a closed transport fails; detach cleans up all the same.
WriteFails(t) ==
    /\ Acquire(t)
    /\ op[t] \in {"continue", "request", "detach"}
    /\ client # 0
    /\ closed[client]
    /\ IF op[t] = "detach"
       THEN CleanUp(t, "return") /\ pc' = [pc EXCEPT ![t] = "cleanup"]
            /\ UNCHANGED <<op, on, seen, inbox, asked, stream>>
       ELSE Return(t)
    /\ UNCHANGED <<sessionVars, closed, rl, readErr, target, stops, gone>>

Answered(t) ==
    /\ pc[t] = "answer"
    /\ \E ok \in BOOLEAN :
         /\ Answer(t, ok)
         /\ IF op[t] \in {"stop", "detach"} \/ ~ok THEN GiveUp(t) ELSE Return(t)
    /\ UNCHANGED <<sessionVars, closed, rl, readErr, target, stops, gone>>

------------------------------------------------------------------------------
(* pause and stop start without ds.mu.                                      *)

Pause(t) ==
    /\ pc[t] = "control"
    /\ op[t] = "pause"
    /\ IF control = 0 \/ closed[control]
       THEN Return(t)
       ELSE Ask(t, control, "pause", "answer") /\ UNCHANGED <<op, seen, lockVars, inbox, stream>>
    /\ UNCHANGED <<sessionVars, closed, rl, readErr, target, stops, gone>>

\* A graceful disconnect of the client of the moment, if there is one.
Stop(t) ==
    /\ pc[t] = "control"
    /\ op[t] = "stop"
    /\ CASE control = 0 -> pc' = [pc EXCEPT ![t] = "lock"] /\ UNCHANGED <<on, asked>>
         [] control # 0 /\ closed[control] ->
              /\ pc' = [pc EXCEPT ![t] = "close"]
              /\ on' = [on EXCEPT ![t] = control]
              /\ UNCHANGED asked
         [] OTHER -> Ask(t, control, "disconnect", "answer")
    /\ UNCHANGED <<op, seen, lockVars, sessionVars, clientVars, stream, target, stops, gone>>

\* Fault: the disconnect is trusted to end the transport.
CloseOmitted(c) == UNCHANGED closed

Close(c) == closed' = [closed EXCEPT ![c] = TRUE]

\* Close: the winner of closeOnce runs the end callback itself.
CloseClient(t) ==
    /\ pc[t] = "close"
    /\ Close(on[t])
    /\ pc' = [pc EXCEPT ![t] = IF closed[on[t]] THEN "lock" ELSE "ended"]
    /\ UNCHANGED <<op, on, seen, lockVars, sessionVars, rl, readErr, inbox, adapterVars>>

\* Fault: a late end of an old client tears down the session of the day.
EndsAnySession(c) == client # 0

\* The identity check of handleClientEnd.
EndsSession(c) == client = c

ClientEnded(t) ==
    /\ pc[t] = "ended"
    /\ mu = NoOne
    /\ IF EndsSession(on[t])
       THEN CleanUp(t, "lock") /\ pc' = [pc EXCEPT ![t] = "cleanup"]
       ELSE pc' = [pc EXCEPT ![t] = "lock"] /\ UNCHANGED lockVars
    /\ UNCHANGED <<op, on, seen, sessionVars, clientVars, adapterVars>>

\* The locked half of stop cleans up whatever session there is.
StopLocked(t) ==
    /\ Acquire(t)
    /\ op[t] = "stop"
    /\ client # 0
    /\ CleanUp(t, "return")
    /\ pc' = [pc EXCEPT ![t] = "cleanup"]
    /\ UNCHANGED <<op, on, seen, sessionVars, clientVars, adapterVars>>

------------------------------------------------------------------------------
(* cleanupLocked, run by a call or by a read loop that holds ds.mu.         *)

\* The session tools disappear and, under controlMu and eventMu, the session ends.
Retire ==
    /\ cleaning = "retire"
    /\ UnregisterSessionTools
    /\ doomed' = client
    /\ client' = 0
    /\ control' = 0
    /\ cleaning' = "shutdown"
    /\ UNCHANGED <<mu, after, started, callVars, clientVars, adapterVars>>

\* Fault: nothing is reaped when the transport is closed already.
KillsIfOpen(c) == c = doomed /\ ~closed[c]

Kills(c) == c = doomed

\* shutdown closes without a callback, then the adapter is killed and reaped;
\* the holder goes on, and releases ds.mu unless it is debug.
Reap ==
    /\ cleaning = "shutdown"
    /\ closed' = [c \in Clients |-> closed[c] \/ c = doomed]
    /\ gone' = [c \in Clients |-> gone[c] \/ Kills(c)]
    /\ asked' = [c \in Clients |-> IF c = doomed THEN {} ELSE asked[c]]
    /\ target' = [c \in Clients |-> IF c = doomed THEN "ended" ELSE target[c]]
    /\ stops' = [c \in Clients |-> IF c = doomed THEN 0 ELSE stops[c]]
    /\ cleaning' = "no"
    /\ doomed' = 0
    /\ after' = "return"
    /\ mu' = IF after = "spawn" THEN mu ELSE NoOne
    /\ IF mu \in Tools
       THEN /\ pc' = [pc EXCEPT ![mu] = IF after = "return" THEN "idle" ELSE after]
            /\ on' = [on EXCEPT ![mu] = IF after = "lock" THEN @ ELSE 0]
            /\ op' = [op EXCEPT ![mu] = IF after = "return" THEN "none" ELSE @]
            /\ seen' = [seen EXCEPT ![mu] = NothingSeen]
            /\ UNCHANGED rl
       ELSE /\ rl' = [rl EXCEPT ![mu] = after]
            /\ UNCHANGED callVars
    /\ UNCHANGED <<sessionVars, readErr, inbox, stream>>

------------------------------------------------------------------------------
(* The read loops.                                                          *)

Deliver(c) ==
    /\ rl[c] = "read"
    /\ stream[c] # <<>>
    /\ inbox' = [inbox EXCEPT ![c] = Append(@, Head(stream[c]))]
    /\ stream' = [stream EXCEPT ![c] = Tail(@)]
    /\ rl' = IF Head(stream[c]).type = "terminated" THEN [rl EXCEPT ![c] = "callback"] ELSE rl
    /\ UNCHANGED <<lockVars, sessionVars, callVars, closed, readErr, asked, target, stops, gone>>

\* What is still in the transport may be lost.
ReadFails(c) ==
    /\ rl[c] = "read"
    /\ closed[c] \/ gone[c]
    /\ readErr' = [readErr EXCEPT ![c] = TRUE]
    /\ rl' = [rl EXCEPT ![c] = "end"]
    /\ stream' = [stream EXCEPT ![c] = <<>>]
    /\ UNCHANGED <<lockVars, sessionVars, callVars, closed, inbox, asked, target, stops, gone>>

\* Fault: the read loop returns without a callback.
LoopEndsSilently(c) == "done"

\* end: the winner of closeOnce runs the callback.
LoopEnds(c) == IF closed[c] THEN "done" ELSE "lastCallback"

EndLoop(c) ==
    /\ rl[c] = "end"
    /\ closed' = [closed EXCEPT ![c] = TRUE]
    /\ rl' = [rl EXCEPT ![c] = LoopEnds(c)]
    /\ UNCHANGED <<lockVars, sessionVars, callVars, readErr, inbox, adapterVars>>

\* handleClientEnd on the read loop, after Terminated or at the end.
Callback(c) ==
    /\ rl[c] \in {"callback", "lastCallback"}
    /\ mu = NoOne
    /\ LET next == IF rl[c] = "callback" THEN "read" ELSE "done" IN
       IF EndsSession(c)
       THEN CleanUp(c, next) /\ rl' = [rl EXCEPT ![c] = "cleanup"]
       ELSE rl' = [rl EXCEPT ![c] = next] /\ UNCHANGED lockVars
    /\ UNCHANGED <<sessionVars, callVars, closed, readErr, inbox, adapterVars>>

------------------------------------------------------------------------------
(* The adapters and their targets (external).                               *)

Connected(c) == ~gone[c] /\ ~closed[c]

\* Answers to given-up calls are not sent: nobody would take them.
Sends(c, q, response, events) ==
    /\ asked' = [asked EXCEPT ![c] = @ \ {q}]
    /\ LET answer == IF q.to = NoOne THEN <<>> ELSE <<response>> IN
       stream' \in {[stream EXCEPT ![c] = @ \o answer \o events],
                   [stream EXCEPT ![c] = @ \o events \o answer]}

Serve(c, q) ==
    /\ Connected(c)
    /\ q \in asked[c]
    /\ \/ /\ q.command \in {"launch", "entry"}
          /\ Sends(c, q, Response(q.to, FALSE, 0), <<>>)
          /\ target' = [target EXCEPT ![c] = "ended"]
          /\ UNCHANGED stops
       \/ /\ q.command = "launch"
          /\ Sends(c, q, Response(q.to, TRUE, 0), <<>>)
          /\ target' = [target EXCEPT ![c] = "running"]
          /\ UNCHANGED stops
       \/ /\ q.command = "entry"
          /\ Sends(c, q, Response(q.to, TRUE, 0), <<>>)
          /\ target' = [target EXCEPT ![c] = "stopped"]
          /\ UNCHANGED stops
       \/ /\ q.command = "continue"
          /\ Sends(c, q, Response(q.to, target[c] = "stopped", stops[c]), <<>>)
          /\ target' = [target EXCEPT ![c] = IF @ = "stopped" THEN "running" ELSE @]
          /\ UNCHANGED stops
       \/ /\ q.command = "pause"
          /\ target[c] = "running"
          /\ stops[c] < MaxStops
          /\ stops' = [stops EXCEPT ![c] = @ + 1]
          /\ target' = [target EXCEPT ![c] = "stopped"]
          /\ Sends(c, q, Response(q.to, TRUE, 0), <<Event("stopped", stops[c] + 1)>>)
       \/ /\ q.command = "pause"
          /\ target[c] # "running"
          /\ Sends(c, q, Response(q.to, FALSE, 0), <<>>)
          /\ UNCHANGED <<target, stops>>
       \/ /\ q.command \in {"evaluate", "stackTrace", "detach"}
          /\ \E ok \in {TRUE, q.command # "stackTrace"} : Sends(c, q, Response(q.to, ok, 0), <<>>)
          /\ UNCHANGED <<target, stops>>
       \/ /\ q.command = "disconnect"
          /\ target[c] # "ended"
          /\ target' = [target EXCEPT ![c] = "ended"]
          /\ Sends(c, q, Response(q.to, TRUE, 0), <<Event("terminated", stops[c])>>)
          /\ UNCHANGED stops
       \/ /\ q.command = "disconnect"
          /\ target[c] = "ended"
          /\ Sends(c, q, Response(q.to, TRUE, 0), <<>>)
          /\ UNCHANGED <<target, stops>>
    /\ UNCHANGED <<lockVars, sessionVars, callVars, clientVars, gone>>

TargetStops(c) ==
    /\ Connected(c)
    /\ target[c] = "running"
    /\ stops[c] < MaxStops
    /\ stops' = [stops EXCEPT ![c] = @ + 1]
    /\ target' = [target EXCEPT ![c] = "stopped"]
    /\ stream' = [stream EXCEPT ![c] = Append(@, Event("stopped", stops[c] + 1))]
    /\ UNCHANGED <<lockVars, sessionVars, callVars, clientVars, asked, gone>>

TargetTerminates(c) ==
    /\ Connected(c)
    /\ target[c] \in {"running", "stopped"}
    /\ target' = [target EXCEPT ![c] = "ended"]
    /\ stream' = [stream EXCEPT ![c] = Append(@, Event("terminated", stops[c]))]
    /\ UNCHANGED <<lockVars, sessionVars, callVars, clientVars, asked, stops, gone>>

AdapterExits(c) ==
    /\ rl[c] # "none"
    /\ Connected(c)
    /\ gone' = [gone EXCEPT ![c] = TRUE]
    /\ asked' = [asked EXCEPT ![c] = {}]
    /\ target' = [target EXCEPT ![c] = "ended"]
    /\ UNCHANGED <<lockVars, sessionVars, callVars, clientVars, stream, stops>>

------------------------------------------------------------------------------
\* With a call kept for stop, fewer interleavings have to be told apart.
OfferedTo(t) == IF t \in Stoppers THEN {"stop"} ELSE Offered

LockStep(t) == \/ NotStarted(t) \/ Debug(t) \/ Execute(t) \/ Request(t) \/ WriteFails(t)
               \/ StopLocked(t) \/ ClientEnded(t)
WaitStep(t) == \/ WaitFails(t) \/ LaunchRefused(t) \/ Launched(t) \/ Answered(t)
               \/ TakeResponse(t) \/ TakeStop(t) \/ TakeTerminated(t)
OwnStep(t)  == \/ DebugFails(t) \/ Spawn(t) \/ Configured(t) \/ Context(t) \/ Pause(t) \/ Stop(t)
               \/ CloseClient(t)
CleanupStep == Retire \/ Reap
LoopStep(c) == Deliver(c) \/ ReadFails(c) \/ EndLoop(c)
Adapter(c)  == \/ \E q \in asked[c] : Serve(c, q)
               \/ TargetStops(c) \/ TargetTerminates(c) \/ AdapterExits(c)

Next == \/ \E t \in Tools : \/ \E tool \in OfferedTo(t) : Call(t, tool)
                            \/ LockStep(t) \/ WaitStep(t) \/ OwnStep(t) \/ Cancel(t)
        \/ CleanupStep
        \/ \E c \in Clients : LoopStep(c) \/ Callback(c) \/ Adapter(c)

\* Goroutines run; sync.Mutex starves no waiter; the wait of stop times out.
\* No other call is certain to be cancelled and the adapters owe nothing.
Fairness ==
    /\ \A t \in Tools : /\ SF_vars(LockStep(t))
                         /\ WF_vars(WaitStep(t) \/ OwnStep(t))
                         /\ WF_vars(op[t] = "stop" /\ Cancel(t))
    /\ WF_vars(CleanupStep)
    /\ \A c \in Clients : WF_vars(LoopStep(c)) /\ SF_vars(Callback(c))

Spec == Init /\ [][Next]_vars
FairSpec == Spec /\ Fairness
------------------------------------------------------------------------------
(* Properties.                                                              *)

Holders == Tools \union Clients

TypeOK ==
    /\ mu \in Holders \union {NoOne}
    /\ client \in 0..MaxSessions /\ control \in 0..MaxSessions
    /\ started \in 0..MaxSessions /\ doomed \in 0..MaxSessions
    /\ registered \in {"debug", "session"}
    /\ cleaning \in {"no", "retire", "shutdown"}
    /\ after \in {"return", "spawn", "lock", "read", "done"}
    /\ pc \in [Tools -> {"idle", "lock", "control", "spawn", "launch", "entry", "wait",
                         "context", "answer", "close", "ended", "cleanup"}]
    /\ op \in [Tools -> Offered \union {"none", "stop"}]
    /\ on \in [Tools -> 0..MaxSessions]
    /\ seen \in [Tools -> [response : BOOLEAN, left : Nat, stopped : BOOLEAN, stop : Nat]]
    /\ rl \in [Clients -> {"none", "read", "callback", "end", "lastCallback", "cleanup", "done"}]
    /\ closed \in [Clients -> BOOLEAN] /\ gone \in [Clients -> BOOLEAN]
    /\ readErr \in [Clients -> BOOLEAN]
    /\ target \in [Clients -> {"none", "running", "stopped", "ended"}]
    /\ stops \in [Clients -> 0..MaxStops]
    /\ \A c \in Clients : \A t \in Tools : Cardinality({q \in asked[c] : q.to = t}) <= 1

\* Whenever the session lock is free, the MCP server offers the session tools if
\* and only if there is a session (tools_execution.go:206-243 and 561).
ToolsMatchSession == mu = NoOne => (registered = "session" <=> client # 0)

\* No failed start, replacement, detach or end leaves an adapter behind: every
\* client but the current one and the one being shut down is closed and its
\* adapter reaped (tools_execution.go:230-242 and 367-371).
AdaptersReaped ==
    \A c \in 1..started : c \notin {client, doomed} => closed[c] /\ gone[c]

\* However late an end callback comes, it cleans up no session but the one whose
\* client ended (tools_execution.go:245-253).
EndCleansItsSession ==
    /\ cleaning = "retire" /\ mu \in Clients => client = mu
    /\ cleaning = "retire" /\ mu \in Tools /\ after = "lock" => client = on[mu]

\* The clients whose adapter is alive.
Running == {c \in 1..started : ~gone[c]}

\* One debugger at a time, whichever calls, callbacks and ends of adapters meet: the
\* sessions implement the life of a session (tools_execution.go:203-258 and 276-420).
Life == INSTANCE SessionLife WITH
    last <- started, session <- client, ending <- doomed, offered <- registered,
    running <- Running

OneDebuggerAtATime == Life!Spec

\* The lock holder waits for something only the read loop can bring, and the read
\* loop waits for the lock.
Blocked(c) ==
    /\ rl[c] = "callback"
    /\ mu \in Tools
    /\ Waiting(mu) /\ on[mu] = c /\ Matches(mu) = {}

\* A call on another session holds the lock: a debug that started after a stop had
\* closed its client waits for an adapter that stop never addressed.
HeldElsewhere(t) == mu \in Tools \ {t} /\ on[mu] \notin {0, on[t]}

\* stop returns, whatever the tool that holds the session lock waits for and even
\* if the adapter never says anything more, except when the callback for
\* Terminated blocks or a newer session holds the lock (tools_execution.go:145-161).
StopReturns ==
    \A t \in Tools :
        op[t] = "stop" /\ pc[t] # "idle"
            ~> pc[t] = "idle" \/ HeldElsewhere(t) \/ \E c \in Clients : Blocked(c)

\* A session whose adapter is gone or whose debuggee has terminated is cleaned up
\* without a call to stop, with the same exception (tools_execution.go:245-258).
EndedSessionIsCleanedUp ==
    \A c \in Clients :
        client = c /\ (gone[c] \/ rl[c] = "callback") ~> client # c \/ Blocked(c)

------------------------------------------------------------------------------
(* What the comments say and the code does not keep.                        *)

\* dap.go:223-225: a tool waiting with the session lock wakes and can release the
\* lock before the callback for Terminated needs it.
HolderWakesForTerminated == \A c \in Clients : ~Blocked(c)

\* tools_control.go:14-16: a control request from an old session never affects a
\* new one.  A stop that found a client takes down no other client's session.
StopEndsItsSession ==
    \A t \in Tools :
        cleaning = "retire" /\ mu = t /\ op[t] = "stop" /\ on[t] # 0
            => client \in {0, on[t]}

\* tools_session.go:249: continue runs "until the next breakpoint or termination".
\* The stop it reports is later than the one its request left.
ContinueReportsItsStop ==
    \A t \in Tools : pc[t] = "context" /\ op[t] = "continue" => seen[t].stop > seen[t].left
==============================================================================
