------------------------------ MODULE DebugState ------------------------------
(***************************************************************************)
(* The published debug state of tools_control.go: how the read loops of    *)
(* the session's clients fold events and execution acknowledgements into   *)
(* it, how debug() and cleanupLocked replace it, and the resume tool that  *)
(* acts on it without the session lock.  What each target really does is   *)
(* part of the model, so that the published state can be compared with it. *)
(*                                                                         *)
(* Client number n is the one the n-th session connects; it is also the    *)
(* generation that session publishes.  A message from the adapter carries  *)
(* the stop it belongs to as a ghost: adapters do not number stops.        *)
(***************************************************************************)
EXTENDS Naturals, Sequences

CONSTANTS MaxSessions,  \* bound: debug calls
          MaxStops,     \* bound: stops of one target
          MaxRequests,  \* bound: execution requests
          Resumers      \* concurrent calls of the resume tool

ASSUME StateAssumption ==
    MaxSessions \in Nat /\ MaxStops \in Nat /\ MaxRequests \in Nat

Clients == 1..MaxSessions

VARIABLES
    phase,     \* how far debug() or cleanupLocked is with the session
    client,    \* ds.client, 0 for nil
    control,   \* ds.controlClient, 0 for nil
    pub,       \* the published state
    handlers,  \* handlers[c]: event handler and observer are not yet installed, "on" or "off"
    closed,    \* closed[c]: the transport is closed
    hand,      \* hand[c]: what c's read loop is about to apply
    resumer,   \* the resume calls in progress
    sent,      \* number of execution requests sent
    wire,      \* wire[c]: requests the adapter has not looked at
    owed,      \* owed[c]: the request the adapter carried out and has not answered
    stream,    \* stream[c]: messages from the adapter
    target,    \* target[c]: what the debuggee does
    stops,     \* stops[c]: how often it has stopped
    overtaken  \* overtaken[c]: a request was dispatched in one stop and carried out in a later one

sessionVars == <<phase, client, control, handlers, closed>>
adapterVars == <<wire, owed, stream, target, stops, overtaken>>
vars == <<sessionVars, pub, hand, resumer, sent, adapterVars>>

States == {"unknown", "running", "stopped", "ended"}
\* Fault: the empty state string is published as it is.
NoSessionRaw == [gen |-> 0, mode |-> "none", state |-> "", seq |-> 0, episode |-> 0]

\* newDebugSessionState: the empty state string is shown as "unknown".
NoSession == [gen |-> 0, mode |-> "none", state |-> "unknown", seq |-> 0, episode |-> 0]

\* Execution requests: gen and episode are what executionAcknowledgement
\* captured, gen 0 when there is no callback; asked is resume's generation.
Request == [gen : 0..MaxSessions, episode : Nat, asked : 0..MaxSessions]
NoRequest == [gen |-> 0, episode |-> 0, asked |-> 0]

Message == [type : {"stopped", "continued", "terminated", "response"},
            stop : Nat, gen : 0..MaxSessions, episode : Nat]
NoMessage == [type |-> "none", stop |-> 0, gen |-> 0, episode |-> 0]
Event(type, stop) == [type |-> type, stop |-> stop, gen |-> 0, episode |-> 0]

Idle == [pc |-> "idle", client |-> 0, asked |-> 0]

Init ==
    /\ phase = "none" /\ client = 0 /\ control = 0
    /\ handlers = [c \in Clients |-> "none"]
    /\ closed = [c \in Clients |-> FALSE]
    /\ pub = NoSession
    /\ hand = [c \in Clients |-> NoMessage]
    /\ resumer = [r \in Resumers |-> Idle]
    /\ sent = 0
    /\ wire = [c \in Clients |-> <<>>]
    /\ owed = [c \in Clients |-> NoMessage]
    /\ stream = [c \in Clients |-> <<>>]
    /\ target = [c \in Clients |-> "running"]
    /\ stops = [c \in Clients |-> 0]
    /\ overtaken = [c \in Clients |-> FALSE]

------------------------------------------------------------------------------
(* debug() and cleanupLocked; both hold ds.mu from start to end.            *)

\* The new client is published to the control tools before its generation.
Connect ==
    /\ phase = "none"
    /\ \E c \in Clients :
         /\ \A d \in Clients : closed[d] <=> d < c
         /\ client' = c
         /\ control' = c
    /\ phase' = "connected"
    /\ UNCHANGED <<pub, handlers, closed, hand, resumer, sent, adapterVars>>

Adopt ==
    /\ phase = "connected"
    /\ \E mode \in {"source", "core"} :
         pub' = [pub EXCEPT !.gen = client, !.mode = mode, !.state = "unknown"]
    /\ phase' = "adopted"
    /\ UNCHANGED <<client, control, handlers, closed, hand, resumer, sent, adapterVars>>

Install ==
    /\ phase = "adopted"
    /\ handlers' = [handlers EXCEPT ![client] = "on"]
    /\ phase' = "live"
    /\ UNCHANGED <<client, control, closed, pub, hand, resumer, sent, adapterVars>>

ClearHandlers ==
    /\ phase \in {"connected", "adopted", "live"}
    /\ handlers' = [handlers EXCEPT ![client] = IF @ = "on" THEN "off" ELSE @]
    /\ phase' = "clearing"
    /\ UNCHANGED <<client, control, closed, pub, hand, resumer, sent, adapterVars>>

\* The state is replaced under controlMu and eventMu, then the client closed.
Replace ==
    /\ phase = "clearing"
    /\ client' = 0
    /\ control' = 0
    /\ pub' = NoSession
    /\ phase' = "replaced"
    /\ UNCHANGED <<handlers, closed, hand, resumer, sent, adapterVars>>

Shutdown ==
    /\ phase = "replaced"
    /\ \E c \in Clients :
         /\ \A d \in Clients : closed[d] <=> d < c
         /\ closed' = [closed EXCEPT ![c] = TRUE]
    /\ phase' = "none"
    /\ UNCHANGED <<client, control, handlers, pub, hand, resumer, sent, adapterVars>>

------------------------------------------------------------------------------
(* Execution requests.                                                      *)

\* executionAcknowledgement, called by issueRequest while it holds sendMu.
Capture(c, asked) ==
    IF handlers[c] = "on" /\ pub.gen = c
    THEN [gen |-> c, episode |-> pub.episode, asked |-> asked]
    ELSE [NoRequest EXCEPT !.asked = asked]

Send(c, asked) ==
    /\ sent < MaxRequests
    /\ sent' = sent + 1
    /\ wire' = [wire EXCEPT ![c] = Append(@, Capture(c, asked))]
    /\ UNCHANGED <<owed, stream, target, stops, overtaken>>

\* continue, step, or a startup continue: a tool that holds ds.mu.
Execute ==
    /\ phase = "live"
    /\ Send(client, 0)
    /\ UNCHANGED <<sessionVars, pub, hand, resumer>>

\* resume: one snapshot under controlMu and eventMu, then the checks.
Snapshot(r, asked) ==
    /\ resumer[r].pc = "idle"
    /\ asked = 0 \/ asked = pub.gen
    /\ pub.mode # "core"
    /\ pub.state = "stopped"
    /\ control # 0
    /\ resumer' = [resumer EXCEPT ![r] = [pc |-> "checked", client |-> control, asked |-> asked]]
    /\ UNCHANGED <<sessionVars, pub, hand, sent, adapterVars>>

\* Fault: the control client is read again when the request is sent.
ResumedClientNow(r) == IF control = 0 THEN resumer[r].client ELSE control

ResumedClient(r) == resumer[r].client

\* The request goes to the client of the snapshot; a closed one refuses it.
Resume(r) ==
    /\ resumer[r].pc = "checked"
    /\ resumer' = [resumer EXCEPT ![r] = Idle]
    /\ IF closed[ResumedClient(r)]
       THEN UNCHANGED <<sent, adapterVars>>
       ELSE Send(ResumedClient(r), resumer[r].asked)
    /\ UNCHANGED <<sessionVars, pub, hand>>

------------------------------------------------------------------------------
(* The read loops: a message is read with the callback that goes with it,   *)
(* the callback then takes eventMu.                                         *)

\* An event is applied only if a handler is installed, a response only if it
\* is a success with a callback.
Read(c) ==
    /\ hand[c] = NoMessage
    /\ stream[c] # <<>>
    /\ LET m == Head(stream[c]) IN
       hand' = [hand EXCEPT ![c] =
                  IF (m.type = "response" /\ m.gen # 0) \/ (m.type # "response" /\ handlers[c] = "on")
                  THEN m ELSE NoMessage]
    /\ stream' = [stream EXCEPT ![c] = Tail(@)]
    /\ UNCHANGED <<sessionVars, pub, resumer, sent, wire, owed, target, stops, overtaken>>

\* Fault: events are not bound to a generation.
CurrentAny(c) == TRUE

\* handleDAPEventForGeneration: the handler belongs to c's generation.
Current(c) == pub.gen = c

\* observeState.
Fold(m) ==
    CASE m.type = "stopped"    -> [pub EXCEPT !.seq = @ + 1, !.state = "stopped", !.episode = @ + 1]
      [] m.type = "continued"  -> [pub EXCEPT !.seq = @ + 1, !.state = "running"]
      [] m.type = "terminated" -> [pub EXCEPT !.seq = @ + 1, !.state = "ended"]

Observe(c) ==
    /\ hand[c].type \in {"stopped", "continued", "terminated"}
    /\ pub' = IF Current(c) THEN Fold(hand[c]) ELSE pub
    /\ hand' = [hand EXCEPT ![c] = NoMessage]
    /\ UNCHANGED <<sessionVars, resumer, sent, adapterVars>>

\* Fault: a stop that arrives before the response does not win.
AckAppliesLate(m) == pub.gen = m.gen /\ pub.state \notin {"ended", "running"}

AckApplies(m) == /\ pub.gen = m.gen
                 /\ pub.episode = m.episode
                 /\ pub.state \notin {"ended", "running"}

\* Fault: the acknowledgement is not given a sequence number.
AcknowledgedSilently == [pub EXCEPT !.state = "running"]

Acknowledged == [pub EXCEPT !.seq = @ + 1, !.state = "running"]

\* The callback of executionAcknowledgement.
RunAck(c) ==
    /\ hand[c].type = "response"
    /\ pub' = IF AckApplies(hand[c]) THEN Acknowledged ELSE pub
    /\ hand' = [hand EXCEPT ![c] = NoMessage]
    /\ UNCHANGED <<sessionVars, resumer, sent, adapterVars>>

------------------------------------------------------------------------------
(* The adapters and their targets (external).  Nothing runs before debug()  *)
(* has installed the handlers and launched; a closed transport carries      *)
(* nothing.                                                                 *)

Started(c) == handlers[c] # "none" /\ ~closed[c]

Stop(c) ==
    /\ Started(c)
    /\ target[c] = "running"
    /\ stops[c] < MaxStops
    /\ target' = [target EXCEPT ![c] = "stopped"]
    /\ stops' = [stops EXCEPT ![c] = @ + 1]
    /\ stream' = [stream EXCEPT ![c] = Append(@, Event("stopped", stops[c] + 1))]
    /\ UNCHANGED <<sessionVars, pub, hand, resumer, sent, wire, owed, overtaken>>

\* A stopped target resumes; the response may follow the next stop, and some
\* adapters also announce the continuation.
CarryOut(c) ==
    /\ Started(c)
    /\ wire[c] # <<>>
    /\ owed[c] = NoMessage
    /\ target[c] = "stopped"
    /\ LET q == Head(wire[c]) IN
       /\ owed' = [owed EXCEPT ![c] = [type |-> "response", stop |-> stops[c],
                                       gen |-> q.gen, episode |-> q.episode]]
       /\ overtaken' = [overtaken EXCEPT ![c] = @ \/ q.episode # stops[c]]
    /\ wire' = [wire EXCEPT ![c] = Tail(@)]
    /\ target' = [target EXCEPT ![c] = "running"]
    /\ \/ stream' = [stream EXCEPT ![c] = Append(@, Event("continued", stops[c]))]
       \/ UNCHANGED stream
    /\ UNCHANGED <<sessionVars, pub, hand, resumer, sent, stops>>

\* The adapter may refuse any request, and does when the target is not stopped:
\* a failed response runs no callback.
Refuse(c) ==
    /\ Started(c)
    /\ wire[c] # <<>>
    /\ owed[c] = NoMessage
    /\ wire' = [wire EXCEPT ![c] = Tail(@)]
    /\ UNCHANGED <<sessionVars, pub, hand, resumer, sent, owed, stream, target, stops, overtaken>>

Respond(c) ==
    /\ Started(c)
    /\ owed[c] # NoMessage
    /\ stream' = [stream EXCEPT ![c] = Append(@, owed[c])]
    /\ owed' = [owed EXCEPT ![c] = NoMessage]
    /\ UNCHANGED <<sessionVars, pub, hand, resumer, sent, wire, target, stops, overtaken>>

Terminate(c) ==
    /\ Started(c)
    /\ target[c] # "ended"
    /\ target' = [target EXCEPT ![c] = "ended"]
    /\ stream' = [stream EXCEPT ![c] = Append(@, Event("terminated", stops[c]))]
    /\ UNCHANGED <<sessionVars, pub, hand, resumer, sent, wire, owed, stops, overtaken>>

------------------------------------------------------------------------------
Lifecycle == Connect \/ Adopt \/ Install \/ ClearHandlers \/ Replace \/ Shutdown
ReadLoop(c) == Read(c) \/ Observe(c) \/ RunAck(c)
Adapter(c) == Stop(c) \/ CarryOut(c) \/ Refuse(c) \/ Respond(c) \/ Terminate(c)

Next == \/ Lifecycle
        \/ Execute
        \/ \E r \in Resumers : Resume(r) \/ \E asked \in 0..MaxSessions : Snapshot(r, asked)
        \/ \E c \in Clients : ReadLoop(c) \/ Adapter(c)

Spec == Init /\ [][Next]_vars

------------------------------------------------------------------------------
(* Properties.                                                              *)

PubType == [gen : 0..MaxSessions, mode : {"none", "source", "core"}, state : States,
            seq : Nat, episode : Nat]

SessionType ==
    /\ phase \in {"none", "connected", "adopted", "live", "clearing", "replaced"}
    /\ client \in 0..MaxSessions
    /\ control \in 0..MaxSessions
    /\ handlers \in [Clients -> {"none", "on", "off"}]
    /\ closed \in [Clients -> BOOLEAN]

ResumeType ==
    /\ resumer \in [Resumers -> [pc : {"idle", "checked"}, client : 0..MaxSessions,
                                 asked : 0..MaxSessions]]
    /\ sent \in 0..MaxRequests

FeedType == hand \in [Clients -> Message \union {NoMessage}]

AdapterType ==
    /\ wire \in [Clients -> Seq(Request)]
    /\ owed \in [Clients -> Message \union {NoMessage}]
    /\ stream \in [Clients -> Seq(Message)]
    /\ target \in [Clients -> {"running", "stopped", "ended"}]
    /\ stops \in [Clients -> 0..MaxStops]
    /\ overtaken \in [Clients -> BOOLEAN]

TypeOK == SessionType /\ pub \in PubType /\ ResumeType /\ FeedType /\ AdapterType

\* Running is never published for a target that is still in a stop the feed has
\* already shown: an acknowledgement never overwrites a newer stop, and nothing
\* from an older session moves the state (tools_control.go:60-85).
NoFalseRunning ==
    pub.gen # 0 /\ pub.state = "running" /\ target[pub.gen] = "stopped"
        => pub.episode < stops[pub.gen]

\* A client from which nothing is under way.
Quiet(c) == wire[c] = <<>> /\ owed[c] = NoMessage /\ stream[c] = <<>> /\ hand[c] = NoMessage

\* Once everything a live session's adapter said has been folded, the published
\* state is what the target does (docs/debugger-events-and-control.md, "the
\* state is folded from real DAP events and successful execution
\* acknowledgements"), unless a request dispatched in one stop was carried out
\* in a later one.
FeedCatchesUp ==
    phase = "live" /\ Quiet(client) /\ ~overtaken[client]
        => /\ target[client] \in {"stopped", "ended"} => pub.state = target[client]
           /\ target[client] = "running" => pub.state \in {"running", "unknown"}
           /\ pub.episode = stops[client]

\* What resume sends with a generation reaches the client of that generation and
\* no other, however the session is replaced after the snapshot
\* (tools_control.go:150-159).
ResumeKeepsItsSession ==
    \A c \in Clients : \A i \in 1..Len(wire[c]) : wire[c][i].asked \in {0, c}

\* The feed is ordered: within a generation every change takes a larger seq, and
\* a new generation is larger than every one before it (tools_control.go:14-16
\* and the docs' "ordered, monotonically increasing state sequence").
FeedOrder ==
    [][\/ pub' = NoSession
       \/ pub.gen = 0 /\ pub'.gen > 0 /\ \A c \in Clients : closed[c] => pub'.gen > c
       \/ pub'.gen = pub.gen /\ pub'.seq > pub.seq]_pub
==============================================================================
