------------------------------ MODULE DAPClient ------------------------------
(***************************************************************************)
(* One DAPClient of dap.go: the goroutines that issue requests and wait,   *)
(* the single read loop, the durable inbox, the notify channel, the        *)
(* execution acknowledgements and the end of the connection.  The adapter  *)
(* and the transport are external: the adapter answers a request at most   *)
(* once, in any order, emits events, and may go away at any time.          *)
(*                                                                         *)
(* The client starts as debug() leaves it once its event handler and its   *)
(* execution observer are installed.                                       *)
(***************************************************************************)
EXTENDS Naturals, Sequences, SequencesExt

CONSTANTS Callers,    \* tool goroutines that share the client
          Executors,  \* those among them that hold the session lock ds.mu through their calls, and
                      \* whose execution requests also wait for stops; the others are pause, resume
                      \* and stop, which do without it
          NoCaller,   \* the value of sendMu when nobody holds it
          Limit,      \* maxDAPInboxMessages
          PipeSize,   \* requests the transport holds before a write blocks
          MaxSeq,     \* bound: sequence numbers used
          EventTypes, \* what the adapter emits: "stopped" stands for every event that
                      \* does not end the session, "terminated" ends it
          MaxEvents   \* bound: events the adapter emits

ASSUME ClientAssumption ==
    /\ NoCaller \notin Callers
    /\ Executors \subseteq Callers
    /\ EventTypes \subseteq {"stopped", "terminated"}
    /\ Limit \in Nat \ {0}
    /\ PipeSize \in Nat \ {0}
    /\ MaxSeq \in Nat
    /\ MaxEvents \in Nat

VARIABLES
    seq,         \* the next sequence number
    sendMu,      \* its holder among the callers, or NoCaller
    acks,        \* DOMAIN executionAcks: requests with a pending callback
    inbox,       \* messages no waiter has taken
    readErr,     \* whether the transport failed or the inbox overflowed
    closed,      \* whether closeOnce has run
    onEvent,     \* whether an event handler is installed
    onExecution, \* whether an execution observer is installed
    rl,          \* where the read loop is
    hand,        \* the message the read loop holds, Nothing after a read error
    pc,          \* where each caller is
    call,        \* the request of a caller, 0 when it has none
    result,      \* the request whose response ended the caller's last call, or 0
    owner,       \* how far the session's cleanupLocked has come
    ends,        \* times a close won closeOnce and reported it through onEnd
    shut,        \* whether shutdown won closeOnce
    acked,       \* requests whose execution callback has run
    observed,    \* the last event the handler saw
    wire,        \* requests in the transport
    todo,        \* requests the adapter has read and not answered
    answered,    \* requests the adapter has answered
    exec,        \* the execution requests among those issued
    stream,      \* adapter messages in the transport
    events,      \* events emitted
    down         \* whether the adapter is gone

requestVars == <<seq, sendMu, acks, call, exec>>
inboxVars   == <<inbox, readErr, pc, result>>
endVars     == <<closed, ends, shut>>
ownerVars   == <<owner, onEvent, onExecution>>
loopVars    == <<rl, hand, observed, acked>>
adapterVars == <<todo, answered, events, down>>
vars == <<requestVars, inboxVars, endVars, ownerVars, loopVars, adapterVars, wire, stream>>

Seqs == 1..MaxSeq
Message == [type : {"response"} \union EventTypes, id : Nat, ok : BOOLEAN]
Nothing == [type |-> "none", id |-> 0, ok |-> FALSE]

Init ==
    /\ seq = 1 /\ sendMu = NoCaller /\ acks = {} /\ exec = {}
    /\ inbox = <<>> /\ readErr = FALSE
    /\ closed = FALSE /\ ends = 0 /\ shut = FALSE
    /\ owner = "live" /\ onEvent = TRUE /\ onExecution = TRUE
    /\ rl = "read" /\ hand = Nothing /\ observed = 0 /\ acked = {}
    /\ pc = [c \in Callers |-> "idle"]
    /\ call = [c \in Callers |-> 0]
    /\ result = [c \in Callers |-> 0]
    /\ wire = <<>> /\ todo = {} /\ answered = {}
    /\ stream = <<>> /\ events = 0 /\ down = FALSE

------------------------------------------------------------------------------
(* issueRequest: sendMu is held from the choice of the number to the end of *)
(* the write.                                                               *)

\* Fault: the number is allocated under the lock and the request sent later.
LockSendMuBriefly(c) == sendMu = NoCaller /\ sendMu' = sendMu

LockSendMu(c) == sendMu = NoCaller /\ sendMu' = c

\* ds.mu is free: no call of a tool that holds it is in progress.
SessionLockFree == \A c \in Executors : pc[c] = "idle"

\* sendMu.Lock, the sequence number, and for an execution command the observer.
\* A tool that takes ds.mu finds the client only while it is the session's.
Begin(c, execution) ==
    /\ pc[c] = "idle"
    /\ c \in Executors => SessionLockFree /\ owner = "live"
    /\ execution => c \in Executors
    /\ seq <= MaxSeq
    /\ LockSendMu(c)
    /\ seq' = seq + 1
    /\ call' = [call EXCEPT ![c] = seq]
    /\ exec' = IF execution THEN exec \union {seq} ELSE exec
    /\ acks' = IF execution /\ onExecution THEN acks \union {seq} ELSE acks
    /\ pc' = [pc EXCEPT ![c] = "write"]
    /\ UNCHANGED <<inbox, readErr, result, endVars, ownerVars, loopVars, adapterVars, wire, stream>>

Write(c) ==
    /\ pc[c] = "write"
    /\ ~closed
    /\ Len(wire) < PipeSize
    /\ wire' = Append(wire, call[c])
    /\ sendMu' = NoCaller
    /\ pc' = [pc EXCEPT ![c] = "scan"]
    /\ result' = [result EXCEPT ![c] = 0]
    /\ UNCHANGED <<seq, acks, call, exec, inbox, readErr,
                   endVars, ownerVars, loopVars, adapterVars, stream>>

\* The write fails; the callback is withdrawn before sendMu is released.
WriteFails(c) ==
    /\ pc[c] = "write"
    /\ closed \/ down
    /\ acks' = acks \ {call[c]}
    /\ sendMu' = NoCaller
    /\ call' = [call EXCEPT ![c] = 0]
    /\ pc' = [pc EXCEPT ![c] = "idle"]
    /\ result' = [result EXCEPT ![c] = 0]
    /\ UNCHANGED <<seq, exec, inbox, readErr,
                   endVars, ownerVars, loopVars, adapterVars, wire, stream>>

------------------------------------------------------------------------------
(* waitMessageContext.                                                      *)

\* Fault: a waiter accepts any response.
WantsAnyResponse(c, m) == m.type = "response"

\* A waiter for a response matches its request_seq; the wait of an execution
\* tool also matches stops and termination.
Wants(c, m) == \/ m.type = "response" /\ m.id = call[c]
               \/ m.type \in {"stopped", "terminated"} /\ call[c] \in exec

Queued(c) == {i \in 1..Len(inbox) : Wants(c, inbox[i])}

\* The first match leaves the inbox.  A response ends an ordinary call; the wait of
\* an execution tool goes on until it has its response and a stop, but not past a
\* refusal or the termination.
Take(c) ==
    /\ pc[c] = "scan"
    /\ \E i \in Queued(c) :
         /\ \A j \in Queued(c) : i <= j
         /\ inbox' = RemoveAt(inbox, i)
         /\ result' = IF inbox[i].type = "response"
                      THEN [result EXCEPT ![c] = inbox[i].id]
                      ELSE result
         /\ \/ /\ pc' = [pc EXCEPT ![c] = "idle"]
               /\ call' = [call EXCEPT ![c] = 0]
            \/ /\ call[c] \in exec /\ inbox[i].ok /\ inbox[i].type # "terminated"
               /\ UNCHANGED <<pc, call>>
    /\ UNCHANGED <<seq, sendMu, acks, exec, readErr,
                   endVars, ownerVars, loopVars, adapterVars, wire, stream>>

\* readErr is returned only when nothing in the inbox matches.
WaitFails(c) ==
    /\ pc[c] = "scan"
    /\ Queued(c) = {}
    /\ readErr
    /\ pc' = [pc EXCEPT ![c] = "idle"]
    /\ call' = [call EXCEPT ![c] = 0]
    /\ UNCHANGED <<seq, sendMu, acks, exec, inbox, readErr, result,
                   endVars, ownerVars, loopVars, adapterVars, wire, stream>>

\* The notify channel is read under inboxMu and received from after it is
\* released: a "parked" caller holds the current channel.
Park(c) ==
    /\ pc[c] = "scan"
    /\ Queued(c) = {}
    /\ ~readErr
    /\ pc' = [pc EXCEPT ![c] = "parked"]
    /\ UNCHANGED <<requestVars, inbox, readErr, result,
                   endVars, ownerVars, loopVars, adapterVars, wire, stream>>

\* ctx.Done: cancellation, or the timeout of stop and resume.
GiveUp(c) ==
    /\ pc[c] = "parked"
    /\ pc' = [pc EXCEPT ![c] = "idle"]
    /\ call' = [call EXCEPT ![c] = 0]
    /\ UNCHANGED <<seq, sendMu, acks, exec, inbox, readErr, result,
                   endVars, ownerVars, loopVars, adapterVars, wire, stream>>

------------------------------------------------------------------------------
(* readLoop.                                                                *)

ReadMessage ==
    /\ rl = "read"
    /\ stream # <<>>
    /\ hand' = Head(stream)
    /\ stream' = Tail(stream)
    /\ rl' = "dispatch"
    /\ UNCHANGED <<requestVars, inboxVars, endVars, ownerVars, observed, acked, adapterVars, wire>>

\* A closed transport fails the read even when messages are still in it.
ReadFails ==
    /\ rl = "read"
    /\ closed \/ down
    /\ hand' = Nothing
    /\ rl' = "publish"
    /\ UNCHANGED <<requestVars, inboxVars, endVars, ownerVars, observed, acked,
                   adapterVars, wire, stream>>

\* Fault: the callback runs whatever the response says.
AckedByAny == acked \union (acks \intersect {hand.id})

AckedBySuccess == IF hand.ok THEN acked \union (acks \intersect {hand.id}) ELSE acked

\* Fault: the handler sees only the events nobody waits for.
ObservedIfUnwanted ==
    IF onEvent /\ ~ \E c \in Callers : pc[c] = "parked" /\ Wants(c, hand)
    THEN hand.id ELSE observed

ObservedIfHandled == IF onEvent THEN hand.id ELSE observed

\* The protocol log shares sendMu with the writers.  Then the callback of a
\* response leaves executionAcks and runs if the request succeeded; an event
\* goes to the handler.
Dispatch ==
    /\ rl = "dispatch"
    /\ sendMu = NoCaller
    /\ IF hand.type = "response"
       THEN acks' = acks \ {hand.id} /\ acked' = AckedBySuccess /\ UNCHANGED observed
       ELSE observed' = ObservedIfHandled /\ UNCHANGED <<acks, acked>>
    /\ rl' = "publish"
    /\ UNCHANGED <<seq, sendMu, call, exec, inboxVars, endVars, ownerVars, hand,
                   adapterVars, wire, stream>>

\* Fault: off by one.
OverflowLate == Len(inbox) > Limit

Overflow == Len(inbox) >= Limit

\* Fault: only the callers the message is for are woken.
NotifiedIfWanted ==
    [c \in Callers |-> IF pc[c] = "parked" /\ Wants(c, hand) THEN "scan" ELSE pc[c]]

\* Closing the notify channel wakes every parked caller.
Notified == [c \in Callers |-> IF pc[c] = "parked" THEN "scan" ELSE pc[c]]

Publish ==
    /\ rl = "publish"
    /\ IF hand = Nothing \/ Overflow
       THEN readErr' = TRUE /\ rl' = "end" /\ UNCHANGED inbox
       ELSE /\ inbox' = Append(inbox, hand)
            /\ rl' = IF hand.type = "terminated" THEN "callback" ELSE "read"
            /\ UNCHANGED readErr
    /\ pc' = Notified
    /\ hand' = Nothing
    /\ UNCHANGED <<requestVars, result, endVars, ownerVars, observed, acked,
                   adapterVars, wire, stream>>

\* Fault: no closeOnce.
EndTransportAgain == closed' = TRUE /\ ends' = ends + 1

\* closeTransport under closeOnce, and whether this call is the one that closed.
EndTransport == closed' = TRUE /\ ends' = IF closed THEN ends ELSE ends + 1

\* end(terminalErr): only the call that closed the transport reports the end.
EndLoop ==
    /\ rl = "end"
    /\ EndTransport
    /\ rl' = IF closed THEN "done" ELSE "lastCallback"
    /\ UNCHANGED <<requestVars, inboxVars, shut, ownerVars, hand, observed, acked,
                   adapterVars, wire, stream>>

\* onEnd waits for ds.mu and returns once it has held it, so once the session has
\* been cleaned up, by this callback or by an earlier holder of the lock.  Until then
\* the read loop reads nothing, whatever the holder of the lock is waiting for.
CallbackReturns ==
    /\ rl \in {"callback", "lastCallback"}
    /\ owner = "shut"
    /\ rl' = IF rl = "callback" THEN "read" ELSE "done"
    /\ UNCHANGED <<requestVars, inboxVars, endVars, ownerVars, hand, observed, acked,
                   adapterVars, wire, stream>>

------------------------------------------------------------------------------
(* The owner: stop calls Close at any time, cleanupLocked clears the        *)
(* handlers, needs sendMu to clear the logger, and shuts the client down.   *)

Close ==
    /\ EndTransport
    /\ UNCHANGED <<requestVars, inboxVars, shut, ownerVars, loopVars, adapterVars, wire, stream>>

\* Every cleanup holds ds.mu.  Both handlers go under handlerMu, in two critical
\* sections that no other step of the client tells apart.
ClearHandlers ==
    /\ owner = "live"
    /\ SessionLockFree
    /\ owner' = "cleared"
    /\ onEvent' = FALSE
    /\ onExecution' = FALSE
    /\ UNCHANGED <<requestVars, inboxVars, endVars, loopVars, adapterVars, wire, stream>>

\* SetProtocolLogger(nil) waits for sendMu; then the transport is closed.
Shutdown ==
    /\ owner = "cleared"
    /\ sendMu = NoCaller
    /\ owner' = "shut"
    /\ closed' = TRUE
    /\ shut' = ~closed
    /\ UNCHANGED <<requestVars, inboxVars, ends, onEvent, onExecution, loopVars,
                   adapterVars, wire, stream>>

------------------------------------------------------------------------------
(* The adapter (external).                                                  *)

\* Nothing the adapter does once the transport is closed can be observed.
Connected == ~down /\ ~closed

AdapterReads ==
    /\ Connected
    /\ wire # <<>>
    /\ todo' = todo \union {Head(wire)}
    /\ wire' = Tail(wire)
    /\ UNCHANGED <<requestVars, inboxVars, endVars, ownerVars, loopVars,
                   answered, events, down, stream>>

\* What a refusal changes concerns execution requests only.
Respond(s, ok) ==
    /\ Connected
    /\ s \in todo
    /\ ok \/ s \in exec
    /\ todo' = todo \ {s}
    /\ answered' = answered \union {s}
    /\ stream' = Append(stream, [type |-> "response", id |-> s, ok |-> ok])
    /\ UNCHANGED <<requestVars, inboxVars, endVars, ownerVars, loopVars, events, down, wire>>

Emit(type) ==
    /\ Connected
    /\ events < MaxEvents
    /\ events' = events + 1
    /\ stream' = Append(stream, [type |-> type, id |-> events + 1, ok |-> TRUE])
    /\ UNCHANGED <<requestVars, inboxVars, endVars, ownerVars, loopVars,
                   todo, answered, down, wire>>

AdapterExits ==
    /\ Connected
    /\ down' = TRUE
    /\ UNCHANGED <<requestVars, inboxVars, endVars, ownerVars, loopVars,
                   todo, answered, events, wire, stream>>

------------------------------------------------------------------------------
WaitStep(c) == Take(c) \/ WaitFails(c) \/ Park(c)
LoopStep == \/ ReadMessage \/ ReadFails \/ Dispatch \/ Publish \/ EndLoop \/ CallbackReturns
CleanupStep == ClearHandlers \/ Shutdown
AdapterStep == \/ AdapterReads \/ AdapterExits
               \/ \E s \in Seqs, ok \in BOOLEAN : Respond(s, ok)
               \/ \E type \in EventTypes : Emit(type)

Next == \/ \E c \in Callers : \/ \E execution \in BOOLEAN : Begin(c, execution)
                              \/ Write(c) \/ WriteFails(c) \/ WaitStep(c) \/ GiveUp(c)
        \/ LoopStep \/ CleanupStep \/ Close \/ AdapterStep

\* Goroutines that can run do run; sync.Mutex does not starve a waiter, so the two
\* steps that need sendMu and the one that needs ds.mu are strongly fair.  Cleanup is
\* certain to start only when the read loop's callback asks for it and the tool that
\* holds ds.mu, if any, releases it.  The adapter owes nothing.
Fairness ==
    /\ \A c \in Callers : /\ WF_vars(Write(c)) /\ WF_vars(WriteFails(c))
                          /\ WF_vars(WaitStep(c))
    /\ WF_vars(LoopStep) /\ SF_vars(Dispatch)
    /\ SF_vars(rl \in {"callback", "lastCallback"} /\ ClearHandlers)
    /\ SF_vars(Shutdown)

Spec == Init /\ [][Next]_vars
FairSpec == Spec /\ Fairness

------------------------------------------------------------------------------
(* Properties.                                                              *)

RequestType ==
    /\ seq \in 1..(MaxSeq + 1)
    /\ sendMu \in Callers \union {NoCaller}
    /\ acks \subseteq Seqs
    /\ exec \subseteq Seqs
    /\ call \in [Callers -> 0..MaxSeq]

InboxType ==
    /\ inbox \in Seq(Message)
    /\ readErr \in BOOLEAN
    /\ pc \in [Callers -> {"idle", "write", "scan", "parked"}]
    /\ result \in [Callers -> Nat]

EndType == closed \in BOOLEAN /\ ends \in 0..1 /\ shut \in BOOLEAN

OwnerType ==
    /\ owner \in {"live", "cleared", "shut"}
    /\ onEvent \in BOOLEAN
    /\ onExecution \in BOOLEAN

LoopType ==
    /\ rl \in {"read", "dispatch", "publish", "end", "callback", "lastCallback", "done"}
    /\ hand \in Message \union {Nothing}
    /\ observed \in Nat
    /\ acked \subseteq Seqs

AdapterType ==
    /\ wire \in Seq(Seqs)
    /\ todo \subseteq Seqs
    /\ answered \subseteq Seqs
    /\ stream \in Seq(Message)
    /\ events \in Nat
    /\ down \in BOOLEAN

TypeOK == RequestType /\ InboxType /\ EndType /\ OwnerType /\ LoopType /\ AdapterType

\* A caller asleep on the notify channel (dap.go:261-270) never has a message for
\* it in the inbox nor a read error to return: no wakeup is lost between the
\* scan of the inbox and the receive from the channel.
NoLostWakeup ==
    \A c \in Callers : pc[c] = "parked" => ~readErr /\ Queued(c) = {}

\* Requests issued concurrently reach the wire in the order of their sequence
\* numbers, each once (the comment at dap.go:338-340).
WireOrder ==
    /\ \A i, j \in 1..Len(wire) : i < j => wire[i] < wire[j]
    /\ \A i \in 1..Len(wire), s \in todo \union answered : s < wire[i]

\* While the session's observer is installed, no waiter can see the success of
\* an execution request whose callback has not run, and a refused request runs
\* no callback (dap.go:46-48 and 185-194).
AckBeforeWaiters ==
    \A i \in 1..Len(inbox) :
        LET m == inbox[i] IN
        m.type = "response" /\ m.id \in exec /\ onExecution => (m.id \in acked <=> m.ok)

\* While the session's handler is installed, no waiter can see an event the
\* handler has not, and events keep the adapter's order (dap.go:195-209).
ObservedBeforeWaiters ==
    LET eventAt == {i \in 1..Len(inbox) : inbox[i].type # "response"} IN
    /\ onEvent => \A i \in eventAt : inbox[i].id <= observed
    /\ \A i, j \in eventAt : i < j => inbox[i].id < inbox[j].id

\* The transport is closed exactly once, by Close, by the read loop or by
\* shutdown, and onEnd hears of it exactly when the owner did not do it
\* (dap.go:89-116); a read loop that is over leaves no open transport.
EndOnce ==
    /\ closed <=> ends + (IF shut THEN 1 ELSE 0) = 1
    /\ rl \in {"done", "lastCallback"} => closed

\* The inbox holds at most maxDAPInboxMessages, and the read loop that met the
\* limit or a read error does not go on (dap.go:206-221).
InboxBounded ==
    /\ Len(inbox) <= Limit
    /\ readErr <=> rl \in {"end", "lastCallback", "done"}

\* A tool gets the answer to its own request or an error, at most once per call,
\* and the requests reach the adapter in order: the whole client implements the
\* request-response promise.
Promise == INSTANCE RequestResponse WITH
    next <- IF sendMu = NoCaller THEN seq ELSE seq - 1,
    call <- [c \in Callers |-> IF pc[c] \in {"scan", "parked"} /\ result[c] # call[c]
                               THEN call[c] ELSE 0]

KeepsPromise == Promise!Spec

\* The read loop waits in the callback for Terminated for ds.mu, whose holder sleeps
\* until the read loop brings its response (tools_execution.go:248-249).
Deadlocked == /\ rl = "callback"
              /\ owner = "live"
              /\ \E c \in Executors : pc[c] = "parked"

\* Once the transport has ended, every call in progress ends too, blocked on the
\* lock holder's write, scanning, or asleep (dap.go:204-221 and 249-272), with one
\* exception: no call is certain to end if the callback for Terminated and the tool
\* that holds ds.mu wait for each other for good.
CallsEnd ==
    \A c \in Callers :
        pc[c] # "idle" /\ (closed \/ down) ~> pc[c] = "idle" \/ []Deadlocked
==============================================================================
