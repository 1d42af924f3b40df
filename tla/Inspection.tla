------------------------------ MODULE Inspection ------------------------------
(***************************************************************************)
(* The inspection tools: evaluate, context and the report of a stop, with  *)
(* the default frame and the invalidation flag they share and the          *)
(* expansion of VariableExpansion.  Each call holds ds.mu to its end; the  *)
(* read loop folds events, the resume tool moves the target and the        *)
(* adapter invalidates what it said at any moment in between.              *)
(*                                                                         *)
(* Frames and answers carry, as ghosts, the stop and the number of         *)
(* invalidations they were produced at: adapters number neither.           *)
(***************************************************************************)
EXTENDS VariableExpansion

CONSTANTS MaxStops,          \* bound: stops of the target
          MaxInvalidations,  \* bound: invalidated events
          Replies,           \* bound: references a variables request may list
          ScopeReplies,      \* bound: the scopes a scopes request may list
          Headers            \* bound: sizes of the text before an expansion

ASSUME InspectionAssumption ==
    /\ {MaxStops, MaxInvalidations} \union Headers \subseteq Nat /\ MaxStops # 0
    /\ Replies \subseteq Seq(Nat)
    /\ ScopeReplies \subseteq Seq([kind : {"registers", "scope"}, ref : Nat])

VARIABLES
    pc,           \* where the call that holds ds.mu is; "closed" when the session ended
    call,         \* the call's tool and what it has chosen
    lastFrame,    \* ds.lastFrameID
    invalidated,  \* ds.invalidated
    out,          \* the expansion in progress
    answers,      \* ghost: what its requests came back with
    unawaited,    \* how many waits of the call gave up
    cancelled,    \* the call's context is cancelled
    lost,         \* readErr: the transport has ended
    request,      \* the request the adapter has not answered
    stream,       \* messages from the adapter
    inbox,        \* the answer the call may take, in a sequence
    stopEvents,   \* stopped events nobody has taken
    target,       \* the debuggee: "running" or "stopped"
    stop,         \* its stops so far
    sent,         \* invalidated events sent
    folded,       \* ghost: invalidated events folded
    consumed,     \* ghost: those consumed so far, and those an explicit frame has hidden
    strayed       \* ghost: the last stop the target left and no tool reported where it went

sessionVars == <<lastFrame, invalidated>>
expandVars  == <<out, answers>>
linkVars    == <<request, stream, inbox>>
targetVars  == <<stopEvents, target, stop, sent>>
ghostVars   == <<folded, consumed, strayed>>
vars == <<pc, call, unawaited, cancelled, lost, sessionVars, expandVars, linkVars, targetVars,
          ghostVars>>

\* lastFrameID -1; "explicit" is a frame the caller names and nothing is known of.
NoFrame  == [kind |-> "none", stop |-> 0, inv |-> 0]
Explicit == [kind |-> "explicit", stop |-> 0, inv |-> 0]
Top(s, i) == [kind |-> "top", stop |-> s, inv |-> i]

NoCall == [tool |-> "none", frame |-> NoFrame, full |-> FALSE, stopped |-> FALSE, folded |-> 0,
           roots |-> <<>>]
Call(tool, frame, full) ==
    [NoCall EXCEPT !.tool = tool, !.frame = frame, !.full = full,
                   !.folded = folded]

Blank == Expansion(0, <<>>)
NoAnswers == <<>>

\* The session stands at its first stop, reported or not.
Init ==
    /\ pc = "idle" /\ call = NoCall
    /\ lastFrame \in {NoFrame, Top(1, 0)} /\ invalidated = FALSE
    /\ out = Blank /\ answers = NoAnswers /\ unawaited = 0
    /\ cancelled = FALSE /\ lost = FALSE
    /\ request = "none" /\ stream = <<>> /\ inbox = <<>>
    /\ stopEvents = 0 /\ target = "stopped" /\ stop = 1 /\ sent = 0
    /\ folded = 0 /\ consumed = [count |-> 0, hidden |-> 0] /\ strayed = 0

------------------------------------------------------------------------------
(* Calls.                                                                   *)

Ask(what) == request' = what

Begins(what, where) ==
    /\ pc = "idle" /\ ~lost
    /\ call' = what
    /\ pc' = where
    /\ unawaited' = 0 /\ cancelled' = FALSE
    /\ UNCHANGED <<lost, expandVars, stream, inbox, targetVars, folded, strayed>>

\* consumeInvalidation.
Consume == invalidated' = FALSE

\* evaluate reads the default frame, literally 0 when there is none, and consumes the
\* flag; only without an explicit frame is it refused, and the default forgotten.
Evaluate(explicit) ==
    LET frame   == IF explicit THEN Explicit ELSE lastFrame
        refused == invalidated /\ ~explicit
    IN  /\ Consume
        /\ consumed' = [count |-> folded, hidden |-> IF explicit THEN folded ELSE consumed.hidden]
        /\ IF refused
           THEN Begins(NoCall, "idle") /\ lastFrame' = NoFrame /\ UNCHANGED request
           ELSE /\ Begins(Call("evaluate", frame, FALSE), "evaluate")
                /\ Ask("evaluate")
                /\ UNCHANGED lastFrame

Context(frame) ==
    /\ Begins(Call("context", frame, TRUE), "stack")
    /\ Ask("stackTrace")
    /\ UNCHANGED <<sessionVars, consumed>>

\* continue and step.
Execute(full) ==
    /\ Begins(Call("execute", NoFrame, full), "execute")
    /\ Ask("continue")
    /\ UNCHANGED <<sessionVars, consumed>>

------------------------------------------------------------------------------
(* Waits.                                                                   *)

Waiting == \/ pc \in {"evaluate", "execute", "stopping", "stack", "threads", "scopes"}
           \/ pc = "expand" /\ out.asking # NoItem

\* readTypedResponse takes the answer: an error, or a success.
Take(reply) ==
    /\ Waiting
    /\ inbox # <<>> /\ reply = inbox[1]
    /\ inbox' = <<>>
    /\ UNCHANGED <<unawaited, cancelled, lost, stream, target, stop, sent, folded, consumed,
                   invalidated>>

\* The messages without the answer, if it is among them.
Unclaimed(s) ==
    LET answer == {i \in 1..Len(s) : s[i].type = "answer"}
    IN  IF answer = {} THEN s ELSE RemoveAt(s, CHOOSE i \in answer : TRUE)

\* The wait fails: the answer, when it comes, is nobody's.  A continue is carried out.
GiveUp ==
    /\ Waiting
    /\ inbox = <<>> /\ (cancelled \/ lost)
    /\ pc \in {"execute", "stopping"} => stopEvents = 0
    /\ unawaited' = unawaited + 1
    /\ stream' = Unclaimed(stream)
    /\ target' = IF request = "continue" THEN "running" ELSE target
    /\ UNCHANGED <<cancelled, lost, inbox, stop, stopEvents, sent, folded, consumed, invalidated>>

\* The result is returned and ds.mu released.
Return ==
    /\ pc' = "idle"
    /\ call' = NoCall
    /\ out' = Blank /\ answers' = NoAnswers
    /\ request' = "none"

\* The last stop the target has left.
Left == IF target = "running" THEN stop ELSE stop - 1

\* The call ends and leaves the default frame as it was; an execution that has not got
\* to the stack has moved the target unseen.
Ends ==
    /\ strayed' = IF call.tool = "execute" /\ pc \in {"execute", "stopping", "stack"}
                  THEN Left' ELSE strayed
    /\ UNCHANGED lastFrame
    /\ Return

\* context lists the threads when the stack trace fails for the thread it asked for.
StackFails ==
    IF call.tool = "context"
    THEN /\ pc' = "threads"
         /\ Ask("threads")
         /\ UNCHANGED <<call, lastFrame, expandVars, strayed>>
    ELSE Ends

\* Outside an expansion; without the scopes a context is still a context.
WaitFails ==
    /\ pc # "expand"
    /\ GiveUp
    /\ Ends

ErrorTaken ==
    /\ pc # "expand"
    /\ \E reply \in {inbox[i] : i \in 1..Len(inbox)} : Take(reply) /\ ~reply.ok
    /\ (pc = "stack" /\ StackFails) \/ Ends
    /\ UNCHANGED stopEvents

\* waitForStopOrTermination takes a response and every stopped event up to then, or one.
ReportStop == pc' = "stack" /\ Ask("stackTrace")

ResponseTaken ==
    /\ pc = "execute"
    /\ \E reply \in {inbox[i] : i \in 1..Len(inbox)} : Take(reply) /\ reply.ok
    /\ IF call.stopped THEN ReportStop ELSE pc' = "stopping" /\ UNCHANGED request
    /\ UNCHANGED <<call, lastFrame, expandVars, stopEvents, strayed>>

StopTaken ==
    /\ pc \in {"execute", "stopping"}
    /\ stopEvents > 0
    /\ stopEvents' = stopEvents - 1
    /\ IF pc = "stopping" THEN ReportStop ELSE UNCHANGED <<pc, request>>
    /\ call' = [call EXCEPT !.stopped = TRUE]
    /\ UNCHANGED <<unawaited, cancelled, lost, sessionVars, expandVars, stream, inbox, target,
                   stop, sent, ghostVars>>

\* Fault: only a full context remembers its frame.
FullOnly(frame) == IF call.full THEN frame ELSE lastFrame
Remembered(frame) == frame

\* Fault: a context that has chosen a frame clears the flag.
ClearsFlag == invalidated' = FALSE
FlagKept   == UNCHANGED invalidated

\* getFullContext and getStopContext; an empty stack leaves the default frame alone.
StackTaken ==
    /\ pc = "stack"
    /\ inbox # <<>> /\ inbox[1].ok
    /\ inbox' = <<>>
    /\ UNCHANGED <<unawaited, cancelled, lost, stream, targetVars, folded, consumed>>
    /\ LET top == Top(inbox[1].stop, inbox[1].inv) IN
       IF inbox[1].refs = <<>>
       THEN Ends
       ELSE /\ lastFrame' = Remembered(IF call.frame = Explicit THEN Explicit ELSE top)
            /\ UNCHANGED strayed
            /\ IF call.full
               THEN pc' = "scopes" /\ Ask("scopes") /\ UNCHANGED <<call, expandVars>>
               ELSE Return
    /\ FlagKept

ThreadsTaken ==
    /\ pc = "threads"
    /\ \E reply \in {inbox[i] : i \in 1..Len(inbox)} : Take(reply) /\ reply.ok
    /\ Ends
    /\ UNCHANGED stopEvents

------------------------------------------------------------------------------
(* Expansions.                                                              *)

\* An expansion of these roots after a text of this size.
Expands(size, roots) ==
    /\ pc' = "expand"
    /\ out' = Expansion(size, roots)
    /\ call' = [call EXCEPT !.roots = roots]
    /\ answers' = NoAnswers
    /\ request' = "none"
    /\ UNCHANGED <<lastFrame, strayed, stopEvents>>

\* A value with a reference is expanded below the result.
EvaluateTaken ==
    /\ pc = "evaluate"
    /\ \E reply \in {inbox[i] : i \in 1..Len(inbox)}, size \in Headers :
         /\ Take(reply) /\ reply.ok
         /\ IF reply.refs[1] = 0
            THEN Ends /\ UNCHANGED stopEvents
            ELSE Expands(size, <<Item("variable", <<1>>, reply.refs[1], 0)>>)

\* The text before the variables may be as long as the output limit.
ScopesTaken ==
    /\ pc = "scopes"
    /\ \E reply \in {inbox[i] : i \in 1..Len(inbox)}, size \in Headers :
         /\ Take(reply) /\ reply.ok
         /\ IF reply.refs = <<>>
            THEN Ends /\ UNCHANGED stopEvents
            ELSE Expands(size, [i \in 1..Len(reply.refs) |->
                     Item(reply.refs[i].kind, <<i>>, reply.refs[i].ref, 0)])

Expand ==
    /\ pc = "expand"
    /\ out.work # <<>> /\ out.asking = NoItem
    /\ out' = ExpandNext(out)
    /\ request' = IF out'.asking # NoItem THEN "variables" ELSE "none"
    /\ UNCHANGED <<pc, call, answers, unawaited, cancelled, lost, sessionVars, stream, inbox,
                   targetVars, ghostVars>>

Listing(ok, refs) ==
    /\ out' = IF ok THEN Answered(out, refs) ELSE Unanswered(out)
    /\ answers' = [name \in DOMAIN answers \union {out.asking.name} |->
                       IF name = out.asking.name THEN [ok |-> ok, refs |-> refs] ELSE answers[name]]
    /\ request' = "none"
    /\ UNCHANGED <<pc, call, lastFrame, strayed>>

VariablesTaken ==
    /\ pc = "expand"
    /\ \E reply \in {inbox[i] : i \in 1..Len(inbox)} :
         Take(reply) /\ Listing(reply.ok, reply.refs)
    /\ UNCHANGED stopEvents

VariablesUnavailable ==
    /\ pc = "expand"
    /\ GiveUp
    /\ Listing(FALSE, <<>>)

Expanded ==
    /\ pc = "expand"
    /\ Finished(out)
    /\ Ends
    /\ UNCHANGED <<unawaited, cancelled, lost, invalidated, stream, inbox, targetVars, folded,
                   consumed>>

------------------------------------------------------------------------------
(* The read loop, the caller, the resume tool and the end of the session.   *)

Elsewhere == UNCHANGED <<call, unawaited, expandVars, consumed>>

Deliver ==
    /\ stream # <<>> /\ ~lost
    /\ stream' = Tail(stream)
    /\ IF Head(stream).type = "invalidated"
       THEN invalidated' = TRUE /\ folded' = folded + 1 /\ UNCHANGED inbox
       ELSE inbox' = <<Head(stream)>> /\ UNCHANGED <<invalidated, folded>>
    /\ Elsewhere /\ UNCHANGED <<pc, cancelled, lost, lastFrame, request, targetVars, strayed>>

Cancel ==
    /\ pc \notin {"idle", "closed"} /\ ~cancelled /\ ~lost
    /\ cancelled' = TRUE
    /\ Elsewhere /\ UNCHANGED <<pc, lost, sessionVars, linkVars, targetVars, folded, strayed>>

\* resume does not take ds.mu.
Resume ==
    /\ target = "stopped" /\ ~lost
    /\ target' = "running"
    /\ strayed' = stop
    /\ Elsewhere /\ UNCHANGED <<pc, cancelled, lost, sessionVars, linkVars, stopEvents, stop,
                                sent, folded>>

Lose ==
    /\ ~lost
    /\ lost' = TRUE
    /\ Elsewhere /\ UNCHANGED <<pc, cancelled, sessionVars, linkVars, targetVars, folded, strayed>>

\* handleClientEnd replaces the session's state once the lock is free.
CleanUp ==
    /\ lost /\ pc = "idle"
    /\ pc' = "closed"
    /\ lastFrame' = NoFrame /\ invalidated' = FALSE
    /\ Elsewhere /\ UNCHANGED <<cancelled, lost, linkVars, targetVars, folded, strayed>>

------------------------------------------------------------------------------
(* The adapter and the target (external).                                   *)

Reply(ok, refs) ==
    stream' = Append(stream, [type |-> "answer", ok |-> ok, refs |-> refs, stop |-> stop,
                              inv |-> sent])

\* What a request may list; the threads' names do not matter.
Listings == CASE request = "stackTrace" -> {<<>>, <<0>>}
              [] request = "scopes"     -> ScopeReplies
              [] request = "variables"  -> Replies
              [] request = "evaluate"   -> {<<0>>, <<1>>}
              [] OTHER                  -> {<<>>}

\* Nothing is answered about a target that runs.
Serve ==
    /\ request # "none" /\ ~lost
    /\ \/ Reply(FALSE, <<>>) /\ UNCHANGED target
       \/ /\ target = "stopped" \/ request = "threads"
          /\ \E refs \in Listings : Reply(TRUE, refs)
          /\ target' = IF request = "continue" THEN "running" ELSE target
    /\ request' = "none"
    /\ Elsewhere /\ UNCHANGED <<pc, cancelled, lost, sessionVars, inbox, stopEvents, stop, sent,
                                folded, strayed>>

TargetStops ==
    /\ target = "running" /\ ~lost
    /\ stop < MaxStops
    /\ target' = "stopped"
    /\ stop' = stop + 1
    /\ stopEvents' = stopEvents + 1
    /\ Elsewhere /\ UNCHANGED <<pc, cancelled, lost, sessionVars, linkVars, sent, folded, strayed>>

Invalidates ==
    /\ sent < MaxInvalidations /\ ~lost
    /\ sent' = sent + 1
    /\ stream' = Append(stream, [type |-> "invalidated"])
    /\ Elsewhere /\ UNCHANGED <<pc, cancelled, lost, sessionVars, request, inbox, stopEvents,
                                target, stop, folded, strayed>>

------------------------------------------------------------------------------
Tools == \/ \E explicit \in BOOLEAN : Evaluate(explicit)
         \/ \E frame \in {NoFrame, Explicit} : Context(frame)
         \/ \E full \in BOOLEAN : Execute(full)
         \/ WaitFails \/ ErrorTaken \/ ResponseTaken \/ StopTaken \/ StackTaken \/ ThreadsTaken
         \/ EvaluateTaken \/ ScopesTaken \/ Expand \/ VariablesTaken
         \/ VariablesUnavailable \/ Expanded

Next == Tools \/ Deliver \/ Cancel \/ Resume \/ Lose \/ CleanUp \/ Serve \/ TargetStops
        \/ Invalidates

Spec == Init /\ [][Next]_vars

------------------------------------------------------------------------------
(* Properties.                                                              *)

TypeOK ==
    /\ pc \in {"idle", "evaluate", "execute", "stopping", "stack", "threads", "scopes", "expand",
              "closed"}
    /\ lastFrame.kind \in {"none", "explicit", "top"} /\ lastFrame.stop \in 0..stop
    /\ invalidated \in BOOLEAN /\ cancelled \in BOOLEAN /\ lost \in BOOLEAN
    /\ out.nodes \in 0..MaxNodes /\ out.requests \in 0..MaxRequests
    /\ unawaited \in Nat
    /\ request \in {"none", "evaluate", "continue", "stackTrace", "threads", "scopes", "variables"}
    /\ Len(inbox) <= 1 /\ (inbox # <<>> => Waiting /\ request = "none")
    /\ target \in {"running", "stopped"} /\ stop \in 1..MaxStops
    /\ sent \in 0..MaxInvalidations /\ folded \in 0..sent

\* However the scopes nest, a call asks for at most MaxRequests lists and, once it is
\* cancelled, leaves at most as many answers in the inbox, which the connection does not
\* survive when it is full (tools_inspection.go:458-471, 498-504 and 573-586).
RequestsBounded ==
    pc = "expand" => Cardinality(DOMAIN answers) <= MaxRequests /\ unawaited <= MaxRequests

\* evaluate never uses a default frame chosen before an invalidation the read loop has
\* folded, although the flag it goes by is cleared by other calls and set at any moment of
\* a context; the exception is an evaluate with an explicit frame, which clears the flag
\* for the others (tools_inspection.go:44-53, tools_session.go:132-138).
StaleFrameIsAnnounced ==
    pc = "evaluate" /\ call.frame.kind = "top" =>
        \/ call.frame.inv >= call.folded
        \/ consumed.hidden = call.folded

\* The default frame follows the target (tools_inspection.go:17 calls it the current one):
\* evaluate uses a frame of a stop the target has left only if a resume took it away or a
\* continue or step that was cancelled, failed or found no stack (tools_execution.go:781 and
\* 809-811), however many stops, contexts and errors came in between.
FrameFollowsTarget ==
    pc = "evaluate" /\ call.frame.kind = "top" /\ call.frame.stop <= Left
        => call.frame.stop <= strayed
==============================================================================
