----------------------------- MODULE Breakpoints -----------------------------
(***************************************************************************)
(* The breakpoint lists of tools_breakpoints.go.  DAP replaces a whole     *)
(* list with every request, so the session tracks what it believes the     *)
(* adapter has: one list of functions and one list of lines per file.      *)
(* All tools hold ds.mu, so one call runs at a time, but a call that is    *)
(* cancelled leaves its request with the adapter.                          *)
(*                                                                         *)
(* One debugger session, from the breakpoints debug() sets before          *)
(* configurationDone to the end of the session.  The adapter is external:  *)
(* it serves requests in order, applies the list of a request it accepts   *)
(* and keeps its own when it refuses.                                      *)
(***************************************************************************)
EXTENDS Naturals, Sequences, SequencesExt

CONSTANTS Files,       \* source files with line breakpoints
          Functions,   \* the list of function breakpoints
          Places,      \* lines, or function names
          NoPlace,     \* the place of a call that names none
          MaxRequests  \* bound: requests sent

ASSUME BreakpointAssumption ==
    Functions \notin Files /\ NoPlace \notin Places /\ MaxRequests \in Nat

Lists == Files \union {Functions}

VARIABLES
    session,  \* ds.client # nil
    tracked,  \* functionBreakpoints and lineBreakpoints
    call,     \* the call that holds ds.mu and its local variables
    req,      \* the request the call waits for, or NoRequest
    answer,   \* its answer in the inbox, or "none"
    sent,     \* requests sent
    wire,     \* requests the adapter has not served
    adapter,  \* the adapter's lists
    up,       \* whether the adapter is there
    unsure,   \* lists with a request given up since the last acknowledged one
    user,     \* user[l]: breakpoints reported as set and not cleared since
    leftover  \* leftover[l]: breakpoints tools left tracked that nobody was told are set

requestVars == <<req, answer, sent, wire>>
adapterVars == <<adapter, up>>
ghostVars   == <<unsure, user, leftover>>
vars == <<session, tracked, call, requestVars, adapterVars, ghostVars>>

\* What the adapter says of the new breakpoint when it accepts a list: verified
\* or pending, anything else, or nothing at all.
Statuses == {"kept", "failed", "empty"}

NoRequest == [id |-> 0, list |-> Functions, places |-> <<>>]

\* temp: cleanupRunToCursor is set; todo: the files clear-breakpoints has not come to.
Local(pc, tool, l, p) == [pc |-> pc, tool |-> tool, list |-> l, place |-> p,
                          temp |-> FALSE, todo |-> {}, cancelled |-> FALSE]
Idle == Local("idle", "none", Functions, NoPlace)
At(pc) == [call EXCEPT !.pc = pc]

Init ==
    /\ session = TRUE /\ up = TRUE
    /\ tracked = [l \in Lists |-> <<>>]
    /\ call = Local("starting", "debug", Functions, NoPlace)
    /\ req = NoRequest /\ answer = "none" /\ sent = 0 /\ wire = <<>>
    /\ adapter = [l \in Lists |-> <<>>]
    /\ unsure = {}
    /\ user = [l \in Lists |-> {}]
    /\ leftover = [l \in Lists |-> {}]

------------------------------------------------------------------------------
(* The replacement of a list.                                               *)

\* slices.DeleteFunc: all of s but p.
Deleted(s, p) ==
    LET kept[i \in 0..Len(s)] ==
            IF i = 0 THEN <<>>
            ELSE IF s[i] = p THEN kept[i - 1] ELSE Append(kept[i - 1], s[i])
    IN  kept[Len(s)]

Has(l, p) == p \in ToSet(tracked[l])
With(l, p) == Append(tracked[l], p)
Without(l, p) == Deleted(tracked[l], p)

\* The call c writes a list.  On a closed transport the write fails and ends the
\* call; once the session has been cleaned up there is no client to write to.
Replace(c, l, places) ==
    IF session /\ up
    THEN /\ sent < MaxRequests
         /\ sent' = sent + 1
         /\ req' = [id |-> sent', list |-> l, places |-> places]
         /\ wire' = Append(wire, req')
         /\ call' = c
         /\ UNCHANGED answer
    ELSE /\ call' = IF session THEN Idle ELSE At("panic")
         /\ UNCHANGED requestVars

Left(l, p) == [leftover EXCEPT ![l] = @ \union {p}]

\* Fault: the removal does not look whether the breakpoint is tracked.
RemovableAlways(l, p) == TRUE

\* removeFunctionBreakpoint and removeLineBreakpoint send nothing for others.
Removable(l, p) == Has(l, p)

\* A tool takes its own breakpoint back.
TakeBack ==
    /\ IF Removable(call.list, call.place)
       THEN /\ Replace(At("undoing"), call.list, Without(call.list, call.place))
            /\ leftover' = IF up THEN leftover ELSE Left(call.list, call.place)
       ELSE call' = Idle /\ UNCHANGED <<requestVars, leftover>>
    /\ UNCHANGED <<session, tracked, adapterVars, unsure, user>>

\* cleanupLocked, as far as the lists are concerned.
EndSession ==
    /\ session' = FALSE
    /\ tracked' = [l \in Lists |-> <<>>]
    /\ user' = [l \in Lists |-> {}]
    /\ leftover' = [l \in Lists |-> {}]

------------------------------------------------------------------------------
(* debug: its initial breakpoints.                                          *)

AddInitial(l, p) ==
    /\ call.pc = "starting"
    /\ up
    /\ ~Has(l, p)
    /\ Replace([call EXCEPT !.pc = "adding", !.list = l, !.place = p], l, With(l, p))
    /\ UNCHANGED <<session, tracked, adapterVars, ghostVars>>

\* A failed write takes the session down with debug.
StartFails ==
    /\ call.pc = "starting"
    /\ ~up
    /\ call' = Idle
    /\ EndSession
    /\ UNCHANGED <<requestVars, adapterVars, unsure>>

Started ==
    /\ call.pc = "starting"
    /\ call' = Idle
    /\ UNCHANGED <<session, tracked, requestVars, adapterVars, ghostVars>>

------------------------------------------------------------------------------
(* breakpoint, continue with a target, clear-breakpoints.                   *)

\* The next call gets ds.mu and finds a session.
Enter == call.pc = "idle" /\ session /\ UNCHANGED <<session, tracked, adapterVars, unsure>>

Breakpoint(l, p) ==
    /\ Enter
    /\ IF Has(l, p)
       THEN /\ user' = [user EXCEPT ![l] = @ \union {p}]
            /\ UNCHANGED <<call, requestVars>>
       ELSE /\ Replace(Local("adding", "breakpoint", l, p), l, With(l, p))
            /\ UNCHANGED user
    /\ UNCHANGED leftover

\* Fault: run-to-cursor takes every breakpoint for its own.
TemporaryAlways(l, p) == TRUE

\* A breakpoint that exists is used as it is.
Temporary(l, p) == ~Has(l, p)

RunTo(l, p) ==
    /\ Enter
    /\ LET c == [Local("armed", "continue", l, p) EXCEPT !.temp = Temporary(l, p)] IN
       IF Has(l, p)
       THEN call' = c /\ UNCHANGED requestVars
       ELSE Replace([c EXCEPT !.pc = "adding"], l, With(l, p))
    /\ UNCHANGED <<user, leftover>>

ClearPlace(l, p) ==
    /\ Enter
    /\ Has(l, p)
    /\ Replace(Local("clearing", "clear", l, p), l, Without(l, p))
    /\ UNCHANGED <<user, leftover>>

ClearFile(f) ==
    /\ Enter
    /\ Replace(Local("clearing", "clear", f, NoPlace), f, <<>>)
    /\ UNCHANGED <<user, leftover>>

\* All files with breakpoints in any order, then the functions.
ClearAll ==
    /\ Enter
    /\ call' = [Local("clearAll", "clearAll", Functions, NoPlace)
                  EXCEPT !.todo = {f \in Files : tracked[f] # <<>>}]
    /\ UNCHANGED <<requestVars, user, leftover>>

ClearNext ==
    /\ call.pc = "clearAll"
    /\ \E l \in IF call.todo = {} THEN {Functions} ELSE call.todo :
         Replace([At("clearing") EXCEPT !.list = l, !.todo = @ \ {l}], l, <<>>)
    /\ UNCHANGED <<session, tracked, adapterVars, ghostVars>>

------------------------------------------------------------------------------
(* What the call does with the answer.                                      *)

\* Fault: any answer will do.
AwaitedByAny(q) == TRUE

\* A call takes the answer to its own request only.
Awaited(q) == q.id = req.id

\* Fault: the list is committed whatever the adapter said.
CommittedAlways == [tracked EXCEPT ![req.list] = req.places]

\* Only an acknowledged list is committed.
Committed ==
    IF answer \in Statuses THEN [tracked EXCEPT ![req.list] = req.places] ELSE tracked

Acknowledged ==
    /\ answer \in Statuses
    /\ req' = NoRequest
    /\ answer' = "none"
    /\ tracked' = Committed
    /\ unsure' = unsure \ {req.list}
    /\ UNCHANGED <<session, sent, wire, adapterVars>>

\* debug keeps whatever is acknowledged; the others want it verified or pending.  An
\* answer without breakpoints (giveIn) fails breakpoint, which leaves the new one tracked
\* and asks for no removal.
Added ==
    /\ call.pc = "adding"
    /\ Acknowledged
    /\ LET keep   == answer = "kept" \/ call.tool = "debug"
           giveIn == call.tool = "breakpoint" /\ answer = "empty" IN
       /\ call' = CASE call.tool = "debug"           -> At("starting")
                    [] call.tool = "continue" /\ keep -> At("armed")
                    [] call.tool = "breakpoint" /\ (keep \/ giveIn) -> Idle
                    [] OTHER                          -> At("unverified")
       /\ user' = IF keep /\ call.tool # "continue"
                  THEN [user EXCEPT ![call.list] = @ \union {call.place}] ELSE user
       /\ leftover' = IF giveIn THEN Left(call.list, call.place) ELSE leftover

\* A breakpoint the adapter could not place is taken back from both sides.
Undo == call.pc = "unverified" /\ TakeBack

Undone ==
    /\ call.pc = "undoing"
    /\ Acknowledged
    /\ call' = Idle
    /\ leftover' = [leftover EXCEPT ![call.list] = @ \ {call.place}]
    /\ UNCHANGED user

Cleared ==
    /\ call.pc = "clearing"
    /\ Acknowledged
    /\ user' = [user EXCEPT ![req.list] = @ \intersect ToSet(req.places)]
    /\ leftover' = [leftover EXCEPT ![req.list] = @ \intersect ToSet(req.places)]
    /\ call' = IF call.tool = "clearAll" /\ req.list # Functions THEN At("clearAll") ELSE Idle

\* The call returns an error, and debug takes the session down with it.
Fail ==
    /\ req # NoRequest
    /\ IF call.tool = "debug"
       THEN EndSession
       ELSE /\ tracked' = Committed
            /\ leftover' = IF call.pc = "undoing" THEN Left(call.list, call.place) ELSE leftover
            /\ UNCHANGED <<session, user>>
    /\ call' = Idle
    /\ req' = NoRequest
    /\ answer' = "none"
    /\ UNCHANGED <<sent, wire, adapterVars>>

Refused   == answer = "refused" /\ Fail /\ UNCHANGED unsure
WaitFails == answer = "none" /\ ~up /\ Fail /\ UNCHANGED unsure
GiveUp    == answer = "none" /\ call.cancelled /\ Fail /\ unsure' = unsure \union {req.list}

------------------------------------------------------------------------------
(* continue runs.                                                           *)

\* A failed write returns at once, with the temporary breakpoint in place.
Continue ==
    /\ call.pc = "armed"
    /\ call' = IF up THEN At("running") ELSE Idle
    /\ leftover' = IF ~up /\ call.temp THEN Left(call.list, call.place) ELSE leftover
    /\ UNCHANGED <<session, tracked, requestVars, adapterVars, unsure, user>>

\* A stop, a refusal, a cancellation or the end of the transport.
Halted ==
    /\ call.pc = "running"
    /\ call' = At("halted")
    /\ UNCHANGED <<session, tracked, requestVars, adapterVars, ghostVars>>

\* Terminated makes continue clean up the session itself; an end of the client
\* does when no call holds the lock.
Terminated ==
    /\ call.pc = "running"
    /\ call' = At("halted")
    /\ EndSession
    /\ UNCHANGED <<requestVars, adapterVars, unsure>>

ClientEnded ==
    /\ call.pc = "idle"
    /\ session
    /\ ~up
    /\ EndSession
    /\ UNCHANGED <<call, requestVars, adapterVars, unsure>>

\* Fault: a cancelled call does not clean up.
CleanUpUnlessCancelled == call.temp /\ ~call.cancelled

CleanUpNeeded == call.temp

\* The clean-up runs with the call's own context.
CleanUp ==
    /\ call.pc = "halted"
    /\ \/ CleanUpNeeded /\ TakeBack
       \/ /\ ~CleanUpNeeded
          /\ call' = Idle
          /\ UNCHANGED <<session, tracked, requestVars, adapterVars, ghostVars>>

Cancel ==
    /\ call.pc # "idle"
    /\ ~call.cancelled
    /\ call' = [call EXCEPT !.cancelled = TRUE]
    /\ UNCHANGED <<session, tracked, requestVars, adapterVars, ghostVars>>

------------------------------------------------------------------------------
(* The adapter (external).                                                  *)

Serve ==
    /\ up
    /\ wire # <<>>
    /\ LET q == Head(wire) IN
       \E s \in Statuses \union {"refused"} :
         /\ adapter' = IF s = "refused" THEN adapter ELSE [adapter EXCEPT ![q.list] = q.places]
         /\ answer' = IF Awaited(q) THEN s ELSE answer
    /\ wire' = Tail(wire)
    /\ UNCHANGED <<session, tracked, call, req, sent, up, ghostVars>>

AdapterExits ==
    /\ up
    /\ up' = FALSE
    /\ UNCHANGED <<session, tracked, call, requestVars, adapter, ghostVars>>

------------------------------------------------------------------------------
Begin(l, p) == AddInitial(l, p) \/ Breakpoint(l, p) \/ RunTo(l, p) \/ ClearPlace(l, p)
Finish == Added \/ Undone \/ Cleared \/ Refused \/ WaitFails \/ GiveUp
Proceed == Started \/ StartFails \/ ClearNext \/ Undo \/ Continue \/ Halted \/ Terminated \/ CleanUp

Next == \/ \E l \in Lists, p \in Places : Begin(l, p)
        \/ \E f \in Files : ClearFile(f)
        \/ ClearAll
        \/ Finish \/ Proceed \/ Cancel \/ ClientEnded
        \/ Serve \/ AdapterExits

Spec == Init /\ [][Next]_vars

------------------------------------------------------------------------------
(* Properties.                                                              *)

Request == [id : 1..MaxRequests, list : Lists, places : Seq(Places)]

CallType ==
    call \in [pc : {"starting", "idle", "adding", "unverified", "undoing", "clearing", "clearAll",
                    "armed", "running", "halted", "panic"},
              tool : {"none", "debug", "breakpoint", "continue", "clear", "clearAll"},
              list : Lists, place : Places \union {NoPlace},
              temp : BOOLEAN, todo : SUBSET Files, cancelled : BOOLEAN]

RequestType ==
    /\ req \in Request \union {NoRequest}
    /\ answer \in Statuses \union {"refused", "none"}
    /\ answer # "none" => req # NoRequest
    /\ sent \in 0..MaxRequests
    /\ wire \in Seq(Request)

GhostType ==
    /\ unsure \subseteq Lists
    /\ user \in [Lists -> SUBSET Places]
    /\ leftover \in [Lists -> SUBSET Places]

TypeOK ==
    /\ session \in BOOLEAN /\ up \in BOOLEAN
    /\ tracked \in [Lists -> Seq(Places)]
    /\ adapter \in [Lists -> Seq(Places)]
    /\ CallType /\ RequestType /\ GhostType

\* Between calls the session tracks exactly the adapter's list, unless a call
\* gave up on a replacement of it; the next acknowledged replacement heals even
\* that (tools_breakpoints.go:13-14 and 53-71).
ListsAgree ==
    \A l \in Lists :
        session /\ up /\ l \notin unsure /\ (req = NoRequest \/ req.list # l)
            => tracked[l] = adapter[l]

\* A breakpoint reported as set stays tracked, so it is part of every later
\* replacement, until it is cleared: neither run-to-cursor nor a failed or
\* cancelled call drops it (tools_execution.go:56 and 71).
KeepsBreakpoints == \A l \in Lists : user[l] \subseteq ToSet(tracked[l])

\* Whatever ended the run, no breakpoint that was only run-to-cursor's or could
\* not be verified is still tracked between calls (tools_execution.go:95-100),
\* but for three paths: its removal failed, the continue that had set it could not be
\* written (tools_execution.go:88-91), or the answer that should have verified it for
\* breakpoint was empty (tools_breakpoints.go:186-188 and 238-240).  On the last two the
\* code attempts no removal.
NothingLeftOver ==
    call.pc = "idle" => \A l \in Lists : ToSet(tracked[l]) \subseteq user[l] \union leftover[l]

\* The clean-up of a run that ended the session sends nothing: there is no client
\* any more (tools_execution.go:880 and 97, tools_breakpoints.go:38 and 84).
NoSendWithoutSession == call.pc # "panic"

\* tools_execution.go:34: a continue with a target runs with a breakpoint there.
RunToHasItsBreakpoint ==
    call.pc = "running" /\ wire = <<>> => call.place \in ToSet(adapter[call.list])
==============================================================================
