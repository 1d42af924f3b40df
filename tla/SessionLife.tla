----------------------------- MODULE SessionLife -----------------------------
(***************************************************************************)
(* What the server promises about its debuggers, seen from outside: one at *)
(* a time.  A session starts when nothing is left of the one before, offers *)
(* the session tools at most while it lasts, ends once, and its adapter is *)
(* over before the next session starts.  The calls, ds.mu, the read loops, *)
(* the messages, and who notices that a session is over, are no part of    *)
(* the promise.                                                            *)
(***************************************************************************)
EXTENDS Naturals

CONSTANT MaxSessions  \* the last session a behaviour uses

VARIABLES last,     \* the latest session, 0 before the first
          session,  \* the session there is, or 0
          ending,   \* a session that has ended and is not cleaned up, or 0
          offered,  \* which tools the MCP server offers: "debug" or "session"
          running   \* the sessions whose adapter is alive

lifeVars == <<last, session, ending, offered, running>>

Init ==
    /\ last = 0 /\ session = 0 /\ ending = 0
    /\ offered = "debug"
    /\ running = {}

\* Nothing runs and nothing is offered from the session before.
Start ==
    /\ session = 0 /\ ending = 0 /\ offered = "debug" /\ running = {}
    /\ last < MaxSessions
    /\ last' = last + 1
    /\ session' = last'
    /\ running' = {last'}
    /\ UNCHANGED <<ending, offered>>

Offer ==
    /\ session # 0
    /\ offered = "debug"
    /\ offered' = "session"
    /\ UNCHANGED <<last, session, ending, running>>

\* The tools go with the session.
End ==
    /\ session # 0 /\ ending = 0
    /\ session' = 0
    /\ ending' = session
    /\ offered' = "debug"
    /\ UNCHANGED <<last, running>>

CleanUp ==
    /\ ending # 0
    /\ ending' = 0
    /\ running' = running \ {ending}
    /\ UNCHANGED <<last, session, offered>>

\* An adapter may be over before its session is.
AdapterExits ==
    /\ \E c \in running : running' = running \ {c}
    /\ UNCHANGED <<last, session, ending, offered>>

Next == Start \/ Offer \/ End \/ CleanUp \/ AdapterExits

Spec == Init /\ [][Next]_lifeVars
==============================================================================
