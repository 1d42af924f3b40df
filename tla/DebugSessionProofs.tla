-------------------------- MODULE DebugSessionProofs --------------------------
(***************************************************************************)
(* What the session lock protects, for any number of calls and sessions.   *)
(* The three invariants below mention variables that only the holder of    *)
(* ds.mu writes, so the argument is first who the holder is (LockInv) and  *)
(* then what the holder may leave behind (SessionInv).                     *)
(*                                                                         *)
(* The many actions change the lock and the session in five ways only; a   *)
(* lemma for each way carries the invariant over, and the step lemma says  *)
(* which action changes them which way.                                    *)
(*                                                                         *)
(* The type invariant says more than types: no call has two requests open  *)
(* with one client.  That rests on what is on its way between a call and a *)
(* client (AnswerInv): at most one request, or one answer to it in one of  *)
(* two queues, and only while the call waits for it.  So a call that gives *)
(* up takes back everything it has asked, and may ask again.               *)
(*                                                                         *)
(* That the sessions implement SessionLife rests on the first invariant    *)
(* and on LifeInv: nothing happened to a client that does not exist yet.   *)
(***************************************************************************)
EXTENDS DebugSession, SequenceLemmas, FiniteSetTheorems, TLAPS

Types ==
    /\ mu \in Tools \union Clients \union {NoOne}
    /\ cleaning \in {"no", "retire", "shutdown"}
    /\ pc \in [Tools -> {"idle", "lock", "control", "spawn", "launch", "entry", "wait",
                         "context", "answer", "close", "ended", "cleanup"}]
    /\ op \in [Tools -> Offered \union {"none", "stop"}]
    /\ on \in [Tools -> 0..MaxSessions]
    /\ rl \in [Clients -> {"none", "read", "callback", "end", "lastCallback", "cleanup", "done"}]
    /\ closed \in [Clients -> BOOLEAN] /\ gone \in [Clients -> BOOLEAN]
    /\ started \in 0..MaxSessions /\ client \in 0..started /\ doomed \in 0..started
    /\ control \in {0, client}
    /\ registered \in {"debug", "session"}

\* A call that holds ds.mu, by where it is.
Holds(t) == \/ pc[t] \in {"spawn", "launch", "entry", "wait", "context", "cleanup"}
            \/ pc[t] = "answer" /\ op[t] \notin ControlOps

\* ds.mu has the holder that the calls and the read loops believe it has, and only
\* the holder is in cleanupLocked.
LockInv ==
    /\ \A t \in Tools : Holds(t) <=> mu = t
    /\ \A c \in Clients : rl[c] = "cleanup" <=> mu = c
    /\ cleaning # "no" <=> mu \in Clients \/ \E t \in Tools : pc[t] = "cleanup"
    /\ \A t \in Tools : /\ pc[t] \in {"spawn", "launch", "entry"} => op[t] = "debug"
                        /\ pc[t] \in {"wait", "context"} => op[t] \notin ControlOps

\* The tools may disagree with the session while debug has not seen its launch
\* accepted and before cleanupLocked has done its first half.
SessionInv ==
    /\ cleaning # "shutdown" => doomed = 0
    /\ cleaning = "shutdown" \/ (\E t \in Tools : pc[t] = "spawn")
          => client = 0 /\ registered = "debug"
    /\ \A t \in Tools : pc[t] \in {"launch", "entry"} => client # 0
    /\ \/ registered = "session" <=> client # 0
       \/ cleaning = "retire"
       \/ \E t \in Tools : pc[t] \in {"launch", "entry"}
    /\ AdaptersReaped
    /\ EndCleansItsSession

\* What follows cleanupLocked is the holder's own continuation.
AfterInv ==
    cleaning # "no" =>
        /\ mu \in Tools => after \in {"return", "spawn", "lock"}
        /\ mu \in Tools /\ after = "spawn" => op[mu] = "debug"
        /\ mu \in Clients => after \in {"read", "done"}

Inv == Types /\ LockInv /\ AfterInv /\ SessionInv

------------------------------------------------------------------------------
(* The ways to change the lock and the session.                             *)

\* Transports and adapters only ever end.
OnlyEnd ==
    /\ closed' \in [Clients -> BOOLEAN] /\ gone' \in [Clients -> BOOLEAN]
    /\ \A c \in Clients : (closed[c] => closed'[c]) /\ (gone[c] => gone'[c])

LEMMA Holder ==
    ASSUME Inv
    PROVE  /\ Tools \intersect Clients = {} /\ NoOne \notin Tools \union Clients
           /\ \A t \in Tools : Holds(t) <=> mu = t
           /\ \A t \in Tools : pc[t] = "cleanup" => mu = t
           /\ mu \in Tools => (cleaning # "no" <=> pc[mu] = "cleanup")
           /\ mu \in Clients => cleaning # "no"
           /\ mu = NoOne => cleaning = "no"
<1>1. Tools \intersect Clients = {} /\ NoOne \notin Tools \union Clients
  BY SessionAssumption DEF SessionAssumption, Clients
<1>2. \A t \in Tools : pc[t] = "cleanup" => Holds(t)
  BY DEF Holds
<1> QED
  BY <1>1, <1>2 DEF Inv, LockInv

\* Whatever else a step does, it leaves no adapter behind if it only ends more of them.
LEMMA StillReaped ==
    ASSUME Inv, OnlyEnd, started' = started,
           \A c \in 1..started : c \in {client, doomed} =>
               c \in {client', doomed'} \/ (closed'[c] /\ gone'[c])
    PROVE  AdaptersReaped'
<1>1. 1..started \subseteq Clients
  BY SessionAssumption DEF SessionAssumption, Inv, Types, Clients
<1>2. SUFFICES ASSUME NEW c \in 1..started, c \notin {client', doomed'}
               PROVE  closed'[c] /\ gone'[c]
  BY DEF AdaptersReaped
<1>3. CASE c \in {client, doomed}
  BY <1>2, <1>3
<1>4. CASE c \notin {client, doomed}
  BY <1>1, <1>4 DEF OnlyEnd, Inv, SessionInv, AdaptersReaped
<1> QED
  BY <1>3, <1>4

\* Nothing happens to the lock, and no call enters or leaves a holding position.
LEMMA Moves ==
    ASSUME Inv, OnlyEnd, UNCHANGED <<lockVars, sessionVars, rl>>,
           NEW t \in Tools, pc[t] \notin {"launch", "entry", "spawn", "cleanup"},
           NEW p \in {"idle", "lock", "control", "wait", "context", "answer", "close", "ended"},
           pc' = [pc EXCEPT ![t] = p],
           on' \in [Tools -> 0..MaxSessions], \A u \in Tools \ {t} : on'[u] = on[u],
           op' \in [Tools -> Offered \union {"none", "stop"}],
           \A u \in Tools \ {t} : op'[u] = op[u],
           Holds(t)' <=> Holds(t),
           p \in {"wait", "context"} => op'[t] \notin ControlOps
    PROVE  Inv'
<1>1. Types'
  BY DEF Inv, Types, OnlyEnd, lockVars, sessionVars
<1>2. \A u \in Tools \ {t} : pc'[u] = pc[u] /\ op'[u] = op[u] /\ on'[u] = on[u]
  BY DEF Inv, Types
<1>3. pc'[t] = p /\ p \notin {"launch", "entry", "spawn", "cleanup"}
  BY DEF Inv, Types
<1>4. LockInv'
  <2>1. \A u \in Tools : Holds(u)' <=> Holds(u)
    BY <1>2 DEF Holds
  <2>2. \A u \in Tools : pc'[u] = "cleanup" <=> pc[u] = "cleanup"
    BY <1>2, <1>3
  <2> QED
    BY <1>2, <1>3, <2>1, <2>2 DEF Inv, LockInv, lockVars
<1>5. \A u \in Tools : /\ pc'[u] \in {"launch", "entry"} <=> pc[u] \in {"launch", "entry"}
                       /\ pc'[u] = "spawn" <=> pc[u] = "spawn"
  BY <1>2, <1>3
<1>6. AdaptersReaped'
  BY StillReaped DEF lockVars, sessionVars
<1>7. EndCleansItsSession'
  <2>1. cleaning = "retire" /\ mu \in Tools => mu # t
    BY Holder
  <2> QED
    BY <1>2, <2>1 DEF Inv, SessionInv, EndCleansItsSession, lockVars, sessionVars
<1>8. AfterInv'
  BY <1>2, Holder DEF Inv, AfterInv, lockVars
<1> QED
  BY <1>1, <1>4, <1>5, <1>6, <1>7, <1>8 DEF Inv, SessionInv, lockVars, sessionVars

\* The lock is free and a call gets it to wait for an answer.
LEMMA Enters ==
    ASSUME Inv, NEW t \in Tools, mu = NoOne, mu' = t, pc[t] = "lock",
           op[t] \notin ControlOps, NEW p \in {"wait", "answer"},
           pc' = [pc EXCEPT ![t] = p], on' \in [Tools -> 0..MaxSessions],
           UNCHANGED <<op, cleaning, after, doomed, sessionVars, rl, closed, gone>>
    PROVE  Inv'
<1>1. Types'
  BY DEF Inv, Types, sessionVars
<1>2. pc'[t] = p /\ \A u \in Tools \ {t} : pc'[u] = pc[u]
  BY DEF Inv, Types
<1>3. Holds(t)' /\ \A u \in Tools \ {t} : Holds(u)' <=> Holds(u)
  BY <1>2 DEF Holds
<1>4. cleaning = "no" /\ \A u \in Tools : ~Holds(u)
  BY Holder
<1>5. t \notin Clients /\ NoOne \notin Clients
  BY Holder
<1>6. LockInv'
  BY <1>2, <1>3, <1>4, <1>5 DEF Inv, LockInv, Holds
<1>7. AdaptersReaped'
  BY StillReaped DEF OnlyEnd, Inv, Types, sessionVars
<1>8. EndCleansItsSession'
  BY <1>4 DEF EndCleansItsSession
<1>9. \A u \in Tools : /\ pc[u] \notin {"spawn", "launch", "entry"}
                       /\ pc'[u] \notin {"spawn", "launch", "entry"}
  BY <1>2, <1>4 DEF Holds
<1>10. AfterInv'
  BY <1>4 DEF AfterInv
<1> QED
  BY <1>1, <1>6, <1>7, <1>8, <1>9, <1>10 DEF Inv, SessionInv, sessionVars

\* A call returns; if it held the lock it was not in the middle of a start or a clean-up.
LEMMA Leaves ==
    ASSUME Inv, NEW t \in Tools, pc[t] \notin {"launch", "entry", "cleanup"}, Return(t),
           UNCHANGED <<sessionVars, rl, closed, gone>>
    PROVE  Inv'
<1>0. /\ pc' = [pc EXCEPT ![t] = "idle"] /\ on' = [on EXCEPT ![t] = 0]
      /\ op' = [op EXCEPT ![t] = "none"]
      /\ mu' = (IF mu = t THEN NoOne ELSE mu)
      /\ UNCHANGED <<cleaning, after, doomed>>
  BY DEF Return
<1>1. Types'
  BY <1>0, SessionAssumption DEF SessionAssumption, Inv, Types, sessionVars
<1>2. /\ pc'[t] = "idle"
      /\ \A u \in Tools \ {t} : pc'[u] = pc[u] /\ op'[u] = op[u] /\ on'[u] = on[u]
  BY <1>0 DEF Inv, Types
<1>3. ~Holds(t)' /\ \A u \in Tools \ {t} : Holds(u)' <=> Holds(u)
  BY <1>2 DEF Holds
<1>4. LockInv'
  <2>1. \A u \in Tools : Holds(u)' <=> mu' = u
    BY <1>0, <1>3, Holder
  <2>2. \A c \in Clients : mu' = c <=> mu = c
    BY <1>0, Holder
  <2>3. \A u \in Tools : pc'[u] = "cleanup" <=> pc[u] = "cleanup"
    BY <1>2
  <2>4. mu' \in Clients <=> mu \in Clients
    BY <1>0, Holder
  <2> QED
    BY <1>0, <1>2, <2>1, <2>2, <2>3, <2>4 DEF Inv, LockInv
<1>5. AdaptersReaped'
  BY <1>0, StillReaped DEF OnlyEnd, Inv, Types, sessionVars
<1>6. EndCleansItsSession'
  <2>1. cleaning = "retire" /\ mu \in Tools => mu # t
    BY Holder
  <2> QED
    BY <1>0, <1>2, <2>1, Holder DEF Inv, SessionInv, EndCleansItsSession, sessionVars
<1>7. \A u \in Tools : /\ pc'[u] \in {"launch", "entry"} <=> pc[u] \in {"launch", "entry"}
                       /\ pc'[u] = "spawn" => pc[u] = "spawn"
  BY <1>2
<1>8. AfterInv'
  BY <1>0, <1>2, Holder DEF Inv, AfterInv
<1> QED
  BY <1>0, <1>1, <1>4, <1>5, <1>6, <1>7, <1>8 DEF Inv, SessionInv, sessionVars

\* A call enters cleanupLocked, with the lock it holds or gets.
LEMMA Cleans ==
    ASSUME Inv, NEW t \in Tools, mu \in {NoOne, t}, pc[t] # "cleanup",
           NEW next \in {"return", "spawn", "lock"}, CleanUp(t, next),
           pc' = [pc EXCEPT ![t] = "cleanup"], next = "lock" => client = on[t],
           next = "spawn" => op[t] = "debug",
           UNCHANGED <<op, on, sessionVars, rl, closed, gone>>
    PROVE  Inv'
<1>0. mu' = t /\ cleaning' = "retire" /\ after' = next /\ doomed' = doomed
  BY DEF CleanUp
<1>1. Types'
  BY <1>0 DEF Inv, Types, sessionVars
<1>2. pc'[t] = "cleanup" /\ \A u \in Tools \ {t} : pc'[u] = pc[u]
  BY DEF Inv, Types
<1>3. Holds(t)' /\ \A u \in Tools \ {t} : Holds(u)' <=> Holds(u)
  BY <1>2 DEF Holds
<1>4. cleaning = "no" /\ t \notin Clients /\ NoOne \notin Clients
      /\ \A u \in Tools \ {t} : ~Holds(u)
  BY Holder
<1>5. LockInv'
  BY <1>0, <1>2, <1>3, <1>4 DEF Inv, LockInv
<1>6. AdaptersReaped'
  BY <1>0, StillReaped DEF OnlyEnd, Inv, Types, sessionVars
<1>7. EndCleansItsSession'
  BY <1>0, <1>4 DEF EndCleansItsSession, sessionVars
<1>8. \A u \in Tools : pc'[u] \notin {"spawn", "launch", "entry"}
  BY <1>2, <1>4 DEF Holds
<1>9. AfterInv'
  BY <1>0, <1>4 DEF AfterInv
<1> QED
  BY <1>0, <1>1, <1>4, <1>5, <1>6, <1>7, <1>8, <1>9 DEF Inv, SessionInv, sessionVars

\* A step that leaves the lock, the calls and the session alone.
LEMMA Quiet ==
    ASSUME Inv, OnlyEnd, UNCHANGED <<lockVars, sessionVars, pc, op, on>>,
           rl' \in [Clients -> {"none", "read", "callback", "end", "lastCallback",
                                "cleanup", "done"}],
           \A c \in Clients : rl'[c] = "cleanup" <=> rl[c] = "cleanup"
    PROVE  Inv'
<1>1. Types'
  BY DEF Inv, Types, OnlyEnd, lockVars, sessionVars
<1>2. LockInv'
  BY DEF Inv, LockInv, Holds, lockVars
<1>3. AdaptersReaped'
  BY StillReaped DEF lockVars, sessionVars
<1>4. EndCleansItsSession'
  BY DEF Inv, SessionInv, EndCleansItsSession, lockVars, sessionVars
<1>5. AfterInv'
  BY DEF Inv, AfterInv, lockVars
<1> QED
  BY <1>1, <1>2, <1>3, <1>4, <1>5 DEF Inv, SessionInv, lockVars, sessionVars

\* A call that is waiting, or about to ask for the stack, gives up.
LEMMA GivesUp ==
    ASSUME Inv, NEW t \in Tools, pc[t] \in {"launch", "entry", "wait", "context", "answer"},
           GiveUp(t), UNCHANGED <<sessionVars, rl, closed, gone>>
    PROVE  Inv'
<1>1. CASE op[t] = "stop"
  <2>1. pc' = [pc EXCEPT ![t] = "close"] /\ UNCHANGED <<op, on, lockVars>>
    BY <1>1 DEF GiveUp
  <2>2. pc[t] = "answer"
    BY <1>1 DEF Inv, LockInv, ControlOps
  <2>3. ~Holds(t) /\ ~Holds(t)'
    BY <1>1, <2>1, <2>2 DEF Holds, ControlOps, Inv, Types
  <2>4. on' \in [Tools -> 0..MaxSessions] /\ op' \in [Tools -> Offered \union {"none", "stop"}]
    BY <2>1 DEF Inv, Types
  <2> QED
    BY <2>1, <2>2, <2>3, <2>4, Moves DEF OnlyEnd, Inv, Types
<1>2. CASE op[t] # "stop" /\ (op[t] = "detach" \/ (op[t] = "debug" /\ ~AtEntry(t)))
  <2>1. CleanUp(t, "return") /\ pc' = [pc EXCEPT ![t] = "cleanup"] /\ UNCHANGED <<op, on>>
    BY <1>2 DEF GiveUp
  <2>2. mu = t
    BY <1>2, Holder DEF Holds, ControlOps
  <2> QED
    BY <2>1, <2>2, Cleans
<1>3. CASE op[t] # "stop" /\ ~(op[t] = "detach" \/ (op[t] = "debug" /\ ~AtEntry(t)))
  <2>1. Return(t)
    BY <1>3 DEF GiveUp
  <2>2. pc[t] \notin {"launch", "entry"}
    BY <1>3 DEF Inv, LockInv, AtEntry
  <2> QED
    BY <2>1, <2>2, Leaves
<1> QED
  BY <1>1, <1>2, <1>3

\* An execution wait goes on, or has all it waited for.
LEMMA Continues ==
    ASSUME Inv, NEW t \in Tools, pc[t] = "wait", pc' \in {pc, [pc EXCEPT ![t] = "context"]},
           UNCHANGED <<op, on, lockVars, sessionVars, rl, closed, gone>>
    PROVE  Inv'
<1>0. OnlyEnd
  BY DEF Inv, Types, OnlyEnd
<1>1. CASE pc' = pc
  BY <1>0, <1>1, Quiet DEF Inv, Types
<1>2. CASE pc' = [pc EXCEPT ![t] = "context"]
  <2>1. pc'[t] = "context"
    BY <1>2 DEF Inv, Types
  <2>2. Holds(t) /\ Holds(t)' /\ op[t] \notin ControlOps
    BY <2>1 DEF Holds, Inv, LockInv
  <2> QED
    BY <1>0, <1>2, <2>2, Moves DEF Inv, Types
<1> QED
  BY <1>1, <1>2

\* debug offers the session tools and goes on, if it does, behind the launch.
LEMMA Registers ==
    ASSUME Inv, NEW t \in Tools, pc[t] \in {"launch", "entry"}, registered' = "session",
           NEW p \in {"launch", "entry", "wait", "context"}, pc' = [pc EXCEPT ![t] = p],
           UNCHANGED <<op, on, lockVars, client, control, started, rl, closed, gone>>
    PROVE  Inv'
<1>1. Types'
  BY DEF Inv, Types, lockVars
<1>2. pc'[t] = p /\ \A u \in Tools \ {t} : pc'[u] = pc[u]
  BY DEF Inv, Types
<1>3. op[t] = "debug" /\ op[t] \notin ControlOps /\ client # 0
  BY DEF Inv, LockInv, SessionInv, ControlOps
<1>4. mu = t /\ cleaning = "no" /\ t \notin Clients /\ \A u \in Tools \ {t} : ~Holds(u)
  BY Holder DEF Holds
<1>5. \A u \in Tools : Holds(u)' <=> Holds(u)
  BY <1>2 DEF Holds
<1>6. LockInv'
  BY <1>2, <1>3, <1>4, <1>5 DEF Inv, LockInv, lockVars
<1>7. AdaptersReaped'
  BY StillReaped DEF OnlyEnd, Inv, Types, lockVars
<1>8. EndCleansItsSession'
  BY <1>4 DEF EndCleansItsSession, lockVars
<1>9. \A u \in Tools : pc'[u] # "spawn"
  BY <1>2, <1>4 DEF Holds
<1>10. AfterInv'
  BY <1>4 DEF AfterInv, lockVars
<1> QED
  BY <1>1, <1>2, <1>3, <1>4, <1>6, <1>7, <1>8, <1>9, <1>10 DEF Inv, SessionInv, lockVars

------------------------------------------------------------------------------
(* The steps.                                                               *)

LEMMA Start == Init => Inv
<1> SUFFICES ASSUME Init PROVE Inv
  OBVIOUS
<1> USE DEF Init
<1>1. Types
  BY SessionAssumption DEF SessionAssumption, Types
<1>2. LockInv
  BY SessionAssumption DEF SessionAssumption, LockInv, Holds, Clients
<1>3. AfterInv /\ SessionInv
  BY SessionAssumption DEF SessionAssumption, AfterInv, SessionInv, AdaptersReaped, EndCleansItsSession
<1> QED
  BY <1>1, <1>2, <1>3 DEF Inv

\* A call is made, or takes the lock.
LEMMA LockSteps ==
    ASSUME Inv, NEW t \in Tools,
           LockStep(t) \/ \E tool \in OfferedTo(t) : Call(t, tool)
    PROVE  Inv'
<1> USE DEF Acquire
<1>0. UNCHANGED <<closed, gone>> => OnlyEnd
  BY DEF Inv, Types, OnlyEnd
<1>1. ASSUME NEW tool \in OfferedTo(t), Call(t, tool) PROVE Inv'
  <2>1. /\ pc[t] = "idle" /\ op' = [op EXCEPT ![t] = tool]
        /\ pc' = [pc EXCEPT ![t] = IF tool \in ControlOps THEN "control" ELSE "lock"]
        /\ UNCHANGED <<on, lockVars, sessionVars, rl, closed, gone>>
    BY <1>1 DEF Call, clientVars, adapterVars
  <2>2. tool \in Offered \union {"none", "stop"}
    BY SessionAssumption DEF SessionAssumption, OfferedTo
  <2>3. op' \in [Tools -> Offered \union {"none", "stop"}] /\ on' \in [Tools -> 0..MaxSessions]
        /\ \A u \in Tools \ {t} : op'[u] = op[u]
    BY <2>1, <2>2 DEF Inv, Types
  <2>4. ~Holds(t) /\ ~Holds(t)'
    BY <2>1 DEF Holds, Inv, Types
  <2> DEFINE p == IF tool \in ControlOps THEN "control" ELSE "lock"
  <2>5. p \in {"control", "lock"} /\ pc' = [pc EXCEPT ![t] = p]
    BY <2>1
  <2> HIDE DEF p
  <2> QED
    BY <1>0, <2>1, <2>3, <2>4, <2>5, Moves DEF OnlyEnd, Inv, Types
<1>2. CASE NotStarted(t)
  BY <1>2, Leaves DEF NotStarted
<1>3. CASE Debug(t)
  <2>1. UNCHANGED <<op, on, sessionVars, rl, closed, gone>>
    BY <1>3 DEF Debug, clientVars, adapterVars
  <2> QED
    BY <1>3, <2>1, Cleans DEF Debug
<1>4. CASE Execute(t)
  <2>1. /\ pc' = [pc EXCEPT ![t] = "wait"] /\ on' = [on EXCEPT ![t] = client]
        /\ UNCHANGED <<op, cleaning, after, doomed, sessionVars, rl, closed, gone>>
    BY <1>4 DEF Execute, Ask, clientVars
  <2>2. on' \in [Tools -> 0..MaxSessions]
    BY <2>1, SessionAssumption DEF SessionAssumption, Inv, Types
  <2>3. op[t] \notin ControlOps /\ mu = NoOne /\ mu' = t /\ pc[t] = "lock"
    BY <1>4 DEF Execute, ControlOps
  <2> QED
    BY <2>1, <2>2, <2>3, Enters
<1>5. CASE Request(t)
  <2>1. /\ pc' = [pc EXCEPT ![t] = "answer"] /\ on' = [on EXCEPT ![t] = client]
        /\ UNCHANGED <<op, cleaning, after, doomed, sessionVars, rl, closed, gone>>
    BY <1>5 DEF Request, Ask, clientVars
  <2>2. on' \in [Tools -> 0..MaxSessions]
    BY <2>1, SessionAssumption DEF SessionAssumption, Inv, Types
  <2>3. op[t] \notin ControlOps /\ mu = NoOne /\ mu' = t /\ pc[t] = "lock"
    BY <1>5 DEF Request, ControlOps
  <2> QED
    BY <2>1, <2>2, <2>3, Enters
<1>6. CASE WriteFails(t)
  <2>1. CASE op[t] = "detach"
    BY <1>6, <2>1, Cleans DEF WriteFails
  <2>2. CASE op[t] # "detach"
    BY <1>6, <2>2, Leaves DEF WriteFails
  <2> QED
    BY <2>1, <2>2
<1>7. CASE StopLocked(t)
  <2>1. UNCHANGED <<op, on, sessionVars, rl, closed, gone>>
    BY <1>7 DEF StopLocked, clientVars, adapterVars
  <2> QED
    BY <1>7, <2>1, Cleans DEF StopLocked
<1>8. CASE ClientEnded(t)
  <2>1. /\ pc[t] = "ended" /\ mu = NoOne
        /\ UNCHANGED <<op, on, sessionVars, rl, closed, gone>>
    BY <1>8 DEF ClientEnded, clientVars, adapterVars
  <2>2. CASE EndsSession(on[t])
    BY <1>8, <2>1, <2>2, Cleans DEF ClientEnded, EndsSession
  <2>3. CASE ~EndsSession(on[t])
    <3>1. pc' = [pc EXCEPT ![t] = "lock"] /\ UNCHANGED lockVars
      BY <1>8, <2>3 DEF ClientEnded
    <3>2. ~Holds(t) /\ ~Holds(t)'
      BY <2>1, <3>1 DEF Holds, Inv, Types
    <3> QED
      BY <1>0, <2>1, <3>1, <3>2, Moves DEF Inv, Types
  <2> QED
    BY <2>2, <2>3
<1> QED
  BY <1>1, <1>2, <1>3, <1>4, <1>5, <1>6, <1>7, <1>8 DEF LockStep

\* A call that waits takes a message or gives up.
LEMMA WaitSteps == ASSUME Inv, NEW t \in Tools, WaitStep(t) \/ Cancel(t) PROVE Inv'
<1> USE DEF Waiting
<1>0. UNCHANGED <<closed, gone>> => OnlyEnd
  BY DEF Inv, Types, OnlyEnd
<1>1. CASE WaitFails(t) \/ Cancel(t)
  BY <1>1, GivesUp DEF WaitFails, Cancel
<1>2. CASE LaunchRefused(t)
  BY <1>2, GivesUp DEF LaunchRefused
<1>3. CASE Launched(t)
  <2>1. /\ pc[t] \in {"launch", "entry"} /\ registered' = "session"
        /\ \E p \in {"wait", "context"} : pc' = [pc EXCEPT ![t] = p]
        /\ UNCHANGED <<op, on, lockVars, client, control, started, rl, closed, gone>>
    BY <1>3 DEF Launched, RegisterSessionTools
  <2> QED
    BY <2>1, Registers
<1>4. CASE Answered(t)
  <2>1. CASE GiveUp(t)
    BY <1>4, <2>1, GivesUp DEF Answered, Answer
  <2>2. CASE Return(t)
    BY <1>4, <2>2, Leaves DEF Answered, Answer
  <2>3. \/ GiveUp(t) \/ Return(t)
    BY <1>4 DEF Answered
  <2> QED
    BY <2>1, <2>2, <2>3
<1>5. CASE TakeResponse(t)
  <2>1. pc[t] = "wait" /\ UNCHANGED <<sessionVars, rl, closed, gone>>
    BY <1>5 DEF TakeResponse
  <2>2. CASE GiveUp(t)
    BY <2>1, <2>2, GivesUp
  <2>3. CASE /\ UNCHANGED <<op, on, lockVars>>
             /\ pc' = (IF seen[t].stopped THEN [pc EXCEPT ![t] = "context"] ELSE pc)
    BY <2>1, <2>3, Continues
  <2> QED
    BY <1>5, <2>2, <2>3 DEF TakeResponse
<1>6. CASE TakeStop(t)
  <2>1. /\ pc[t] = "wait" /\ UNCHANGED <<op, on, lockVars, sessionVars, rl, closed, gone>>
        /\ pc' = (IF seen[t].response THEN [pc EXCEPT ![t] = "context"] ELSE pc)
    BY <1>6 DEF TakeStop, adapterVars
  <2> QED
    BY <2>1, Continues
<1>7. CASE TakeTerminated(t)
  <2>1. mu = t
    BY <1>7, Holder DEF TakeTerminated, Holds
  <2> QED
    BY <1>7, <2>1, Cleans DEF TakeTerminated
<1> QED
  BY <1>1, <1>2, <1>3, <1>4, <1>5, <1>6, <1>7 DEF WaitStep

\* The other steps of a call.
LEMMA OwnSteps == ASSUME Inv, NEW t \in Tools, OwnStep(t) PROVE Inv'
<1>0. UNCHANGED <<closed, gone>> => OnlyEnd
  BY DEF Inv, Types, OnlyEnd
<1>1. CASE DebugFails(t)
  BY <1>1, Leaves DEF DebugFails
<1>2. CASE Spawn(t)
  <2>0. PICK path \in {"launch", "entry"} : Ask(t, started', path, path)
    BY <1>2 DEF Spawn
  <2>1. /\ pc[t] = "spawn" /\ started < MaxSessions /\ started' = started + 1
        /\ client' = started + 1 /\ control' = started + 1
        /\ rl' = [rl EXCEPT ![started + 1] = "read"]
        /\ pc' = [pc EXCEPT ![t] = path] /\ on' = [on EXCEPT ![t] = started + 1]
        /\ UNCHANGED <<op, registered, lockVars, closed, gone>>
    BY <1>2, <2>0 DEF Spawn, Ask
  <2>2. /\ mu = t /\ t \notin Clients /\ cleaning = "no" /\ doomed = 0
        /\ client = 0 /\ registered = "debug" /\ op[t] = "debug"
        /\ \A u \in Tools \ {t} : ~Holds(u)
    BY <2>1, Holder DEF Holds, Inv, SessionInv, LockInv
  <2>3. started + 1 \in Clients /\ started \in Nat
    BY <2>1, SessionAssumption DEF SessionAssumption, Inv, Types, Clients
  <2>4. Types'
    BY <2>1, <2>2, <2>3, SessionAssumption
       DEF SessionAssumption, Inv, Types, Clients, lockVars
  <2>5. pc'[t] = path /\ \A u \in Tools \ {t} : pc'[u] = pc[u]
    BY <2>1 DEF Inv, Types
  <2>6. \A u \in Tools : Holds(u)' <=> Holds(u)
    BY <2>1, <2>5 DEF Holds
  <2>7. \A c \in Clients : rl'[c] = "cleanup" <=> rl[c] = "cleanup"
    <3>1. rl[started + 1] # "cleanup"
      BY <2>2, <2>3 DEF Inv, LockInv
    <3> QED
      BY <2>1, <2>3, <3>1 DEF Inv, Types
  <2>8. LockInv'
    BY <2>1, <2>2, <2>5, <2>6, <2>7 DEF Inv, LockInv, lockVars
  <2>9. AdaptersReaped'
    <3>1. \A c \in 1..(started + 1) : c # started + 1 => c \in 1..started /\ c # 0
      BY <2>3
    <3> QED
      BY <2>1, <2>2, <3>1 DEF Inv, SessionInv, AdaptersReaped, lockVars
  <2>10. EndCleansItsSession'
    BY <2>1, <2>2 DEF EndCleansItsSession, lockVars
  <2>11. client' # 0 /\ \A u \in Tools : pc'[u] # "spawn"
    BY <2>1, <2>2, <2>3, <2>5 DEF Holds
  <2>12. AfterInv'
    BY <2>1, <2>2 DEF AfterInv, lockVars
  <2> QED
    BY <2>1, <2>2, <2>4, <2>5, <2>8, <2>9, <2>10, <2>11, <2>12 DEF Inv, SessionInv, lockVars
<1>3. CASE Configured(t)
  <2>1. /\ pc[t] \in {"launch", "entry"} /\ registered' = "session"
        /\ UNCHANGED <<op, on, lockVars, client, control, started, rl, closed, gone>>
        /\ pc' \in {pc, [pc EXCEPT ![t] = "wait"]}
    BY <1>3 DEF Configured, RegisterSessionTools, clientVars, adapterVars
  <2>2. pc = [pc EXCEPT ![t] = pc[t]]
    BY DEF Inv, Types
  <2>3. \E p \in {"launch", "entry", "wait"} : pc' = [pc EXCEPT ![t] = p]
    BY <2>1, <2>2
  <2> QED
    BY <2>1, <2>3, Registers
<1>4. CASE Context(t)
  <2>1. pc[t] = "context" /\ UNCHANGED <<sessionVars, rl, closed, gone>>
    BY <1>4 DEF Context
  <2>2. CASE GiveUp(t)
    BY <2>1, <2>2, GivesUp
  <2>3. CASE Ask(t, on[t], "stackTrace", "answer") /\ UNCHANGED <<op, lockVars>>
    <3>1. pc' = [pc EXCEPT ![t] = "answer"] /\ on' = [on EXCEPT ![t] = on[t]]
      BY <2>3 DEF Ask
    <3>2. pc'[t] = "answer" /\ op[t] \notin ControlOps /\ op' = op
      BY <2>1, <2>3, <3>1 DEF Inv, Types, LockInv
    <3>3. Holds(t) /\ Holds(t)'
      BY <2>1, <3>2 DEF Holds
    <3>4. on' \in [Tools -> 0..MaxSessions] /\ \A u \in Tools \ {t} : on'[u] = on[u]
      BY <3>1 DEF Inv, Types
    <3> QED
      BY <1>0, <2>1, <2>3, <3>1, <3>2, <3>3, <3>4, Moves DEF Inv, Types
  <2> QED
    BY <1>4, <2>2, <2>3 DEF Context
<1>5. CASE Pause(t)
  <2>1. /\ pc[t] = "control" /\ op[t] = "pause" /\ UNCHANGED <<sessionVars, rl, closed, gone>>
    BY <1>5 DEF Pause
  <2>2. CASE Return(t)
    BY <2>1, <2>2, Leaves
  <2>3. CASE Ask(t, control, "pause", "answer") /\ UNCHANGED <<op, lockVars>>
    <3>1. pc' = [pc EXCEPT ![t] = "answer"] /\ on' = [on EXCEPT ![t] = control]
      BY <2>3 DEF Ask
    <3>2. ~Holds(t) /\ ~Holds(t)'
      BY <2>1, <2>3, <3>1 DEF Holds, ControlOps, Inv, Types
    <3>3. on' \in [Tools -> 0..MaxSessions] /\ \A u \in Tools \ {t} : on'[u] = on[u]
      BY <3>1, SessionAssumption DEF SessionAssumption, Inv, Types
    <3> QED
      BY <1>0, <2>1, <2>3, <3>1, <3>2, <3>3, Moves DEF Inv, Types
  <2> QED
    BY <1>5, <2>2, <2>3 DEF Pause
<1>6. CASE Stop(t)
  <2>1. /\ pc[t] = "control" /\ op[t] = "stop"
        /\ UNCHANGED <<op, lockVars, sessionVars, rl, closed, gone>>
    BY <1>6 DEF Stop, clientVars
  <2>2. PICK p \in {"lock", "close", "answer"} :
          /\ pc' = [pc EXCEPT ![t] = p]
          /\ on' = on \/ on' = [on EXCEPT ![t] = control]
    BY <1>6 DEF Stop, Ask
  <2>3. ~Holds(t) /\ ~Holds(t)'
    BY <2>1, <2>2 DEF Holds, ControlOps, Inv, Types
  <2>4. on' \in [Tools -> 0..MaxSessions] /\ \A u \in Tools \ {t} : on'[u] = on[u]
    BY <2>2, SessionAssumption DEF SessionAssumption, Inv, Types
  <2> QED
    BY <1>0, <2>1, <2>2, <2>3, <2>4, Moves DEF Inv, Types
<1>7. CASE CloseClient(t)
  <2>1. /\ pc[t] = "close" /\ closed' = [closed EXCEPT ![on[t]] = TRUE]
        /\ UNCHANGED <<op, on, lockVars, sessionVars, rl, gone>>
    BY <1>7 DEF CloseClient, Close, adapterVars
  <2>2. PICK p \in {"lock", "ended"} : pc' = [pc EXCEPT ![t] = p]
    BY <1>7 DEF CloseClient
  <2>3. ~Holds(t) /\ ~Holds(t)'
    BY <2>1, <2>2 DEF Holds, Inv, Types
  <2>4. OnlyEnd
    BY <2>1 DEF OnlyEnd, Inv, Types
  <2> QED
    BY <2>1, <2>2, <2>3, <2>4, Moves DEF Inv, Types
<1> QED
  BY <1>1, <1>2, <1>3, <1>4, <1>5, <1>6, <1>7 DEF OwnStep

\* The first half of cleanupLocked.
LEMMA Retires == ASSUME Inv, Retire PROVE Inv'
<1>1. /\ cleaning = "retire" /\ registered' = "debug" /\ doomed' = client
      /\ client' = 0 /\ control' = 0 /\ cleaning' = "shutdown"
      /\ UNCHANGED <<mu, after, started, pc, op, on, rl, closed, gone>>
  BY DEF Retire, UnregisterSessionTools, callVars, clientVars, adapterVars
<1>2. Types'
  BY <1>1, SessionAssumption DEF SessionAssumption, Inv, Types
<1>3. LockInv'
  BY <1>1 DEF Inv, LockInv, Holds
<1>4. doomed = 0
  BY <1>1 DEF Inv, SessionInv
<1>5. AdaptersReaped'
  BY <1>1, <1>4 DEF Inv, SessionInv, AdaptersReaped
<1>6. EndCleansItsSession'
  BY <1>1 DEF EndCleansItsSession
<1>7. \A t \in Tools : pc[t] \notin {"launch", "entry"}
  BY <1>1, Holder DEF Holds
<1>8. AfterInv'
  BY <1>1 DEF Inv, AfterInv
<1> QED
  BY <1>1, <1>2, <1>3, <1>5, <1>6, <1>7, <1>8 DEF Inv, SessionInv

\* The second half: debug keeps the lock, everyone else gives it back.
LEMMA Reaps == ASSUME Inv, Reap PROVE Inv'
<1>1. /\ cleaning = "shutdown" /\ cleaning' = "no" /\ doomed' = 0 /\ after' = "return"
      /\ closed' = [c \in Clients |-> closed[c] \/ c = doomed]
      /\ gone' = [c \in Clients |-> gone[c] \/ c = doomed]
      /\ mu' = (IF after = "spawn" THEN mu ELSE NoOne)
      /\ UNCHANGED sessionVars
  BY DEF Reap, Kills
<1>2. client = 0 /\ registered = "debug" /\ OnlyEnd
  BY <1>1 DEF Inv, SessionInv, OnlyEnd, Types
<1>3. AdaptersReaped'
  <2>1. 1..started \subseteq Clients
    BY SessionAssumption DEF SessionAssumption, Inv, Types, Clients
  <2> QED
    BY <1>1, <1>2, <2>1, StillReaped DEF sessionVars
<1>4. EndCleansItsSession'
  BY <1>1 DEF EndCleansItsSession
<1>5. CASE mu \in Tools
  <2>1. /\ pc' = [pc EXCEPT ![mu] = IF after = "return" THEN "idle" ELSE after]
        /\ on' = [on EXCEPT ![mu] = IF after = "lock" THEN on[mu] ELSE 0]
        /\ op' = [op EXCEPT ![mu] = IF after = "return" THEN "none" ELSE op[mu]]
        /\ rl' = rl
    BY <1>5 DEF Reap
  <2>2. after \in {"return", "spawn", "lock"} /\ (after = "spawn" => op[mu] = "debug")
    BY <1>1, <1>5 DEF Inv, AfterInv
  <2>3. Types'
    BY <1>1, <1>2, <1>5, <2>1, <2>2, SessionAssumption
       DEF SessionAssumption, Inv, Types, OnlyEnd, sessionVars
  <2>4. /\ pc'[mu] = (IF after = "return" THEN "idle" ELSE after)
        /\ op'[mu] = (IF after = "return" THEN "none" ELSE op[mu])
        /\ \A u \in Tools \ {mu} : pc'[u] = pc[u] /\ op'[u] = op[u]
    BY <1>5, <2>1 DEF Inv, Types
  <2>5. /\ \A u \in Tools \ {mu} : ~Holds(u) /\ ~Holds(u)'
        /\ mu \notin Clients /\ NoOne \notin Tools \union Clients
        /\ \A c \in Clients : rl[c] # "cleanup"
    BY <1>5, <2>4, Holder DEF Holds, Inv, LockInv
  <2>6. \A u \in Tools : pc'[u] \notin {"launch", "entry", "cleanup", "wait", "context"}
    BY <2>2, <2>4, <2>5 DEF Holds
  <2>7. LockInv'
    <3>1. \A u \in Tools : u = mu => (Holds(u)' <=> after = "spawn")
      BY <2>2, <2>4 DEF Holds
    <3>2. \A u \in Tools : Holds(u)' <=> mu' = u
      BY <1>1, <1>5, <2>5, <3>1
    <3>3. mu' \notin Clients /\ \A c \in Clients : rl'[c] # "cleanup" /\ mu' # c
      BY <1>1, <2>1, <2>5
    <3>4. \A u \in Tools : pc'[u] \in {"spawn", "launch", "entry"} => op'[u] = "debug"
      BY <2>2, <2>4, <2>5, <2>6 DEF Holds
    <3> QED
      BY <1>1, <2>6, <3>2, <3>3, <3>4 DEF LockInv
  <2> QED
    BY <1>1, <1>2, <1>3, <1>4, <2>3, <2>6, <2>7 DEF Inv, SessionInv, AfterInv, sessionVars
<1>6. CASE mu \in Clients
  <2>1. mu \notin Tools
    BY <1>6, Holder
  <2>2. rl' = [rl EXCEPT ![mu] = after] /\ UNCHANGED <<pc, op, on>>
    BY <2>1 DEF Reap, callVars
  <2>3. after \in {"read", "done"} /\ mu' = NoOne
    BY <1>1, <1>6, <2>1 DEF Inv, AfterInv
  <2>4. Types'
    BY <1>1, <1>2, <1>6, <2>2, <2>3, SessionAssumption
       DEF SessionAssumption, Inv, Types, OnlyEnd, sessionVars
  <2>5. /\ \A u \in Tools : ~Holds(u) /\ ~Holds(u)' /\ NoOne # u
        /\ NoOne \notin Clients
    BY <1>6, <2>1, <2>2, Holder DEF Holds
  <2>6. \A u \in Tools : pc'[u] \notin {"spawn", "launch", "entry", "cleanup", "wait", "context"}
    BY <2>2, <2>5 DEF Holds
  <2>7. LockInv'
    <3>1. \A c \in Clients : rl'[c] # "cleanup"
      BY <1>6, <2>2, <2>3 DEF Inv, Types, LockInv
    <3> QED
      BY <1>1, <2>3, <2>5, <2>6, <3>1 DEF LockInv
  <2> QED
    BY <1>1, <1>2, <1>3, <1>4, <2>4, <2>6, <2>7 DEF Inv, SessionInv, AfterInv, sessionVars
<1> QED
  BY <1>1, <1>5, <1>6, Holder DEF Inv, Types

\* The read loops and the adapters: only a callback takes the lock.
LEMMA ClientSteps ==
    ASSUME Inv, NEW c \in Clients, LoopStep(c) \/ Callback(c) \/ Adapter(c)
    PROVE  Inv'
<1>1. CASE Callback(c) /\ EndsSession(c)
  <2>1. /\ client = c /\ mu = NoOne
        /\ mu' = c /\ cleaning' = "retire" /\ doomed' = doomed /\ after' \in {"read", "done"}
        /\ rl' = [rl EXCEPT ![c] = "cleanup"]
        /\ UNCHANGED <<sessionVars, pc, op, on, closed, gone>>
    BY <1>1 DEF Callback, CleanUp, EndsSession, callVars, adapterVars
  <2>2. cleaning = "no" /\ c \notin Tools /\ NoOne \notin Tools \union Clients
        /\ \A t \in Tools : ~Holds(t)
    BY <2>1, Holder
  <2>3. Types'
    BY <2>1 DEF Inv, Types, sessionVars
  <2>4. LockInv'
    <3>1. \A d \in Clients : rl'[d] = "cleanup" <=> d = c
      BY <2>1, <2>2 DEF Inv, Types, LockInv
    <3>2. \A t \in Tools : ~Holds(t)'
      BY <2>1, <2>2 DEF Holds
    <3> QED
      BY <2>1, <2>2, <3>1, <3>2 DEF Inv, LockInv
  <2>5. AdaptersReaped'
    BY <2>1, StillReaped DEF OnlyEnd, Inv, Types, sessionVars
  <2>6. EndCleansItsSession' /\ AfterInv'
    BY <2>1, <2>2 DEF EndCleansItsSession, AfterInv, sessionVars
  <2>7. \A t \in Tools : pc'[t] \notin {"spawn", "launch", "entry"}
    BY <2>1, <2>2 DEF Holds
  <2> QED
    BY <2>1, <2>2, <2>3, <2>4, <2>5, <2>6, <2>7 DEF Inv, SessionInv, sessionVars
<1>2. CASE Callback(c) /\ ~EndsSession(c)
  <2>1. /\ rl[c] # "cleanup" /\ UNCHANGED <<lockVars, sessionVars, pc, op, on, closed, gone>>
        /\ rl' = [rl EXCEPT ![c] = IF rl[c] = "callback" THEN "read" ELSE "done"]
    BY <1>2 DEF Callback, callVars, adapterVars
  <2>2. OnlyEnd
    BY <2>1 DEF OnlyEnd, Inv, Types
  <2> QED
    BY <2>1, <2>2, Quiet DEF Inv, Types
<1>3. CASE LoopStep(c)
  <2>1. /\ rl[c] # "cleanup" /\ UNCHANGED <<lockVars, sessionVars, pc, op, on, gone>>
        /\ \/ rl' = rl
           \/ rl' = [rl EXCEPT ![c] = "callback"] \/ rl' = [rl EXCEPT ![c] = "end"]
           \/ rl' = [rl EXCEPT ![c] = "done"] \/ rl' = [rl EXCEPT ![c] = "lastCallback"]
        /\ closed' = closed \/ closed' = [closed EXCEPT ![c] = TRUE]
    BY <1>3 DEF LoopStep, Deliver, ReadFails, EndLoop, LoopEnds, callVars, adapterVars
  <2>2. OnlyEnd
    BY <2>1 DEF OnlyEnd, Inv, Types
  <2> QED
    BY <2>1, <2>2, Quiet DEF Inv, Types
<1>4. CASE Adapter(c)
  <2>1. /\ UNCHANGED <<lockVars, sessionVars, pc, op, on, rl, closed>>
        /\ gone' = gone \/ gone' = [gone EXCEPT ![c] = TRUE]
    BY <1>4 DEF Adapter, Serve, TargetStops, TargetTerminates, AdapterExits, callVars, clientVars
  <2>2. OnlyEnd
    BY <2>1 DEF OnlyEnd, Inv, Types
  <2> QED
    BY <2>1, <2>2, Quiet DEF Inv, Types
<1> QED
  BY <1>1, <1>2, <1>3, <1>4

LEMMA Step == Inv /\ [Next]_vars => Inv'
<1> SUFFICES ASSUME Inv, [Next]_vars PROVE Inv'
  OBVIOUS
<1>1. CASE UNCHANGED vars
  BY <1>1, Quiet
     DEF vars, callVars, clientVars, adapterVars, OnlyEnd, Inv, Types
<1>2. ASSUME NEW t \in Tools,
             \/ \E tool \in OfferedTo(t) : Call(t, tool)
             \/ LockStep(t) \/ WaitStep(t) \/ OwnStep(t) \/ Cancel(t)
      PROVE  Inv'
  BY <1>2, LockSteps, WaitSteps, OwnSteps
<1>3. CASE CleanupStep
  BY <1>3, Retires, Reaps DEF CleanupStep
<1>4. ASSUME NEW c \in Clients, LoopStep(c) \/ Callback(c) \/ Adapter(c) PROVE Inv'
  BY <1>4, ClientSteps
<1> QED
  BY <1>1, <1>2, <1>3, <1>4 DEF Next

------------------------------------------------------------------------------
(* The answers: what is on its way between the calls and the clients.       *)

Commands == {"launch", "entry", "continue", "pause", "evaluate", "stackTrace", "detach",
             "disconnect"}
Asking   == [command : Commands, to : Tools \union {NoOne}]
Message  == [type : {"response", "stopped", "terminated"}, to : Tools \union {NoOne},
             ok : BOOLEAN, stop : Nat]

\* What the queues between calls and adapters hold.
WireTypes ==
    /\ asked \in [Clients -> SUBSET Asking]
    /\ stream \in [Clients -> Seq(Message)] /\ inbox \in [Clients -> Seq(Message)]

\* What an execution wait has seen.
Sight == [response : BOOLEAN, left : Nat, stopped : BOOLEAN, stop : Nat]

\* The rest of TypeOK that Types leaves out.
OtherTypes ==
    /\ after \in {"return", "spawn", "lock", "read", "done"}
    /\ seen \in [Tools -> Sight]
    /\ readErr \in [Clients -> BOOLEAN]
    /\ target \in [Clients -> {"none", "running", "stopped", "ended"}]
    /\ stops \in [Clients -> 0..MaxStops]

\* A call waits for the answer to a request it has written.
Owed(t) == pc[t] \in {"launch", "entry", "answer"} \/ (pc[t] = "wait" /\ ~seen[t].response)

\* No message, and at most one message, of s is for t.
Free(t, s)   == \A i \in 1..Len(s) : s[i].to # t
Single(t, s) == \A i, j \in 1..Len(s) : s[i].to = t /\ s[j].to = t => i = j

\* No request of t is open with c, and no answer to it is on its way.
Unasked(t, c) == \A q \in asked[c] : q.to # t

Clear(t, c) == Unasked(t, c) /\ Free(t, stream[c]) /\ Free(t, inbox[c])

\* There is one request or one answer at most.
AtMostOne(t, c) ==
    /\ \A q, r \in asked[c] : q.to = t /\ r.to = t => q = r
    /\ Single(t, stream[c]) /\ Single(t, inbox[c])
    /\ \/ Free(t, stream[c]) /\ Free(t, inbox[c])
       \/ Unasked(t, c) /\ (Free(t, stream[c]) \/ Free(t, inbox[c]))

\* And then the call waits for it.
LineInv(t, c) == AtMostOne(t, c) /\ (Clear(t, c) \/ (Owed(t) /\ on[t] = c))

\* A call that waits has a client to wait on, and pause and stop, which hold no lock,
\* never see a response before they return.
CallInv(t) ==
    /\ pc[t] \in {"launch", "entry", "wait", "context", "answer"} => on[t] # 0
    /\ seen[t].response => /\ pc[t] \in {"wait", "context", "answer", "cleanup"}
                           /\ op[t] \notin ControlOps

\* What every call waits for, whatever the clients do.
WaitInv == \A t \in Tools : CallInv(t) /\ \A c \in Clients : LineInv(t, c)

AnswerInv == WireTypes /\ OtherTypes /\ WaitInv

\* Taking out one message takes nothing from anyone else.
LEMMA TakenOut ==
    ASSUME NEW s \in Seq(Message), NEW i \in 1..Len(s)
    PROVE  /\ RemoveAt(s, i) \in Seq(Message)
           /\ \A t : /\ Free(t, s) => Free(t, RemoveAt(s, i))
                     /\ Single(t, s) => Single(t, RemoveAt(s, i))
                     /\ Single(t, s) /\ s[i].to = t => Free(t, RemoveAt(s, i))
<1> DEFINE r == RemoveAt(s, i)
           at(j) == IF j < i THEN j ELSE j + 1
<1>1. /\ r \in Seq(Message) /\ Len(r) = Len(s) - 1 /\ Len(s) \in Nat
      /\ \A j \in 1..(Len(s) - 1) : r[j] = s[at(j)]
  BY RemoveAtFacts, LenProperties
<1> HIDE DEF r
<1>2. \A j \in 1..Len(r) : at(j) \in 1..Len(s) /\ at(j) # i /\ r[j] = s[at(j)]
  BY <1>1
<1>3. \A j, k \in 1..Len(r) : at(j) = at(k) => j = k
  BY <1>1
<1> HIDE DEF at
<1>4. ASSUME NEW t PROVE Free(t, s) => Free(t, r)
  BY <1>2 DEF Free
<1>5. ASSUME NEW t PROVE Single(t, s) => Single(t, r)
  BY <1>2, <1>3 DEF Single
<1>6. ASSUME NEW t, Single(t, s), s[i].to = t PROVE Free(t, r)
  BY <1>2, <1>6 DEF Single, Free
<1> QED
  BY <1>1, <1>4, <1>5, <1>6 DEF r

\* Giving up an answer.
LEMMA Dropped ==
    ASSUME NEW t, NEW s \in Seq(Message), Single(t, s)
    PROVE  /\ Drop(t, s) \in Seq(Message) /\ Free(t, Drop(t, s))
           /\ \A u : /\ Free(u, s) => Free(u, Drop(t, s))
                     /\ Single(u, s) => Single(u, Drop(t, s))
<1>1. CASE Free(t, s)
  <2>1. Drop(t, s) = s
    BY <1>1 DEF Drop, Free
  <2> QED
    BY <1>1, <2>1
<1>2. CASE ~Free(t, s)
  <2>1. PICK i \in 1..Len(s) : s[i].to = t /\ Drop(t, s) = RemoveAt(s, i)
    BY <1>2 DEF Drop, Free
  <2> QED
    BY <2>1, TakenOut
<1> QED
  BY <1>1, <1>2

\* Messages after messages.
LEMMA Followed ==
    ASSUME NEW a \in Seq(Message), NEW b \in Seq(Message)
    PROVE  /\ a \o b \in Seq(Message)
           /\ \A t : /\ Free(t, a) /\ Free(t, b) => Free(t, a \o b)
                     /\ Free(t, a) /\ Single(t, b) => Single(t, a \o b)
                     /\ Single(t, a) /\ Free(t, b) => Single(t, a \o b)
<1> DEFINE c == a \o b
<1>1. /\ c \in Seq(Message) /\ Len(c) = Len(a) + Len(b) /\ Len(a) \in Nat /\ Len(b) \in Nat
      /\ \A i \in 1..(Len(a) + Len(b)) : c[i] = IF i <= Len(a) THEN a[i] ELSE b[i - Len(a)]
  BY ConcatProperties, LenProperties
<1> HIDE DEF c
<1>2. \A i \in 1..Len(c) : \/ i \in 1..Len(a) /\ c[i] = a[i]
                           \/ i > Len(a) /\ i - Len(a) \in 1..Len(b) /\ c[i] = b[i - Len(a)]
  BY <1>1
<1>3. \A i, j \in 1..Len(c) : i - Len(a) = j - Len(a) => i = j
  BY <1>1
<1>4. ASSUME NEW t, Free(t, a) PROVE /\ Free(t, b) => Free(t, c)
                                     /\ Single(t, b) => Single(t, c)
  BY <1>2, <1>3, <1>4 DEF Free, Single
<1>5. ASSUME NEW t, Single(t, a), Free(t, b) PROVE Single(t, c)
  BY <1>2, <1>5 DEF Free, Single
<1> QED
  BY <1>1, <1>4, <1>5 DEF c

\* No message, or one.
LEMMA ShortFacts ==
    /\ \A t : Free(t, <<>>) /\ Single(t, <<>>) /\ <<>> \in Seq(Message)
    /\ \A m \in Message : /\ <<m>> \in Seq(Message)
                          /\ \A t : Single(t, <<m>>) /\ (m.to # t => Free(t, <<m>>))
BY DEF Free, Single

\* The calls but t stay where they are.
OnlyMoves(t) ==
    \A u \in Tools \ {t} : pc'[u] = pc[u] /\ op'[u] = op[u] /\ on'[u] = on[u] /\ seen'[u] = seen[u]

\* Nothing comes on the way between c and u.
Spares(u, c) == (AtMostOne(u, c) => AtMostOne(u, c)') /\ (Clear(u, c) => Clear(u, c)')

\* Nothing on the way is at most one thing on the way, now and after a step.
LEMMA ClearLine == \A t, c : Clear(t, c) => AtMostOne(t, c)
BY DEF Clear, AtMostOne, Single, Free, Unasked

LEMMA ClearLater == \A t, c : Clear(t, c)' => AtMostOne(t, c)'
BY DEF Clear, AtMostOne, Single, Free, Unasked

\* Queues that do not change.
LEMMA SameLine ==
    ASSUME NEW c, asked'[c] = asked[c], stream'[c] = stream[c], inbox'[c] = inbox[c], NEW u
    PROVE  Spares(u, c)
BY DEF Spares, AtMostOne, Clear, Unasked

\* Nothing is on the way to a call that waits for no answer.
LEMMA NotOwed ==
    ASSUME WaitInv, NEW t \in Tools, ~Owed(t)
    PROVE  \A c \in Clients : Clear(t, c)
BY DEF WaitInv, LineInv

\* A step of t keeps what is on the way to the others.
LEMMA CallStep ==
    ASSUME WaitInv, NEW t \in Tools, OnlyMoves(t), CallInv(t)',
           \A u \in Tools \ {t} : \A c \in Clients : Spares(u, c),
           \A c \in Clients : LineInv(t, c)'
    PROVE  WaitInv'
<1>1. ASSUME NEW u \in Tools \ {t}, NEW c \in Clients PROVE CallInv(u)' /\ LineInv(u, c)'
  BY <1>1 DEF WaitInv, CallInv, LineInv, OnlyMoves, Spares, Owed
<1>2. ASSUME NEW u \in Tools, u = t, NEW c \in Clients PROVE CallInv(u)' /\ LineInv(u, c)'
  BY <1>2 DEF CallInv, LineInv, AtMostOne, Clear, Unasked, Owed
<1>3. ASSUME NEW u \in Tools PROVE CallInv(u)'
  <2>1. CASE u = t
    BY <2>1 DEF CallInv
  <2>2. CASE u # t
    BY <2>2 DEF WaitInv, CallInv, OnlyMoves
  <2> QED
    BY <2>1, <2>2
<1> QED
  BY <1>1, <1>2, <1>3 DEF WaitInv

\* What t has asked for is given up.
LEMMA Forgotten ==
    ASSUME WireTypes, NEW t \in Tools, \A c \in Clients : AtMostOne(t, c), Forget(t)
    PROVE  /\ WireTypes'
           /\ \A c \in Clients : Clear(t, c)'
           /\ \A u \in Tools \ {t} : \A c \in Clients : Spares(u, c)
<1>0. NoOne \notin Tools
  BY SessionAssumption DEF SessionAssumption
<1>1. ASSUME NEW c \in Clients
      PROVE  /\ stream'[c] = Drop(t, stream[c]) /\ inbox'[c] = Drop(t, inbox[c])
             /\ stream[c] \in Seq(Message) /\ inbox[c] \in Seq(Message)
             /\ Single(t, stream[c]) /\ Single(t, inbox[c])
  BY DEF Forget, WireTypes, AtMostOne
<1>2. ASSUME NEW c \in Clients
      PROVE  /\ asked'[c] \subseteq Asking /\ Unasked(t, c)'
             /\ \A u \in Tools \ {t} : \A q \in asked'[c] : q.to = u => q \in asked[c]
  <2>1. asked'[c] = {Given(t, q) : q \in {r \in asked[c] : r.to = t => r.command \in Effects}}
    BY DEF Forget
  <2>2. ASSUME NEW q \in asked[c]
        PROVE  /\ q \in Asking /\ Given(t, q) \in Asking /\ Given(t, q).to # t
               /\ q.to # t => Given(t, q) = q
               /\ q.to = t => Given(t, q).to = NoOne
    BY <1>0 DEF Given, WireTypes, Asking
  <2> QED
    BY <1>0, <2>1, <2>2 DEF Unasked
<1>3. WireTypes'
  <2>1. /\ DOMAIN asked' = Clients /\ asked' = [c \in Clients |-> asked'[c]]
        /\ stream' = [c \in Clients |-> stream'[c]] /\ inbox' = [c \in Clients |-> inbox'[c]]
    BY DEF Forget
  <2>2. \A c \in Clients : stream'[c] \in Seq(Message) /\ inbox'[c] \in Seq(Message)
    BY <1>1, Dropped
  <2> QED
    BY <1>2, <2>1, <2>2 DEF WireTypes
<1>4. ASSUME NEW c \in Clients PROVE Clear(t, c)'
  BY <1>1, <1>2, Dropped DEF Clear
<1>5. ASSUME NEW u \in Tools \ {t}, NEW c \in Clients PROVE Spares(u, c)
  <2>1. /\ Free(u, stream[c]) => Free(u, stream'[c])
        /\ Single(u, stream[c]) => Single(u, stream'[c])
        /\ Free(u, inbox[c]) => Free(u, inbox'[c])
        /\ Single(u, inbox[c]) => Single(u, inbox'[c])
    BY <1>1, Dropped
  <2>2. \A q \in asked'[c] : q.to = u => q \in asked[c]
    BY <1>2
  <2> QED
    BY <2>1, <2>2 DEF Spares, AtMostOne, Clear, Unasked
<1> QED
  BY <1>3, <1>4, <1>5

\* t writes the one request it waits for.
LEMMA Asked ==
    ASSUME WireTypes, NEW t \in Tools, \A c \in Clients : Clear(t, c), NEW b \in Clients,
           NEW command \in Commands, UNCHANGED <<stream, inbox>>,
           asked' = [asked EXCEPT ![b] = @ \union {[command |-> command, to |-> t]}]
    PROVE  /\ WireTypes'
           /\ \A c \in Clients : AtMostOne(t, c)' /\ (c # b => Clear(t, c)')
           /\ \A u \in Tools \ {t} : \A c \in Clients : Spares(u, c)
<1> DEFINE q == [command |-> command, to |-> t]
<1>1. q \in Asking /\ q.to = t
  BY DEF Asking
<1>2. /\ asked'[b] = asked[b] \union {q}
      /\ \A c \in Clients \ {b} : asked'[c] = asked[c]
  BY DEF WireTypes
<1> HIDE DEF q
<1>3. WireTypes'
  BY <1>1 DEF WireTypes, q
<1>4. ASSUME NEW c \in Clients PROVE AtMostOne(t, c)' /\ (c # b => Clear(t, c)')
  BY <1>1, <1>2 DEF Clear, AtMostOne, Unasked, Free, Single
<1>5. ASSUME NEW u \in Tools \ {t}, NEW c \in Clients PROVE Spares(u, c)
  BY <1>1, <1>2 DEF Spares, AtMostOne, Clear, Unasked
<1> QED
  BY <1>3, <1>4, <1>5

\* At first nothing has been asked.
LEMMA AnswerStart == Init => AnswerInv
<1> SUFFICES ASSUME Init PROVE AnswerInv
  OBVIOUS
<1>1. WireTypes
  BY ShortFacts DEF Init, WireTypes
<1>2. OtherTypes
  BY SessionAssumption DEF SessionAssumption, Init, OtherTypes, Sight, NothingSeen
<1>3. \A t, c : c \in Clients => Clear(t, c)
  BY ShortFacts DEF Init, Clear, Unasked
<1>4. \A t \in Tools : CallInv(t)
  BY DEF Init, CallInv, NothingSeen
<1> QED
  BY <1>1, <1>2, <1>3, <1>4, ClearLine DEF AnswerInv, WaitInv, LineInv

\* A call that waits for nothing goes on without asking.
LEMMA GoesOn ==
    ASSUME AnswerInv, NEW t \in Tools, ~Owed(t), UNCHANGED <<asked, stream, inbox>>,
           OnlyMoves(t), CallInv(t)', OtherTypes'
    PROVE  AnswerInv'
<1>1. \A c \in Clients : Clear(t, c)
  BY NotOwed DEF AnswerInv
<1>2. \A u : \A c \in Clients : Spares(u, c)
  BY SameLine
<1>3. \A c \in Clients : LineInv(t, c)'
  BY <1>1, <1>2, ClearLater DEF LineInv, Spares
<1>4. WireTypes'
  BY DEF AnswerInv, WireTypes
<1> QED
  BY <1>2, <1>3, <1>4, CallStep DEF AnswerInv

\* A call stops waiting.
LEMMA LetsGo ==
    ASSUME AnswerInv, NEW t \in Tools, Forget(t), OnlyMoves(t), CallInv(t)', OtherTypes'
    PROVE  AnswerInv'
<1>1. \A c \in Clients : AtMostOne(t, c)
  BY DEF AnswerInv, WaitInv, LineInv
<1>2. /\ WireTypes' /\ \A c \in Clients : Clear(t, c)'
      /\ \A u \in Tools \ {t} : \A c \in Clients : Spares(u, c)
  BY <1>1, Forgotten DEF AnswerInv
<1>3. \A c \in Clients : LineInv(t, c)'
  BY <1>2, ClearLater DEF LineInv
<1> QED
  BY <1>2, <1>3, CallStep DEF AnswerInv

\* A call asks and waits.
LEMMA Waits ==
    ASSUME AnswerInv, NEW t \in Tools, ~Owed(t), NEW b \in Clients, NEW command \in Commands,
           UNCHANGED <<stream, inbox>>,
           asked' = [asked EXCEPT ![b] = @ \union {[command |-> command, to |-> t]}],
           OnlyMoves(t), CallInv(t)', OtherTypes', Owed(t)', on'[t] = b
    PROVE  AnswerInv'
<1>1. \A c \in Clients : Clear(t, c)
  BY NotOwed DEF AnswerInv
<1>2. /\ WireTypes'
      /\ \A c \in Clients : AtMostOne(t, c)' /\ (c # b => Clear(t, c)')
      /\ \A u \in Tools \ {t} : \A c \in Clients : Spares(u, c)
  BY <1>1, Asked DEF AnswerInv
<1>3. \A c \in Clients : LineInv(t, c)'
  BY <1>2 DEF LineInv
<1> QED
  BY <1>2, <1>3, CallStep DEF AnswerInv

\* A step of a client keeps what is on the way.
LEMMA CallsStay ==
    ASSUME WaitInv, UNCHANGED <<pc, op, on, seen>>,
           \A u \in Tools : \A c \in Clients : LineInv(u, c) => LineInv(u, c)'
    PROVE  WaitInv'
<1>1. \A u \in Tools : CallInv(u)'
  BY DEF WaitInv, CallInv
<1> QED
  BY <1>1 DEF WaitInv

\* A call that keeps its place keeps its line when nothing comes on it.
LEMMA SparedLine ==
    ASSUME UNCHANGED <<pc, on, seen>>, NEW u, NEW c, Spares(u, c)
    PROVE  LineInv(u, c) => LineInv(u, c)'
BY DEF LineInv, Spares, Owed

\* A call returns.
LEMMA ReturnStep ==
    ASSUME Types, AnswerInv, NEW t \in Tools, Return(t), UNCHANGED <<readErr, target, stops>>
    PROVE  AnswerInv'
<1>1. /\ pc' = [pc EXCEPT ![t] = "idle"] /\ on' = [on EXCEPT ![t] = 0]
      /\ seen' = [seen EXCEPT ![t] = NothingSeen] /\ op' = [op EXCEPT ![t] = "none"]
      /\ after' = after /\ Forget(t)
  BY DEF Return
<1>2. OtherTypes'
  BY <1>1 DEF AnswerInv, OtherTypes, Sight, NothingSeen
<1>3. /\ pc'[t] = "idle" /\ seen'[t] = NothingSeen /\ OnlyMoves(t)
  BY <1>1 DEF Types, AnswerInv, OtherTypes, OnlyMoves
<1>4. CallInv(t)'
  BY <1>3 DEF CallInv, NothingSeen
<1> QED
  BY <1>1, <1>2, <1>3, <1>4, LetsGo

\* A call that waited gives up: it returns, closes the client or cleans up.
LEMMA GiveUpStep ==
    ASSUME Types, AnswerInv, NEW t \in Tools,
           pc[t] \in {"launch", "entry", "wait", "context", "answer"},
           GiveUp(t), UNCHANGED <<readErr, target, stops>>
    PROVE  AnswerInv'
<1>1. CASE Return(t)
  BY <1>1, ReturnStep
<1>2. CASE ~Return(t)
  <2>1. /\ Forget(t) /\ UNCHANGED <<op, on, seen>>
        /\ after' \in {after, "return"}
        /\ \/ op[t] = "stop" /\ pc' = [pc EXCEPT ![t] = "close"]
           \/ pc' = [pc EXCEPT ![t] = "cleanup"]
    BY <1>2 DEF GiveUp, CleanUp, lockVars
  <2>2. OtherTypes'
    BY <2>1 DEF AnswerInv, OtherTypes
  <2>3. OnlyMoves(t) /\ pc'[t] \in {"close", "cleanup"} /\ (pc'[t] = "close" => op[t] = "stop")
    BY <2>1 DEF Types, OnlyMoves
  <2>4. CallInv(t)'
    BY <2>1, <2>3 DEF AnswerInv, WaitInv, CallInv, ControlOps
  <2> QED
    BY <2>1, <2>2, <2>3, <2>4, LetsGo
<1> QED
  BY <1>1, <1>2

\* A call is made, or takes the lock.
LEMMA AnswerLocks ==
    ASSUME Inv, AnswerInv, NEW t \in Tools,
           LockStep(t) \/ \E tool \in OfferedTo(t) : Call(t, tool)
    PROVE  AnswerInv'
<1>0. Types
  BY DEF Inv
<1> USE DEF Acquire
<1>1. ASSUME NEW tool \in OfferedTo(t), Call(t, tool) PROVE AnswerInv'
  <2>1. /\ pc[t] = "idle" /\ op' = [op EXCEPT ![t] = tool]
        /\ pc' = [pc EXCEPT ![t] = IF tool \in ControlOps THEN "control" ELSE "lock"]
        /\ UNCHANGED <<on, seen, after, readErr, target, stops, asked, stream, inbox>>
    BY <1>1 DEF Call, clientVars, adapterVars, lockVars
  <2>2. OtherTypes' /\ OnlyMoves(t) /\ ~Owed(t) /\ pc'[t] \in {"control", "lock"}
    BY <1>0, <2>1 DEF AnswerInv, OtherTypes, OnlyMoves, Owed, Types
  <2>3. CallInv(t)'
    BY <2>1, <2>2 DEF AnswerInv, WaitInv, CallInv
  <2> QED
    BY <2>1, <2>2, <2>3, GoesOn
<1>2. CASE NotStarted(t)
  BY <1>0, <1>2, ReturnStep DEF NotStarted
<1>3. CASE \/ Debug(t) \/ StopLocked(t) \/ ClientEnded(t)
           \/ WriteFails(t) /\ op[t] = "detach"
  <2>1. /\ pc[t] \in {"lock", "ended"}
        /\ UNCHANGED <<op, on, seen, readErr, target, stops, asked, stream, inbox>>
        /\ after' \in {after, "return", "spawn", "lock"}
        /\ pc' = [pc EXCEPT ![t] = "cleanup"] \/ pc' = [pc EXCEPT ![t] = "lock"]
    BY <1>3 DEF Debug, StopLocked, ClientEnded, WriteFails, CleanUp, lockVars, clientVars, adapterVars
  <2>2. OtherTypes' /\ OnlyMoves(t) /\ ~Owed(t) /\ pc'[t] \in {"cleanup", "lock"}
    BY <1>0, <2>1 DEF AnswerInv, OtherTypes, OnlyMoves, Owed, Types
  <2>3. CallInv(t)'
    BY <2>1, <2>2 DEF AnswerInv, WaitInv, CallInv
  <2> QED
    BY <2>1, <2>2, <2>3, GoesOn
<1>4. CASE WriteFails(t) /\ op[t] # "detach"
  BY <1>0, <1>4, ReturnStep DEF WriteFails
<1>5. CASE Execute(t) \/ Request(t)
  <2>1. PICK command \in Commands, p \in {"wait", "answer"} :
          /\ pc[t] = "lock" /\ op[t] \notin ControlOps /\ client # 0
          /\ pc' = [pc EXCEPT ![t] = p] /\ on' = [on EXCEPT ![t] = client]
          /\ asked' = [asked EXCEPT ![client] = @ \union {[command |-> command, to |-> t]}]
          /\ UNCHANGED <<op, seen, after, readErr, target, stops, stream, inbox>>
    BY <1>5 DEF Execute, Request, Ask, Commands, ControlOps, clientVars
  <2>2. client \in Clients
    BY <1>0, <2>1, SessionAssumption DEF SessionAssumption, Types, Clients
  <2>3. OtherTypes' /\ OnlyMoves(t) /\ ~Owed(t) /\ pc'[t] = p /\ on'[t] = client
    BY <1>0, <2>1 DEF AnswerInv, OtherTypes, OnlyMoves, Owed, Types
  <2>4. CallInv(t)' /\ Owed(t)'
    BY <2>1, <2>3 DEF AnswerInv, WaitInv, CallInv, Owed
  <2> QED
    BY <2>1, <2>2, <2>3, <2>4, Waits
<1> QED
  BY <1>1, <1>2, <1>3, <1>4, <1>5 DEF LockStep

\* The other steps of a call.
LEMMA AnswerOwn ==
    ASSUME Inv, AnswerInv, NEW t \in Tools, OwnStep(t)
    PROVE  AnswerInv'
<1>0. Types
  BY DEF Inv
<1>1. CASE DebugFails(t)
  BY <1>0, <1>1, ReturnStep DEF DebugFails
<1>2. CASE Spawn(t)
  <2>0. PICK path \in {"launch", "entry"} : Ask(t, started', path, path)
    BY <1>2 DEF Spawn
  <2>1. /\ pc[t] = "spawn" /\ started < MaxSessions
        /\ pc' = [pc EXCEPT ![t] = path] /\ on' = [on EXCEPT ![t] = started + 1]
        /\ asked' = [asked EXCEPT ![started + 1] = @ \union {[command |-> path, to |-> t]}]
        /\ UNCHANGED <<op, seen, after, readErr, target, stops, stream, inbox>>
    BY <1>2, <2>0 DEF Spawn, Ask, lockVars
  <2>2. started + 1 \in Clients /\ started + 1 # 0 /\ path \in Commands
    BY <1>0, <2>1, SessionAssumption DEF SessionAssumption, Types, Clients, Commands
  <2>3. OtherTypes' /\ OnlyMoves(t) /\ ~Owed(t) /\ pc'[t] = path /\ on'[t] = started + 1
    BY <1>0, <2>1 DEF AnswerInv, OtherTypes, OnlyMoves, Owed, Types
  <2>4. CallInv(t)' /\ Owed(t)'
    BY <2>1, <2>2, <2>3 DEF AnswerInv, WaitInv, CallInv, Owed
  <2> QED
    BY <2>1, <2>2, <2>3, <2>4, Waits
<1>3. CASE Configured(t)
  <2>1. /\ pc[t] \in {"launch", "entry"} /\ pc' \in {pc, [pc EXCEPT ![t] = "wait"]}
        /\ UNCHANGED <<op, on, seen, after, readErr, target, stops, asked, stream, inbox>>
    BY <1>3 DEF Configured, lockVars, clientVars, adapterVars
  <2>2. OtherTypes' /\ WireTypes' /\ OnlyMoves(t) /\ pc'[t] \in {"launch", "entry", "wait"}
    BY <1>0, <2>1 DEF AnswerInv, OtherTypes, WireTypes, OnlyMoves, Types
  <2>3. CallInv(t)' /\ Owed(t)'
    BY <2>1, <2>2 DEF AnswerInv, WaitInv, CallInv, Owed
  <2>4. \A u : \A c \in Clients : Spares(u, c)
    BY <2>1, SameLine
  <2>5. \A c \in Clients : LineInv(t, c)'
    BY <2>1, <2>3, <2>4 DEF AnswerInv, WaitInv, LineInv, Spares
  <2> QED
    BY <2>2, <2>3, <2>4, <2>5, CallStep DEF AnswerInv
<1>4. CASE Context(t)
  <2>1. pc[t] = "context" /\ UNCHANGED <<readErr, target, stops>>
    BY <1>4 DEF Context
  <2>2. CASE GiveUp(t)
    BY <1>0, <2>1, <2>2, GiveUpStep
  <2>3. CASE Ask(t, on[t], "stackTrace", "answer") /\ UNCHANGED <<op, seen, lockVars, inbox, stream>>
    <3>1. /\ pc' = [pc EXCEPT ![t] = "answer"] /\ on' = [on EXCEPT ![t] = on[t]]
          /\ asked' = [asked EXCEPT ![on[t]] = @ \union {[command |-> "stackTrace", to |-> t]}]
          /\ UNCHANGED <<op, seen, after, inbox, stream>>
      BY <2>3 DEF Ask, lockVars
    <3>2. on[t] \in Clients /\ on[t] # 0 /\ "stackTrace" \in Commands
      BY <1>0, <2>1, SessionAssumption
         DEF SessionAssumption, Types, Clients, Commands, AnswerInv, WaitInv, CallInv
    <3>3. OtherTypes' /\ OnlyMoves(t) /\ ~Owed(t) /\ pc'[t] = "answer" /\ on'[t] = on[t]
      BY <1>0, <2>1, <3>1 DEF AnswerInv, OtherTypes, OnlyMoves, Owed, Types
    <3>4. CallInv(t)' /\ Owed(t)'
      BY <2>1, <3>1, <3>2, <3>3 DEF AnswerInv, WaitInv, CallInv, Owed
    <3> QED
      BY <3>1, <3>2, <3>3, <3>4, Waits
  <2> QED
    BY <1>4, <2>2, <2>3 DEF Context
<1>5. CASE Pause(t) /\ Return(t)
  BY <1>0, <1>5, ReturnStep DEF Pause
<1>6. CASE (Pause(t) /\ ~Return(t)) \/ (Stop(t) /\ control # 0 /\ ~closed[control])
  <2>1. PICK command \in Commands :
          /\ pc[t] = "control" /\ control # 0
          /\ pc' = [pc EXCEPT ![t] = "answer"] /\ on' = [on EXCEPT ![t] = control]
          /\ asked' = [asked EXCEPT ![control] = @ \union {[command |-> command, to |-> t]}]
          /\ UNCHANGED <<op, seen, after, readErr, target, stops, stream, inbox>>
    BY <1>6 DEF Pause, Stop, Ask, Commands, lockVars, clientVars
  <2>2. control \in Clients
    BY <1>0, <2>1, SessionAssumption DEF SessionAssumption, Types, Clients
  <2>3. OtherTypes' /\ OnlyMoves(t) /\ ~Owed(t) /\ pc'[t] = "answer" /\ on'[t] = control
    BY <1>0, <2>1 DEF AnswerInv, OtherTypes, OnlyMoves, Owed, Types
  <2>4. CallInv(t)' /\ Owed(t)'
    BY <2>1, <2>3 DEF AnswerInv, WaitInv, CallInv, Owed
  <2> QED
    BY <2>1, <2>2, <2>3, <2>4, Waits
<1>7. CASE (Stop(t) /\ ~(control # 0 /\ ~closed[control])) \/ CloseClient(t)
  <2>1. /\ pc[t] \in {"control", "close"}
        /\ UNCHANGED <<op, seen, after, readErr, target, stops, asked, stream, inbox>>
        /\ on' = on \/ on' = [on EXCEPT ![t] = control]
        /\ \/ pc' = [pc EXCEPT ![t] = "lock"] \/ pc' = [pc EXCEPT ![t] = "close"]
           \/ pc' = [pc EXCEPT ![t] = "ended"]
    BY <1>7 DEF Stop, CloseClient, lockVars, clientVars, adapterVars
  <2>2. OtherTypes' /\ OnlyMoves(t) /\ ~Owed(t) /\ pc'[t] \in {"lock", "close", "ended"}
    BY <1>0, <2>1 DEF AnswerInv, OtherTypes, OnlyMoves, Owed, Types
  <2>3. CallInv(t)'
    BY <2>1, <2>2 DEF AnswerInv, WaitInv, CallInv
  <2> QED
    BY <2>1, <2>2, <2>3, GoesOn
<1> QED
  BY <1>1, <1>2, <1>3, <1>4, <1>5, <1>6, <1>7 DEF OwnStep

\* An execution wait takes a message out of the inbox of its client.
LEMMA TakeFacts ==
    ASSUME WireTypes, NEW b \in Clients, NEW i \in 1..Len(inbox[b]), UNCHANGED <<asked, stream>>,
           inbox' = [inbox EXCEPT ![b] = RemoveAt(@, i)]
    PROVE  /\ WireTypes'
           /\ \A u : \A c \in Clients : Spares(u, c)
           /\ \A u : AtMostOne(u, b) /\ inbox[b][i].to = u => Clear(u, b)'
<1>1. inbox[b] \in Seq(Message) /\ inbox'[b] = RemoveAt(inbox[b], i)
      /\ \A c \in Clients \ {b} : inbox'[c] = inbox[c]
  BY DEF WireTypes
<1>2. /\ inbox'[b] \in Seq(Message)
      /\ \A u : /\ Free(u, inbox[b]) => Free(u, inbox'[b])
                /\ Single(u, inbox[b]) => Single(u, inbox'[b])
                /\ Single(u, inbox[b]) /\ inbox[b][i].to = u => Free(u, inbox'[b])
  BY <1>1, TakenOut
<1>3. WireTypes'
  <2>1. inbox' = [c \in Clients |-> inbox'[c]]
    BY DEF WireTypes
  <2>2. \A c \in Clients : inbox'[c] \in Seq(Message)
    BY <1>1, <1>2 DEF WireTypes
  <2> QED
    BY <2>1, <2>2 DEF WireTypes
<1>4. ASSUME NEW u, NEW c \in Clients PROVE Spares(u, c)
  <2>1. CASE c = b
    BY <1>2, <2>1 DEF Spares, AtMostOne, Clear, Unasked
  <2>2. CASE c # b
    BY <1>1, <2>2, SameLine
  <2> QED
    BY <2>1, <2>2
<1>5. ASSUME NEW u, AtMostOne(u, b), inbox[b][i].to = u PROVE Clear(u, b)'
  <2>1. Unasked(u, b) /\ Free(u, stream[b]) /\ Single(u, inbox[b])
    BY <1>5 DEF AtMostOne, Free
  <2> QED
    BY <1>2, <1>5, <2>1 DEF Clear, Unasked
<1> QED
  BY <1>3, <1>4, <1>5

\* What it sees in the message.
LEMMA SightFacts ==
    ASSUME NEW sights \in [Tools -> Sight], NEW t \in Tools, NEW n \in Nat
    PROVE  /\ [sights EXCEPT ![t].response = TRUE] \in [Tools -> Sight]
           /\ [sights EXCEPT ![t].response = TRUE, ![t].left = n] \in [Tools -> Sight]
           /\ [sights EXCEPT ![t].stopped = TRUE, ![t].stop = n] \in [Tools -> Sight]
BY DEF Sight

\* A call that waits takes a message or gives up.
LEMMA AnswerWaits ==
    ASSUME Inv, AnswerInv, NEW t \in Tools, WaitStep(t) \/ Cancel(t)
    PROVE  AnswerInv'
<1>0. Types /\ on[t] \in 0..MaxSessions
  BY DEF Inv, Types
<1> USE DEF Waiting
<1>1. CASE WaitFails(t) \/ Cancel(t) \/ LaunchRefused(t)
  BY <1>0, <1>1, GiveUpStep DEF WaitFails, Cancel, LaunchRefused
<1>2. CASE Launched(t)
  <2>1. /\ pc[t] \in {"launch", "entry"}
        /\ pc' = [pc EXCEPT ![t] = "wait"] \/ pc' = [pc EXCEPT ![t] = "context"]
        /\ seen' = [seen EXCEPT ![t].response = TRUE] /\ Forget(t)
        /\ UNCHANGED <<op, on, after, readErr, target, stops>>
    BY <1>2 DEF Launched, lockVars
  <2>2. OtherTypes' /\ OnlyMoves(t) /\ pc'[t] \in {"wait", "context"}
    <3>1. seen' \in [Tools -> Sight]
      BY <2>1, SightFacts DEF AnswerInv, OtherTypes
    <3>2. OtherTypes'
      BY <2>1, <3>1 DEF AnswerInv, OtherTypes
    <3>3. OnlyMoves(t) /\ pc'[t] \in {"wait", "context"}
      BY <1>0, <2>1 DEF AnswerInv, OtherTypes, OnlyMoves, Types
    <3> QED
      BY <3>2, <3>3
  <2>3. op[t] = "debug" /\ on[t] # 0
    BY <2>1 DEF Inv, LockInv, AnswerInv, WaitInv, CallInv
  <2>4. CallInv(t)'
    BY <2>1, <2>2, <2>3 DEF CallInv, ControlOps
  <2> QED
    BY <2>1, <2>2, <2>4, LetsGo
<1>3. CASE Answered(t)
  <2>1. pc[t] = "answer" /\ (GiveUp(t) \/ Return(t)) /\ UNCHANGED <<readErr, target, stops>>
    BY <1>3 DEF Answered, Answer
  <2> QED
    BY <1>0, <2>1, GiveUpStep, ReturnStep
<1>4. CASE TakeTerminated(t)
  <2>1. /\ pc[t] = "wait" /\ pc' = [pc EXCEPT ![t] = "cleanup"] /\ after' = "return" /\ Forget(t)
        /\ UNCHANGED <<op, on, seen, readErr, target, stops>>
    BY <1>4 DEF TakeTerminated, CleanUp
  <2>2. OtherTypes' /\ OnlyMoves(t) /\ pc'[t] = "cleanup"
    BY <1>0, <2>1 DEF AnswerInv, OtherTypes, OnlyMoves, Types
  <2>3. CallInv(t)'
    BY <2>1, <2>2 DEF AnswerInv, WaitInv, CallInv
  <2> QED
    BY <2>1, <2>2, <2>3, LetsGo
<1>5. ASSUME pc[t] = "wait"
      PROVE  on[t] \in Clients /\ on[t] # 0 /\ op[t] \notin ControlOps
  BY <1>0, <1>5, SessionAssumption
     DEF SessionAssumption, Clients, Inv, LockInv, AnswerInv, WaitInv, CallInv
<1>6. CASE TakeResponse(t)
  <2>1. PICK i \in Matches(t) :
          /\ inbox[on[t]][i].type = "response"
          /\ IF inbox[on[t]][i].ok
             THEN /\ seen' = [seen EXCEPT ![t].response = TRUE, ![t].left = inbox[on[t]][i].stop]
                  /\ pc' = IF seen[t].stopped THEN [pc EXCEPT ![t] = "context"] ELSE pc
                  /\ inbox' = [inbox EXCEPT ![on[t]] = RemoveAt(@, i)]
                  /\ UNCHANGED <<op, on, lockVars, asked, stream>>
             ELSE GiveUp(t)
    BY <1>6 DEF TakeResponse
  <2>2. pc[t] = "wait" /\ UNCHANGED <<readErr, target, stops>>
    BY <1>6 DEF TakeResponse
  <2>3. CASE ~inbox[on[t]][i].ok
    BY <1>0, <2>1, <2>2, <2>3, GiveUpStep
  <2>4. CASE inbox[on[t]][i].ok
    <3>0. PICK b : b = on[t]
      OBVIOUS
    <3>1. i \in 1..Len(inbox[b]) /\ inbox[b][i].to = t /\ b \in Clients
      BY <1>5, <2>1, <2>2, <3>0 DEF Matches
    <3>2. inbox[b][i] \in Message
      BY <3>1, ElementOfSeq DEF AnswerInv, WireTypes
    <3>3. /\ seen' = [seen EXCEPT ![t].response = TRUE, ![t].left = inbox[b][i].stop]
          /\ pc' = pc \/ pc' = [pc EXCEPT ![t] = "context"]
          /\ UNCHANGED <<op, on, after, asked, stream>>
          /\ inbox' = [inbox EXCEPT ![b] = RemoveAt(@, i)]
      BY <2>1, <2>4, <3>0 DEF lockVars
    <3>4. OtherTypes'
      <4>1. inbox[b][i].stop \in Nat
        BY <3>2 DEF Message
      <4>2. seen' \in [Tools -> Sight]
        BY <3>3, <4>1, SightFacts DEF AnswerInv, OtherTypes
      <4> QED
        BY <2>2, <3>3, <4>2 DEF AnswerInv, OtherTypes
    <3>5. OnlyMoves(t) /\ pc'[t] \in {"wait", "context"}
      BY <1>0, <2>2, <3>3 DEF AnswerInv, OtherTypes, OnlyMoves, Types
    <3>6. CallInv(t)'
      BY <1>5, <2>2, <3>3, <3>5 DEF CallInv, ControlOps
    <3>7. /\ WireTypes' /\ \A u : \A c \in Clients : Spares(u, c)
          /\ \A u : AtMostOne(u, b) /\ inbox[b][i].to = u => Clear(u, b)'
      BY <3>1, <3>3, TakeFacts DEF AnswerInv
    <3>8. ASSUME NEW c \in Clients PROVE LineInv(t, c)'
      <4>1. AtMostOne(t, c) /\ (c # b => Clear(t, c))
        BY <3>0 DEF AnswerInv, WaitInv, LineInv
      <4>2. CASE c # b
        BY <3>7, <4>1, <4>2, ClearLater DEF Spares, LineInv
      <4>3. CASE c = b
        <5>1. AtMostOne(t, b) /\ Clear(t, b)'
          BY <3>1, <3>7, <4>1, <4>3
        <5>2. Clear(t, c)'
          BY <4>3, <5>1 DEF Clear, Unasked
        <5> QED
          BY <5>2, ClearLater DEF LineInv
      <4> QED
        BY <4>2, <4>3
    <3> QED
      BY <3>4, <3>5, <3>6, <3>7, <3>8, CallStep DEF AnswerInv
  <2> QED
    BY <2>3, <2>4
<1>7. CASE TakeStop(t)
  <2> DEFINE b == on[t]
  <2>1. PICK i \in Matches(t) :
          /\ seen' = [seen EXCEPT ![t].stopped = TRUE, ![t].stop = inbox[b][i].stop]
          /\ pc' = IF seen[t].response THEN [pc EXCEPT ![t] = "context"] ELSE pc
          /\ inbox' = [inbox EXCEPT ![b] = RemoveAt(@, i)]
    BY <1>7 DEF TakeStop
  <2>2. pc[t] = "wait" /\ UNCHANGED <<op, on, after, asked, stream, readErr, target, stops>>
    BY <1>7 DEF TakeStop, lockVars, adapterVars
  <2>3. i \in 1..Len(inbox[b]) /\ b \in Clients
    BY <1>5, <2>1, <2>2 DEF Matches
  <2>4. inbox[b][i] \in Message
    BY <2>3, ElementOfSeq DEF AnswerInv, WireTypes
  <2>5. OtherTypes' /\ OnlyMoves(t)
    <3>1. inbox[b][i].stop \in Nat
      BY <2>4 DEF Message
    <3>2. seen' \in [Tools -> Sight]
      BY <2>1, <3>1, SightFacts DEF AnswerInv, OtherTypes
    <3>3. OtherTypes'
      BY <2>2, <3>2 DEF AnswerInv, OtherTypes
    <3>4. OnlyMoves(t)
      BY <1>0, <2>1, <2>2 DEF AnswerInv, OtherTypes, OnlyMoves, Types
    <3> QED
      BY <3>3, <3>4
  <2>6. /\ pc'[t] = (IF seen[t].response THEN "context" ELSE "wait")
        /\ seen'[t].response = seen[t].response
    BY <1>0, <2>1, <2>2 DEF Types, AnswerInv, OtherTypes
  <2>7. CallInv(t)'
    BY <1>5, <2>2, <2>6 DEF CallInv, ControlOps
  <2>8. WireTypes' /\ \A u : \A c \in Clients : Spares(u, c)
    <3> HIDE DEF b
    <3> QED
      BY <2>1, <2>2, <2>3, TakeFacts DEF AnswerInv
  <2>9. Owed(t) => Owed(t)'
    BY <2>2, <2>6 DEF Owed
  <2>10. \A c \in Clients : LineInv(t, c)'
    BY <2>2, <2>8, <2>9 DEF AnswerInv, WaitInv, LineInv, Spares
  <2> QED
    BY <2>5, <2>7, <2>8, <2>10, CallStep DEF AnswerInv
<1> QED
  BY <1>1, <1>2, <1>3, <1>4, <1>6, <1>7 DEF WaitStep

\* cleanupLocked: nothing more is asked of the client, and the holder waits for nothing.
LEMMA AnswerCleanup ==
    ASSUME Inv, AnswerInv, CleanupStep
    PROVE  AnswerInv'
<1>0. Types
  BY DEF Inv
<1>1. CASE Retire
  <2>1. UNCHANGED <<pc, op, on, seen, after, readErr, target, stops, asked, stream, inbox>>
    BY <1>1 DEF Retire, callVars, clientVars, adapterVars
  <2>2. OtherTypes' /\ WireTypes'
    BY <2>1 DEF AnswerInv, OtherTypes, WireTypes
  <2>3. \A u : \A c \in Clients : Spares(u, c)
    BY <2>1, SameLine
  <2> QED
    BY <2>1, <2>2, <2>3, SparedLine, CallsStay DEF AnswerInv
<1>2. CASE Reap
  <2>1. /\ asked' = [c \in Clients |-> IF c = doomed THEN {} ELSE asked[c]]
        /\ target' = [c \in Clients |-> IF c = doomed THEN "ended" ELSE target[c]]
        /\ stops' = [c \in Clients |-> IF c = doomed THEN 0 ELSE stops[c]]
        /\ after' = "return" /\ cleaning = "shutdown"
        /\ UNCHANGED <<readErr, inbox, stream>>
    BY <1>2 DEF Reap
  <2>2. WireTypes'
    BY <2>1 DEF AnswerInv, WireTypes
  <2>3. \A u : \A c \in Clients : Spares(u, c)
    BY <2>1 DEF Spares, AtMostOne, Clear, Unasked
  <2>4. CASE mu \notin Tools
    <3>1. UNCHANGED <<pc, op, on, seen>>
      BY <1>2, <2>4 DEF Reap, callVars
    <3>2. OtherTypes'
      BY <2>1, <3>1, SessionAssumption DEF SessionAssumption, AnswerInv, OtherTypes
    <3> QED
      BY <2>2, <2>3, <3>1, <3>2, SparedLine, CallsStay DEF AnswerInv
  <2>5. CASE mu \in Tools
    <3>1. /\ pc' = [pc EXCEPT ![mu] = IF after = "return" THEN "idle" ELSE after]
          /\ on' = [on EXCEPT ![mu] = IF after = "lock" THEN @ ELSE 0]
          /\ op' = [op EXCEPT ![mu] = IF after = "return" THEN "none" ELSE @]
          /\ seen' = [seen EXCEPT ![mu] = NothingSeen]
      BY <1>2, <2>5 DEF Reap
    <3>2. pc[mu] = "cleanup" /\ after \in {"return", "spawn", "lock"}
      BY <2>1, <2>5, Holder DEF Inv, AfterInv
    <3>3. OtherTypes'
      <4>1. 0 \in 0..MaxStops
        BY SessionAssumption DEF SessionAssumption
      <4>2. NothingSeen \in Sight
        BY DEF NothingSeen, Sight
      <4>3. seen' \in [Tools -> Sight]
        BY <2>5, <3>1, <4>2 DEF AnswerInv, OtherTypes
      <4> QED
        BY <2>1, <4>1, <4>3 DEF AnswerInv, OtherTypes
    <3>4. PICK t \in Tools : t = mu
      BY <2>5
    <3>5. OnlyMoves(t) /\ pc'[t] \in {"idle", "spawn", "lock"} /\ seen'[t] = NothingSeen /\ ~Owed(t)
      BY <1>0, <3>1, <3>2, <3>4 DEF OnlyMoves, Types, AnswerInv, OtherTypes, Owed
    <3>6. CallInv(t)'
      BY <3>5 DEF CallInv, NothingSeen
    <3>7. \A c \in Clients : LineInv(t, c)'
      BY <2>3, <3>5, NotOwed, ClearLater DEF AnswerInv, LineInv, Spares
    <3> QED
      BY <2>2, <2>3, <3>3, <3>5, <3>6, <3>7, CallStep DEF AnswerInv
  <2> QED
    BY <2>4, <2>5
<1> QED
  BY <1>1, <1>2 DEF CleanupStep

\* At most one of three parts has a message for t.
LEMMA Three ==
    ASSUME NEW a \in Seq(Message), NEW b \in Seq(Message), NEW c \in Seq(Message)
    PROVE  /\ a \o b \o c \in Seq(Message)
           /\ \A t : /\ Free(t, a) /\ Free(t, b) /\ Free(t, c) => Free(t, a \o b \o c)
                     /\ Single(t, a) /\ Free(t, b) /\ Free(t, c) => Single(t, a \o b \o c)
                     /\ Free(t, a) /\ Single(t, b) /\ Free(t, c) => Single(t, a \o b \o c)
                     /\ Free(t, a) /\ Free(t, b) /\ Single(t, c) => Single(t, a \o b \o c)
<1>1. PICK d : d = a \o b
  OBVIOUS
<1>2. /\ d \in Seq(Message)
      /\ \A t : /\ Free(t, a) /\ Free(t, b) => Free(t, d)
                /\ Free(t, a) /\ Single(t, b) => Single(t, d)
                /\ Single(t, a) /\ Free(t, b) => Single(t, d)
  BY <1>1, Followed
<1>3. /\ d \o c \in Seq(Message)
      /\ \A t : /\ Free(t, d) /\ Free(t, c) => Free(t, d \o c)
                /\ Free(t, d) /\ Single(t, c) => Single(t, d \o c)
                /\ Single(t, d) /\ Free(t, c) => Single(t, d \o c)
  BY <1>2, Followed
<1>4. PICK e : e = d \o c
  OBVIOUS
<1>5. a \o b \o c = e
  BY <1>1, <1>4
<1> QED
  BY <1>2, <1>3, <1>4, <1>5

\* What an adapter sends: an answer to t alone, and events to nobody in particular.
LEMMA Sent ==
    ASSUME NEW s \in Seq(Message), NEW a \in Seq(Message), NEW e \in Seq(Message),
           NEW t, \A u : Single(u, a) /\ (u # t => Free(u, a)), \A u \in Tools : Free(u, e),
           NEW out, out = s \o a \o e \/ out = s \o e \o a
    PROVE  /\ out \in Seq(Message)
           /\ \A u \in Tools : /\ Free(u, s) => Single(u, out)
                               /\ u # t /\ Free(u, s) => Free(u, out)
                               /\ u # t /\ Single(u, s) => Single(u, out)
<1>1. CASE out = s \o a \o e
  BY <1>1, Three
<1>2. CASE out = s \o e \o a
  BY <1>2, Three
<1> QED
  BY <1>1, <1>2

\* A message that goes from one queue to the end of the other.
LEMMA Handed ==
    ASSUME NEW s \in Seq(Message), s # <<>>, NEW r \in Seq(Message)
    PROVE  /\ Tail(s) \in Seq(Message) /\ Append(r, Head(s)) \in Seq(Message)
           /\ \A t : /\ Free(t, s) => Free(t, Tail(s))
                     /\ Single(t, s) => Single(t, Tail(s))
                     /\ Free(t, s) /\ Free(t, r) => Free(t, Append(r, Head(s)))
                     /\ Free(t, s) /\ Single(t, r) => Single(t, Append(r, Head(s)))
                     /\ Single(t, s) /\ Free(t, r) =>
                           /\ Single(t, Append(r, Head(s)))
                           /\ Free(t, Tail(s)) \/ Free(t, Append(r, Head(s)))
<1> DEFINE h == <<Head(s)>>
<1>1. Len(s) \in Nat /\ Len(s) # 0 /\ Head(s) = s[1] /\ Head(s) \in Message /\ 1 \in 1..Len(s)
  BY EmptySeq, LenProperties, HeadTailProperties
<1>2. /\ Tail(s) \in Seq(Message) /\ Len(Tail(s)) = Len(s) - 1
      /\ \A i \in 1..Len(Tail(s)) : i + 1 \in 1..Len(s) /\ i + 1 # 1 /\ Tail(s)[i] = s[i + 1]
  <2>1. Tail(s) \in Seq(Message) /\ Len(Tail(s)) = Len(s) - 1
        /\ \A i \in 1..Len(Tail(s)) : Tail(s)[i] = s[i + 1]
    BY HeadTailProperties
  <2> QED
    BY <1>1, <2>1
<1>3. /\ Append(r, Head(s)) = r \o h /\ h \in Seq(Message)
      /\ \A t : Single(t, h) /\ (Head(s).to # t => Free(t, h))
  BY <1>1, AppendIsConcat, ShortFacts
<1> HIDE DEF h
<1>4. ASSUME NEW t PROVE /\ Free(t, s) => Free(t, Tail(s)) /\ Free(t, h)
                         /\ Single(t, s) => Single(t, Tail(s))
                         /\ Single(t, s) => Free(t, Tail(s)) \/ Free(t, h)
  <2>1. Free(t, s) => Free(t, Tail(s)) /\ Free(t, h)
    BY <1>1, <1>2, <1>3 DEF Free
  <2>2. \A i, j \in 1..Len(Tail(s)) : i + 1 = j + 1 => i = j
    BY <1>1, <1>2
  <2>3. Single(t, s) => Single(t, Tail(s))
    BY <1>2, <2>2 DEF Single
  <2>4. Single(t, s) /\ Head(s).to = t => Free(t, Tail(s))
    BY <1>1, <1>2 DEF Single, Free
  <2> QED
    BY <1>3, <2>1, <2>3, <2>4
<1>5. ASSUME NEW t PROVE /\ Free(t, r) /\ Free(t, h) => Free(t, r \o h)
                         /\ Free(t, r) => Single(t, r \o h)
                         /\ Single(t, r) /\ Free(t, h) => Single(t, r \o h)
  BY <1>3, Followed
<1>6. r \o h \in Seq(Message)
  BY <1>3, Followed
<1> QED
  BY <1>2, <1>3, <1>4, <1>5, <1>6

\* What is on the way between a client and a call, when the client's own queues change.
LEMMA OtherClients ==
    ASSUME AnswerInv, NEW c \in Clients, UNCHANGED <<pc, op, on, seen>>, WireTypes', OtherTypes',
           \A d \in Clients \ {c} :
               asked'[d] = asked[d] /\ stream'[d] = stream[d] /\ inbox'[d] = inbox[d],
           \A u \in Tools : LineInv(u, c) => LineInv(u, c)'
    PROVE  AnswerInv'
<1>1. ASSUME NEW u \in Tools, NEW d \in Clients PROVE LineInv(u, d) => LineInv(u, d)'
  <2>1. CASE d = c
    <3>1. LineInv(u, c) => LineInv(u, c)'
      OBVIOUS
    <3> QED
      BY <2>1, <3>1 DEF LineInv, AtMostOne, Clear, Unasked, Owed
  <2>2. CASE d # c
    BY <2>2, SameLine, SparedLine
  <2> QED
    BY <2>1, <2>2
<1> QED
  BY <1>1, CallsStay DEF AnswerInv

\* An adapter answers a request, and may report what the target did.
LEMMA AnswerServe ==
    ASSUME AnswerInv, NEW c \in Clients, NEW q \in asked[c], Serve(c, q)
    PROVE  AnswerInv'
<1>0. UNCHANGED <<pc, op, on, seen, after, readErr, inbox>>
  BY DEF Serve, lockVars, callVars, clientVars
<1>1. /\ stops[c] \in Nat /\ stops[c] \in 0..MaxStops /\ MaxStops \in Nat /\ 0 \in Nat
      /\ target[c] \in {"none", "running", "stopped", "ended"}
      /\ asked[c] \subseteq Asking /\ stream[c] \in Seq(Message)
  BY SessionAssumption DEF SessionAssumption, AnswerInv, OtherTypes, WireTypes
<1>2. NoOne \notin Tools
  BY SessionAssumption DEF SessionAssumption
<1>3. PICK ok \in BOOLEAN, stop \in Nat, type \in {"stopped", "terminated"}, reached \in Nat :
        \/ Sends(c, q, Response(q.to, ok, stop), <<>>)
        \/ Sends(c, q, Response(q.to, ok, stop), <<Event(type, reached)>>)
  <2>1. \/ \E ok \in BOOLEAN : Sends(c, q, Response(q.to, ok, 0), <<>>)
        \/ Sends(c, q, Response(q.to, target[c] = "stopped", stops[c]), <<>>)
        \/ Sends(c, q, Response(q.to, TRUE, 0), <<Event("stopped", stops[c] + 1)>>)
        \/ Sends(c, q, Response(q.to, TRUE, 0), <<Event("terminated", stops[c])>>)
    BY DEF Serve
  <2>2. (target[c] = "stopped") \in BOOLEAN /\ stops[c] + 1 \in Nat
    BY <1>1
  <2>3. CASE \/ \E ok \in BOOLEAN : Sends(c, q, Response(q.to, ok, 0), <<>>)
             \/ Sends(c, q, Response(q.to, target[c] = "stopped", stops[c]), <<>>)
    BY <1>1, <2>2, <2>3
  <2>4. CASE \/ Sends(c, q, Response(q.to, TRUE, 0), <<Event("stopped", stops[c] + 1)>>)
             \/ Sends(c, q, Response(q.to, TRUE, 0), <<Event("terminated", stops[c])>>)
    BY <1>1, <2>2, <2>4
  <2> QED
    BY <2>1, <2>3, <2>4
<1>4. OtherTypes'
  <2>1. \/ target' = target
        \/ target' = [target EXCEPT ![c] = IF @ = "stopped" THEN "running" ELSE @]
        \/ target' = [target EXCEPT ![c] = "running"]
        \/ target' = [target EXCEPT ![c] = "stopped"]
        \/ target' = [target EXCEPT ![c] = "ended"]
    BY DEF Serve
  <2>2. stops' = stops \/ (stops[c] < MaxStops /\ stops' = [stops EXCEPT ![c] = @ + 1])
    BY DEF Serve
  <2>3. stops' \in [Clients -> 0..MaxStops]
    <3>1. stops \in [Clients -> 0..MaxStops]
      BY DEF AnswerInv, OtherTypes
    <3>2. CASE stops' = stops
      BY <3>1, <3>2
    <3>3. CASE stops[c] < MaxStops /\ stops' = [stops EXCEPT ![c] = @ + 1]
      <4>1. stops[c] + 1 \in 0..MaxStops
        BY <1>1, <3>3
      <4> QED
        BY <3>1, <3>3, <4>1
    <3> QED
      BY <2>2, <3>2, <3>3
  <2>4. target' \in [Clients -> {"none", "running", "stopped", "ended"}]
    BY <2>1 DEF AnswerInv, OtherTypes
  <2> QED
    BY <1>0, <2>3, <2>4 DEF AnswerInv, OtherTypes
<1> DEFINE answer == IF q.to = NoOne THEN <<>> ELSE <<Response(q.to, ok, stop)>>
<1>5. /\ answer \in Seq(Message)
      /\ \A u : Single(u, answer) /\ (u # q.to => Free(u, answer))
      /\ q.to = NoOne => \A u : Free(u, answer)
  <2>1. Response(q.to, ok, stop) \in Message /\ Response(q.to, ok, stop).to = q.to
    BY <1>1 DEF Response, Message, Asking
  <2> QED
    BY <2>1, ShortFacts
<1>6. PICK events : /\ events = <<>> \/ events = <<Event(type, reached)>>
                    /\ Sends(c, q, Response(q.to, ok, stop), events)
  BY <1>3
<1>7. events \in Seq(Message) /\ \A u \in Tools : Free(u, events)
  <2>1. Event(type, reached) \in Message /\ Event(type, reached).to = NoOne
    BY DEF Event, Message
  <2> QED
    BY <1>2, <1>6, <2>1, ShortFacts
<1>8. /\ asked' = [asked EXCEPT ![c] = @ \ {q}]
      /\ stream' \in {[stream EXCEPT ![c] = @ \o answer \o events],
                      [stream EXCEPT ![c] = @ \o events \o answer]}
  BY <1>6 DEF Sends
<1> HIDE DEF answer
<1>9. PICK out : /\ out = stream[c] \o answer \o events \/ out = stream[c] \o events \o answer
                 /\ stream' = [stream EXCEPT ![c] = out]
  BY <1>8
<1>10. /\ out \in Seq(Message)
       /\ \A u \in Tools : /\ Free(u, stream[c]) => Single(u, out)
                           /\ u # q.to /\ Free(u, stream[c]) => Free(u, out)
                           /\ u # q.to /\ Single(u, stream[c]) => Single(u, out)
  <2>1. PICK to, a, s : to = q.to /\ a = answer /\ s = stream[c]
    OBVIOUS
  <2>2. a \in Seq(Message) /\ \A u : Single(u, a) /\ (u # to => Free(u, a))
    BY <1>5, <2>1
  <2>3. s \in Seq(Message) /\ (out = s \o a \o events \/ out = s \o events \o a)
    BY <1>1, <1>9, <2>1
  <2>4. /\ out \in Seq(Message)
        /\ \A u \in Tools : /\ Free(u, s) => Single(u, out)
                            /\ u # to /\ Free(u, s) => Free(u, out)
                            /\ u # to /\ Single(u, s) => Single(u, out)
    BY <1>7, <2>2, <2>3, Sent
  <2> QED
    BY <2>1, <2>4
<1>11. /\ asked'[c] = asked[c] \ {q} /\ stream'[c] = out /\ inbox'[c] = inbox[c]
       /\ \A d \in Clients \ {c} :
            asked'[d] = asked[d] /\ stream'[d] = stream[d] /\ inbox'[d] = inbox[d]
  BY <1>0, <1>8, <1>9 DEF AnswerInv, WireTypes
<1>12. WireTypes'
  BY <1>0, <1>8, <1>9, <1>10 DEF AnswerInv, WireTypes
<1>13. ASSUME NEW u \in Tools, LineInv(u, c) PROVE LineInv(u, c)'
  <2>1. CASE u # q.to
    <3>1. Spares(u, c)
      BY <1>10, <1>11, <2>1 DEF Spares, AtMostOne, Clear, Unasked
    <3> QED
      BY <1>0, <1>13, <3>1, SparedLine
  <2>2. CASE u = q.to
    <3>1. /\ ~Unasked(u, c) /\ ~Clear(u, c) /\ AtMostOne(u, c)
          /\ Owed(u) /\ on[u] = c
      BY <1>13, <2>2 DEF LineInv, Clear, Unasked
    <3>2. /\ Free(u, stream[c]) /\ Free(u, inbox[c])
          /\ \A r \in asked[c] : r.to = u => r = q
      BY <2>2, <3>1 DEF AtMostOne
    <3>3. Unasked(u, c)' /\ Single(u, stream'[c]) /\ Free(u, inbox'[c])
      BY <1>10, <1>11, <3>2 DEF Unasked
    <3>4. AtMostOne(u, c)'
      BY <3>3 DEF AtMostOne, Unasked, Free, Single
    <3>5. Owed(u)' /\ on'[u] = c
      BY <1>0, <3>1 DEF Owed
    <3> QED
      BY <3>4, <3>5 DEF LineInv
  <2> QED
    BY <2>1, <2>2
<1> QED
  BY <1>0, <1>4, <1>11, <1>12, <1>13, OtherClients

\* The read loops and the adapters.
LEMMA AnswerClients ==
    ASSUME AnswerInv, NEW c \in Clients, LoopStep(c) \/ Callback(c) \/ Adapter(c)
    PROVE  AnswerInv'
<1>0. /\ stream[c] \in Seq(Message) /\ inbox[c] \in Seq(Message)
      /\ stops[c] \in 0..MaxStops /\ stops[c] \in Nat /\ MaxStops \in Nat
      /\ NoOne \notin Tools
  BY SessionAssumption DEF SessionAssumption, AnswerInv, WireTypes, OtherTypes
<1>1. CASE EndLoop(c) \/ Callback(c)
  <2>1. /\ UNCHANGED <<pc, op, on, seen, readErr, target, stops, asked, stream, inbox>>
        /\ after' \in {after, "read", "done"}
    BY <1>1 DEF EndLoop, Callback, CleanUp, lockVars, callVars, adapterVars
  <2>2. OtherTypes' /\ WireTypes'
    BY <2>1 DEF AnswerInv, OtherTypes, WireTypes
  <2>3. \A u : \A d \in Clients : Spares(u, d)
    BY <2>1, SameLine
  <2> QED
    BY <2>1, <2>2, <2>3, SparedLine, CallsStay DEF AnswerInv
<1>2. CASE Deliver(c)
  <2>1. /\ stream[c] # <<>>
        /\ inbox' = [inbox EXCEPT ![c] = Append(@, Head(stream[c]))]
        /\ stream' = [stream EXCEPT ![c] = Tail(@)]
        /\ UNCHANGED <<pc, op, on, seen, after, readErr, target, stops, asked>>
    BY <1>2 DEF Deliver, lockVars, callVars
  <2>2. PICK s, r : s = stream[c] /\ r = inbox[c]
    OBVIOUS
  <2>3. PICK n, m : n = Tail(s) /\ m = Append(r, Head(s))
    OBVIOUS
  <2>4. /\ n \in Seq(Message) /\ m \in Seq(Message)
        /\ \A u : /\ Free(u, s) => Free(u, n)
                  /\ Single(u, s) => Single(u, n)
                  /\ Free(u, s) /\ Free(u, r) => Free(u, m)
                  /\ Free(u, s) /\ Single(u, r) => Single(u, m)
                  /\ Single(u, s) /\ Free(u, r) => Single(u, m) /\ (Free(u, n) \/ Free(u, m))
    BY <1>0, <2>1, <2>2, <2>3, Handed
  <2>5. inbox' = [inbox EXCEPT ![c] = m] /\ stream' = [stream EXCEPT ![c] = n]
    BY <2>1, <2>2, <2>3
  <2>6. /\ asked'[c] = asked[c] /\ stream'[c] = n /\ inbox'[c] = m
        /\ \A d \in Clients \ {c} :
              asked'[d] = asked[d] /\ stream'[d] = stream[d] /\ inbox'[d] = inbox[d]
    BY <2>1, <2>5 DEF AnswerInv, WireTypes
  <2>7. WireTypes' /\ OtherTypes'
    BY <2>1, <2>4, <2>5 DEF AnswerInv, WireTypes, OtherTypes
  <2>8. \A u : Spares(u, c)
    BY <2>2, <2>4, <2>6 DEF Spares, AtMostOne, Clear, Unasked
  <2> QED
    BY <2>1, <2>6, <2>7, <2>8, SparedLine, OtherClients
<1>3. CASE ReadFails(c) \/ AdapterExits(c)
  <2>1. /\ \/ stream' = [stream EXCEPT ![c] = <<>>] /\ asked' = asked
           \/ asked' = [asked EXCEPT ![c] = {}] /\ stream' = stream
        /\ readErr' = readErr \/ readErr' = [readErr EXCEPT ![c] = TRUE]
        /\ target' = target \/ target' = [target EXCEPT ![c] = "ended"]
        /\ UNCHANGED <<pc, op, on, seen, after, stops, inbox>>
    BY <1>3 DEF ReadFails, AdapterExits, lockVars, callVars, clientVars
  <2>2. /\ inbox'[c] = inbox[c]
        /\ \/ stream'[c] = <<>> /\ asked'[c] = asked[c]
           \/ stream'[c] = stream[c] /\ asked'[c] = {}
        /\ \A d \in Clients \ {c} :
              asked'[d] = asked[d] /\ stream'[d] = stream[d] /\ inbox'[d] = inbox[d]
    BY <2>1 DEF AnswerInv, WireTypes
  <2>3. WireTypes' /\ OtherTypes'
    <3>1. <<>> \in Seq(Message)
      BY ShortFacts
    <3>2. WireTypes'
      BY <2>1, <3>1 DEF AnswerInv, WireTypes
    <3>3. OtherTypes'
      BY <2>1 DEF AnswerInv, OtherTypes
    <3> QED
      BY <3>2, <3>3
  <2>4. ASSUME NEW u PROVE Spares(u, c)
    <3>1. Free(u, <<>>) /\ Single(u, <<>>)
      BY ShortFacts
    <3>2. CASE stream'[c] = <<>> /\ asked'[c] = asked[c]
      BY <2>2, <3>1, <3>2 DEF Spares, AtMostOne, Clear, Unasked
    <3>3. CASE stream'[c] = stream[c] /\ asked'[c] = {}
      BY <2>2, <3>3 DEF Spares, AtMostOne, Clear, Unasked
    <3> QED
      BY <2>2, <3>2, <3>3
  <2> QED
    BY <2>1, <2>2, <2>3, <2>4, SparedLine, OtherClients
<1>4. CASE TargetStops(c) \/ TargetTerminates(c)
  <2>1. PICK type \in {"stopped", "terminated"}, reached \in Nat :
          stream' = [stream EXCEPT ![c] = Append(@, Event(type, reached))]
    BY <1>0, <1>4 DEF TargetStops, TargetTerminates
  <2>2. /\ UNCHANGED <<pc, op, on, seen, after, readErr, asked, inbox>>
        /\ \E to \in {"stopped", "ended"} : target' = [target EXCEPT ![c] = to]
        /\ stops' = stops \/ (stops[c] < MaxStops /\ stops' = [stops EXCEPT ![c] = @ + 1])
    BY <1>4 DEF TargetStops, TargetTerminates, lockVars, callVars, clientVars
  <2>3. PICK e : e = Event(type, reached)
    OBVIOUS
  <2>4. e \in Message /\ e.to = NoOne
    BY <2>3 DEF Event, Message
  <2>5. PICK out : out = stream[c] \o <<e>>
    OBVIOUS
  <2>6. stream' = [stream EXCEPT ![c] = out]
    BY <1>0, <2>1, <2>3, <2>4, <2>5, AppendIsConcat
  <2>7. /\ out \in Seq(Message)
        /\ \A u \in Tools : /\ Free(u, stream[c]) => Free(u, out)
                            /\ Single(u, stream[c]) => Single(u, out)
    <3>1. <<e>> \in Seq(Message) /\ \A u \in Tools : Free(u, <<e>>)
      BY <1>0, <2>4, ShortFacts
    <3> QED
      BY <1>0, <2>5, <3>1, Followed
  <2>8. /\ stream'[c] = out /\ asked'[c] = asked[c] /\ inbox'[c] = inbox[c]
        /\ \A d \in Clients \ {c} :
              asked'[d] = asked[d] /\ stream'[d] = stream[d] /\ inbox'[d] = inbox[d]
    BY <2>2, <2>6 DEF AnswerInv, WireTypes
  <2>9. WireTypes' /\ OtherTypes'
    <3>1. stops' \in [Clients -> 0..MaxStops]
      BY <1>0, <2>2 DEF AnswerInv, OtherTypes
    <3> QED
      BY <2>2, <2>6, <2>7, <3>1 DEF AnswerInv, WireTypes, OtherTypes
  <2>10. \A u \in Tools : Spares(u, c)
    BY <2>7, <2>8 DEF Spares, AtMostOne, Clear, Unasked
  <2> QED
    BY <2>2, <2>8, <2>9, <2>10, SparedLine, OtherClients
<1> QED
  BY <1>1, <1>2, <1>3, <1>4, AnswerServe DEF LoopStep, Adapter

\* Every step.
LEMMA AnswerStep == Inv /\ AnswerInv /\ [Next]_vars => AnswerInv'
<1> SUFFICES ASSUME Inv, AnswerInv, [Next]_vars PROVE AnswerInv'
  OBVIOUS
<1>1. CASE UNCHANGED vars
  <2>1. UNCHANGED <<pc, op, on, seen, after, readErr, target, stops, asked, stream, inbox>>
    BY <1>1 DEF vars, lockVars, callVars, clientVars, adapterVars
  <2>2. OtherTypes' /\ WireTypes'
    BY <2>1 DEF AnswerInv, OtherTypes, WireTypes
  <2>3. \A u : \A d \in Clients : Spares(u, d)
    BY <2>1, SameLine
  <2> QED
    BY <2>1, <2>2, <2>3, SparedLine, CallsStay DEF AnswerInv
<1>2. ASSUME NEW t \in Tools,
             \/ \E tool \in OfferedTo(t) : Call(t, tool)
             \/ LockStep(t) \/ WaitStep(t) \/ OwnStep(t) \/ Cancel(t)
      PROVE  AnswerInv'
  BY <1>2, AnswerLocks, AnswerWaits, AnswerOwn
<1>3. CASE CleanupStep
  BY <1>3, AnswerCleanup
<1>4. ASSUME NEW c \in Clients, LoopStep(c) \/ Callback(c) \/ Adapter(c) PROVE AnswerInv'
  BY <1>4, AnswerClients
<1> QED
  BY <1>1, <1>2, <1>3, <1>4 DEF Next

------------------------------------------------------------------------------
(* The sessions implement the life of a session.                            *)

\* The session tools are offered to a session, and nothing ever happened to a client
\* that has not been created.
LifeInv ==
    /\ registered = "session" => client # 0
    /\ \A c \in Clients : gone[c] \/ rl[c] # "none" => c <= started

\* A step is one of the life of a session, or none.
Lives == LifeInv' /\ [Life!Next]_(Life!lifeVars)

\* A step that leaves the sessions and their adapters alone.
LEMMA Aside ==
    ASSUME LifeInv, UNCHANGED <<sessionVars, doomed, gone>>,
           \A c \in Clients : rl[c] = "none" => rl'[c] = "none"
    PROVE  Lives
BY DEF Lives, LifeInv, sessionVars, Life!lifeVars, Running

\* The session tools appear, or are there.
LEMMA Offers ==
    ASSUME LifeInv, client # 0, registered \in {"debug", "session"}, registered' = "session",
           UNCHANGED <<started, client, doomed, gone, rl>>
    PROVE  Lives
<1>1. LifeInv'
  BY DEF LifeInv
<1>2. CASE registered = "debug"
  BY <1>2 DEF Life!Next, Life!Offer, Running, Lives, LifeInv
<1>3. CASE registered = "session"
  BY <1>3 DEF Life!lifeVars, Running, Lives, LifeInv
<1> QED
  BY <1>2, <1>3

\* Whoever spawns an adapter holds ds.mu after a cleanup: no adapter is alive.
LEMMA Starts ==
    ASSUME Inv, LifeInv, NEW t \in Tools, Spawn(t)
    PROVE  Lives
<1>1. /\ pc[t] = "spawn" /\ started < MaxSessions /\ started' = started + 1
      /\ client' = started' /\ rl' = [rl EXCEPT ![started'] = "read"]
      /\ UNCHANGED <<registered, doomed, gone>>
  BY DEF Spawn, lockVars
<1>2. started \in Nat /\ MaxSessions \in Nat
  BY SessionAssumption DEF SessionAssumption, Inv, Types
<1>3. client = 0 /\ registered = "debug" /\ doomed = 0
  <2>1. mu = t /\ mu \in Tools /\ pc[mu] # "cleanup"
    BY <1>1, Holder DEF Holds
  <2>2. cleaning = "no"
    BY <2>1, Holder
  <2> QED
    BY <1>1, <2>2 DEF Inv, SessionInv
<1>4. Running = {}
  BY <1>2, <1>3 DEF Running, Inv, SessionInv, AdaptersReaped
<1>5. started + 1 \in Clients /\ ~gone[started + 1]
  BY <1>1, <1>2 DEF Clients, LifeInv
<1>6. Running' = {started + 1}
  <2>1. \A c \in 1..(started + 1) : c \in 1..started \/ c = started + 1
    BY <1>2
  <2>2. started + 1 \in 1..(started + 1) /\ 1..started \subseteq 1..(started + 1)
    BY <1>2
  <2> QED
    BY <1>1, <1>4, <1>5, <2>1, <2>2 DEF Running
<1>7. LifeInv'
  BY <1>1, <1>2, <1>3 DEF LifeInv, Inv, Types, Clients
<1>8. Life!Start
  BY <1>1, <1>2, <1>3, <1>4, <1>6 DEF Life!Start
<1> QED
  BY <1>7, <1>8 DEF Lives, Life!Next

\* The two halves of cleanupLocked, which may find that there is no session.
LEMMA Ends ==
    ASSUME Inv, LifeInv, CleanupStep
    PROVE  Lives
<1>1. CASE Retire
  <2>1. /\ cleaning = "retire" /\ registered' = "debug" /\ doomed' = client /\ client' = 0
        /\ UNCHANGED <<started, gone, rl>>
    BY <1>1 DEF Retire, UnregisterSessionTools, clientVars, adapterVars
  <2>2. doomed = 0 /\ registered \in {"debug", "session"}
    BY <2>1 DEF Inv, SessionInv, Types
  <2>3. LifeInv'
    BY <2>1 DEF LifeInv
  <2>4. CASE client = 0
    <3>1. registered = "debug"
      BY <2>2, <2>4 DEF LifeInv
    <3> QED
      BY <2>1, <2>2, <2>3, <2>4, <3>1 DEF Lives, Life!lifeVars, Running
  <2>5. CASE client # 0
    BY <2>1, <2>2, <2>3, <2>5 DEF Lives, Life!Next, Life!End, Running
  <2> QED
    BY <2>4, <2>5
<1>2. CASE Reap
  <2>1. /\ cleaning = "shutdown" /\ doomed' = 0 /\ UNCHANGED sessionVars
        /\ gone' = [c \in Clients |-> gone[c] \/ c = doomed]
    BY <1>2 DEF Reap, Kills
  <2>2. /\ doomed \in 0..started /\ 1..started \subseteq Clients
        /\ \A c \in Clients : c # 0 /\ gone[c] \in BOOLEAN
    BY SessionAssumption DEF SessionAssumption, Inv, Types, Clients
  <2>3. \A c \in Clients : rl[c] = "none" => rl'[c] = "none"
    <3>1. rl' = rl \/ (mu \notin Tools /\ rl' = [rl EXCEPT ![mu] = after])
      BY <1>2 DEF Reap
    <3>2. mu \in Clients => rl[mu] = "cleanup"
      BY DEF Inv, LockInv
    <3> QED
      BY <3>1, <3>2 DEF Inv, Types
  <2>4. LifeInv'
    BY <2>1, <2>2, <2>3 DEF LifeInv, sessionVars, Clients
  <2>5. Running' = Running \ {doomed}
    BY <2>1, <2>2 DEF Running, sessionVars
  <2>6. CASE doomed = 0
    <3>1. Running' = Running
      BY <2>2, <2>5, <2>6 DEF Running
    <3> QED
      BY <2>1, <2>4, <2>6, <3>1 DEF Lives, Life!lifeVars, sessionVars
  <2>7. CASE doomed # 0
    BY <2>1, <2>4, <2>5, <2>7 DEF Lives, Life!Next, Life!CleanUp, sessionVars
  <2> QED
    BY <2>6, <2>7
<1> QED
  BY <1>1, <1>2 DEF CleanupStep

\* The calls.
LEMMA CallLives ==
    ASSUME Inv, LifeInv, NEW t \in Tools,
           \/ \E tool \in OfferedTo(t) : Call(t, tool)
           \/ LockStep(t) \/ WaitStep(t) \/ OwnStep(t) \/ Cancel(t)
    PROVE  Lives
<1> DEFINE Stays == UNCHANGED <<sessionVars, doomed, gone, rl>>
<1>1. Stays => Lives
  BY Aside
<1>2. ASSUME GiveUp(t) \/ Return(t) PROVE doomed' = doomed
  BY <1>2 DEF GiveUp, Return, CleanUp, lockVars
<1>3. (\E tool \in OfferedTo(t) : Call(t, tool)) => Stays
  BY DEF Call, lockVars, clientVars, adapterVars
<1>4. LockStep(t) => Stays
  BY <1>2 DEF LockStep, NotStarted, Debug, Execute, Request, WriteFails, StopLocked, ClientEnded,
     CleanUp, lockVars, clientVars, adapterVars
<1>5. WaitStep(t) => Stays \/ Launched(t)
  BY <1>2 DEF WaitStep, WaitFails, LaunchRefused, Answered, TakeResponse, TakeStop, TakeTerminated,
     CleanUp, lockVars, adapterVars
<1>6. OwnStep(t) => Stays \/ Spawn(t) \/ Configured(t)
  BY <1>2 DEF OwnStep, DebugFails, Context, Pause, Stop, CloseClient, lockVars, clientVars, adapterVars
<1>7. Cancel(t) => Stays
  BY <1>2 DEF Cancel
<1>8. Launched(t) \/ Configured(t) => Lives
  <2> SUFFICES ASSUME Launched(t) \/ Configured(t) PROVE Lives
    OBVIOUS
  <2>1. /\ pc[t] \in {"launch", "entry"} /\ registered' = "session"
        /\ UNCHANGED <<started, client, doomed, gone, rl>>
    BY DEF Launched, Configured, RegisterSessionTools, lockVars, clientVars, adapterVars
  <2>2. client # 0 /\ registered \in {"debug", "session"}
    BY <2>1 DEF Inv, SessionInv, Types
  <2> QED
    BY <2>1, <2>2, Offers
<1> HIDE DEF Stays
<1> QED
  BY <1>1, <1>3, <1>4, <1>5, <1>6, <1>7, <1>8, Starts

\* The read loops and the adapters.
LEMMA ClientLives ==
    ASSUME Inv, LifeInv, NEW c \in Clients, LoopStep(c) \/ Callback(c) \/ Adapter(c)
    PROVE  Lives
<1>1. CASE AdapterExits(c)
  <2>1. /\ rl[c] # "none" /\ ~gone[c] /\ gone' = [gone EXCEPT ![c] = TRUE]
        /\ UNCHANGED <<sessionVars, doomed, rl>>
    BY <1>1 DEF AdapterExits, Connected, lockVars, clientVars
  <2>2. c <= started /\ c \in 1..started /\ 1..started \subseteq Clients
    BY <2>1, SessionAssumption DEF SessionAssumption, LifeInv, Clients, Inv, Types
  <2>3. c \in Running /\ Running' = Running \ {c}
    BY <2>1, <2>2 DEF Running, sessionVars, Inv, Types
  <2>4. LifeInv'
    BY <2>1, <2>2 DEF LifeInv, sessionVars, Inv, Types
  <2> QED
    BY <2>1, <2>3, <2>4 DEF Lives, Life!Next, Life!AdapterExits, sessionVars
<1>2. CASE LoopStep(c) \/ Callback(c)
  <2>1. UNCHANGED <<sessionVars, doomed, gone>> /\ rl[c] # "none"
    BY <1>2 DEF LoopStep, Deliver, ReadFails, EndLoop, Callback, CleanUp, lockVars, adapterVars
  <2>2. \A d \in Clients \ {c} : rl'[d] = rl[d]
    BY <1>2 DEF LoopStep, Deliver, ReadFails, EndLoop, Callback, Inv, Types
  <2> QED
    BY <2>1, <2>2, Aside
<1>3. CASE Adapter(c) /\ ~AdapterExits(c)
  <2>1. UNCHANGED <<sessionVars, doomed, gone, rl>>
    BY <1>3 DEF Adapter, Serve, TargetStops, TargetTerminates, lockVars, clientVars
  <2> QED
    BY <2>1, Aside
<1> QED
  BY <1>1, <1>2, <1>3

\* At first there is no session.
LEMMA LifeStart == Init => LifeInv /\ Life!Init
BY SessionAssumption DEF SessionAssumption, Init, LifeInv, Life!Init, Running

\* Every step.
LEMMA LifeStep == Inv /\ LifeInv /\ [Next]_vars => Lives
<1> SUFFICES ASSUME Inv, LifeInv, [Next]_vars PROVE Lives
  OBVIOUS
<1>1. CASE UNCHANGED vars
  BY <1>1, Aside DEF vars, lockVars, clientVars, adapterVars
<1>2. CASE Next
  BY <1>2, CallLives, Ends, ClientLives DEF Next
<1> QED
  BY <1>1, <1>2

------------------------------------------------------------------------------
(* The theorems.                                                            *)

LEMMA Invariance == Spec => []Inv
BY Start, Step, PTL DEF Spec

\* ds.mu protects the registration of the tools: whoever gets the lock finds the tools
\* that fit the session.
THEOREM ToolsFit == Spec => []ToolsMatchSession
<1>1. Inv => ToolsMatchSession
  <2> SUFFICES ASSUME Inv, mu = NoOne PROVE registered = "session" <=> client # 0
    BY DEF ToolsMatchSession
  <2>1. cleaning = "no" /\ \A t \in Tools : pc[t] \notin {"launch", "entry"}
    BY Holder DEF Holds
  <2> QED
    BY <2>1 DEF Inv, SessionInv
<1> QED
  BY <1>1, Invariance, PTL

\* No adapter outlives its session, however many sessions there have been and whatever
\* ended them.
THEOREM NoOrphans == Spec => []AdaptersReaped
<1>1. Inv => AdaptersReaped
  BY DEF Inv, SessionInv
<1> QED
  BY <1>1, Invariance, PTL

\* An end callback or the close of a stop cleans up the session of its own client only.
THEOREM EndsItsOwn == Spec => []EndCleansItsSession
<1>1. Inv => EndCleansItsSession
  BY DEF Inv, SessionInv
<1> QED
  BY <1>1, Invariance, PTL

\* At most one call or read loop is inside ds.mu, and only it is in cleanupLocked.
THEOREM LockIsHeldOnce == Spec => []LockInv
<1>1. Inv => LockInv
  BY DEF Inv
<1> QED
  BY <1>1, Invariance, PTL

\* No call has two requests open with one client, however its waits end.
THEOREM TypeCorrect == Spec => []TypeOK
<1>1. Inv /\ AnswerInv => TypeOK
  <2> SUFFICES ASSUME Inv, AnswerInv PROVE TypeOK
    OBVIOUS
  <2>1. ASSUME NEW c \in Clients, NEW t \in Tools
        PROVE  Cardinality({q \in asked[c] : q.to = t}) <= 1
    <3>1. \A q, r \in asked[c] : q.to = t /\ r.to = t => q = r
      BY DEF AnswerInv, WaitInv, LineInv, AtMostOne
    <3>2. CASE {q \in asked[c] : q.to = t} = {}
      BY <3>2, FS_EmptySet
    <3>3. CASE {q \in asked[c] : q.to = t} # {}
      <4>1. PICK q \in asked[c] : q.to = t
        BY <3>3
      <4>2. PICK s : s = {r \in asked[c] : r.to = t}
        OBVIOUS
      <4>3. s = {q}
        BY <3>1, <4>1, <4>2
      <4>4. Cardinality(s) = 1
        BY <4>3, FS_Singleton
      <4> QED
        BY <4>2, <4>4
    <3> QED
      BY <3>2, <3>3
  <2>2. client \in 0..MaxSessions /\ doomed \in 0..MaxSessions /\ control \in 0..MaxSessions
    BY SessionAssumption DEF SessionAssumption, Inv, Types
  <2> QED
    BY <2>1, <2>2 DEF Inv, Types, AnswerInv, OtherTypes, Sight, TypeOK, Holders
<1>2. Init => AnswerInv
  BY AnswerStart
<1> QED
  BY <1>1, <1>2, AnswerStep, Invariance, PTL DEF Spec

\* Whatever calls, callbacks and ends of adapters meet, the server has one debugger at a
\* time: it starts an adapter only when the one before has been reaped, and offers the
\* session tools only while the session lasts.
THEOREM Implements == Spec => OneDebuggerAtATime
<1>1. Inv /\ LifeInv /\ [Next]_vars => LifeInv' /\ [Life!Next]_(Life!lifeVars)
  BY LifeStep DEF Lives
<1> QED
  BY <1>1, LifeStart, Invariance, PTL DEF Spec, OneDebuggerAtATime, Life!Spec
==============================================================================
