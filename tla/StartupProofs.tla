----------------------------- MODULE StartupProofs -----------------------------
(***************************************************************************)
(* Theorems about Startup, for every bound: a start that fails leaves      *)
(* nothing behind, no program runs before it has its breakpoints, the      *)
(* types, and which stop debug reports and leaves none of.                 *)
(***************************************************************************)
EXTENDS Startup, SequenceLemmas

------------------------------------------------------------------------------
(* The rollback.                                                            *)

Bad == {"error", "terminated"}
Handshake == Waits \union {"take"}

\* What startDelve leaves, and when.
Spawning ==
    /\ spawn = "start" => child = "none"
    /\ spawn = "reap" => ~readEnd
    /\ spawn = "failed" => child \in {"none", "reaped"} /\ ~readEnd

\* The rollback is armed once the adapter runs, and nothing needs it before.
Armed ==
    /\ pc = "spawn" => client = "nil" /\ registered = "debug" /\ outcome = "none"
    /\ pc \in Handshake \union {"cleanup"} => spawn = "running"
    /\ pc # "spawn" => spawn \in {"running", "failed"}

Undone ==
    /\ outcome \in Bad => pc \in {"cleanup", "returned"}
    /\ pc = "returned" /\ outcome \in Bad =>
         /\ client # "open" /\ registered = "debug"
         /\ child \in {"none", "reaped"} /\ ~readEnd

Rollback == Spawning /\ Armed /\ Undone

\* A step of the handshake goes on, arms the rollback, or returns with a result.
LEMMA HandshakeStep ==
    ASSUME Rollback, Elsewhere, pc \in Handshake,
           \/ pc' \in Handshake /\ outcome' = outcome
           \/ pc' = "cleanup"
           \/ pc' = "returned" /\ outcome' \notin Bad
    PROVE  Rollback'
  BY DEF Rollback, Spawning, Armed, Undone, Elsewhere, spawnVars, Handshake, Waits, Bad

LEMMA RollbackInit == Init => Rollback
  BY DEF Init, SpawnInit, Rollback, Spawning, Armed, Undone, Handshake, Waits, Bad

\* What is taken is taken in a wait.
LEMMA TakenInWait ==
    /\ \A ok : Answered(ok) => pc \in Waits
    /\ \A type, ok, i : Take(type, ok, i) => pc \in Waits
  BY DEF Answered, Take, Matching

LEMMA RollbackStep == Rollback /\ [Next]_vars => Rollback'
<1> SUFFICES ASSUME Rollback, [Next]_vars PROVE Rollback'
  OBVIOUS
<1> USE DEF Rollback, Spawning, Armed, Undone, Handshake, Bad
<1>1. CASE SpawnStep
  <2> SUFFICES ASSUME SpawnGDB \/ StartDelve, NoHandshakeStep PROVE Rollback'
    BY <1>1 DEF SpawnStep
  <2>1. spawn \notin {"running", "failed"} => pc = "spawn"
    OBVIOUS
  <2>2. CASE SpawnGDB
    BY <2>1, <2>2 DEF SpawnGDB, NoHandshakeStep, callVars, sessionVars
  <2>3. CASE StartDelve
    BY <2>1, <2>3 DEF StartDelve, StartFails, Start, Announced, Timeout, Kill, CloseOutput,
          Reap, ReapChild, NoHandshakeStep, callVars, sessionVars, Waits
  <2> QED
    BY <2>2, <2>3
<1>2. CASE ScanStep
  BY <1>2 DEF ScanStep, Scanner, Scan, ScanEnds, Drain, DrainEnds, Send, NoHandshakeStep,
        callVars, sessionVars
<1>3. CASE ChildStep
  BY <1>3 DEF ChildStep, Prints, ChildExits, NoHandshakeStep, callVars, sessionVars
<1>4. CASE SpawnFailed
  BY <1>4 DEF SpawnFailed, Goto, spawnVars, sessionVars, Waits
<1>5. CASE ConnectFails
  BY <1>5 DEF ConnectFails, CleanUpAfter, Goto, spawnVars, Waits
<1>6. CASE Connect
  BY <1>6 DEF Connect, Goto, spawnVars, Waits
<1>7. CASE WaitFails \/ Cancel
  BY <1>7, HandshakeStep DEF WaitFails, Cancel, Fail, CleanUpAfter, Goto
<1>8. CASE Refused
  BY <1>8, TakenInWait, HandshakeStep DEF Refused, Fail, CleanUpAfter, Goto
<1>9. CASE InitializeAnswered
  BY <1>9, TakenInWait, HandshakeStep DEF InitializeAnswered, CleanUpAfter, Goto, Waits
<1>10. CASE LaunchAnsweredFirst
  BY <1>10, TakenInWait, HandshakeStep DEF LaunchAnsweredFirst
<1>11. Configure => pc' \in Handshake
  BY DEF Configure, Configured, AfterConfiguration, Goto, Waits
<1>12. Configured => pc' \in Handshake
  BY DEF Configured, AfterConfiguration, Goto, Waits
<1>13. CASE InitializedEvent
  BY <1>11, <1>13, TakenInWait, HandshakeStep DEF InitializedEvent, Goto, Waits
<1>14. CASE BreakpointsSet
  BY <1>11, <1>14, TakenInWait, HandshakeStep DEF BreakpointsSet
<1>15. CASE ConfigurationAnswered
  BY <1>12, <1>15, TakenInWait, HandshakeStep DEF ConfigurationAnswered
<1>16. Report /\ pc \in Waits => pc' \in Handshake
  BY DEF Report, Goto, Waits
<1>17. CASE ResponseTaken
  BY <1>16, <1>17, TakenInWait, HandshakeStep DEF ResponseTaken
<1>18. CASE StopTaken
  <2>1. Elsewhere /\ outcome' = outcome
    BY <1>18 DEF StopTaken
  <2>2. pc \in Waits
    BY <1>18, TakenInWait DEF StopTaken
  <2>3. pc' \in Handshake
    BY <1>16, <1>18, <2>2 DEF StopTaken
  <2> QED
    BY <2>1, <2>2, <2>3, HandshakeStep
<1>19. CASE TerminatedTaken
  BY <1>19, TakenInWait, HandshakeStep DEF TerminatedTaken, CleanUpAfter, Goto
<1>20. CASE LaunchAnswered
  BY <1>20, TakenInWait, HandshakeStep DEF LaunchAnswered, Goto
<1>21. CASE AtEntryStop
  BY <1>21, HandshakeStep DEF AtEntryStop, Goto, Waits
<1>22. CASE StackRead
  BY <1>22, TakenInWait, HandshakeStep DEF StackRead, Goto
<1>23. CASE CleanUp
  BY <1>23 DEF CleanUp, EndSession, Goto, Waits
<1>24. CASE Deliver \/ ReadFails
  BY <1>24 DEF Deliver, ReadFails, spawnVars, callVars, sessionVars
<1>25. CASE ClientEnded
  BY <1>25 DEF ClientEnded, EndSession, callVars, sessionVars, Waits
<1>26. CASE Serve
  BY <1>26 DEF Serve, ServesInitialize, ServesLaunch, ServesBreakpoints, ServesConfigurationDone,
        ServesContinue, ServesStackTrace, Refuses, Serves, spawnVars, callVars, sessionVars
<1>27. CASE TargetStops \/ TargetTerminates
  BY <1>27 DEF TargetStops, TargetTerminates, spawnVars, callVars, sessionVars
<1>28. CASE AdapterExits
  BY <1>28 DEF AdapterExits, callVars, sessionVars
<1>29. CASE UNCHANGED vars
  BY <1>29 DEF vars, spawnVars, callVars, sessionVars
<1> QED
  BY <1>1, <1>2, <1>3, <1>4, <1>5, <1>6, <1>7, <1>8, <1>9, <1>10, <1>13, <1>14, <1>15, <1>17,
     <1>18, <1>19, <1>20, <1>21, <1>22, <1>23, <1>24, <1>25, <1>26, <1>27, <1>28, <1>29
     DEF Next, DebugStep, LoopStep

\* A debug call that fails, or whose program ends, leaves no client, no session tools and
\* no adapter process or pipe behind (backend.go:119-124, tools_execution.go:366-371 and
\* 608-612).
THEOREM RollsBack == Spec => []FailedStartLeavesNothing
<1>1. Rollback => FailedStartLeavesNothing
  BY DEF Rollback, Undone, Bad, FailedStartLeavesNothing
<1> QED
  BY <1>1, RollbackInit, RollbackStep, PTL DEF Spec

------------------------------------------------------------------------------
(* The breakpoints before the program.                                      *)

\* Taking leaves messages of the same kind, and takes one of them.
LEMMA TakeFacts ==
    ASSUME NEW S, inbox \in Seq(S), NEW type, NEW ok, NEW i, Take(type, ok, i)
    PROVE  /\ inbox' \in Seq(S) /\ inbox[i] \in S
           /\ pc \in Waits /\ Wanted(inbox[i])
           /\ inbox[i].type = type /\ inbox[i].ok = ok
<1>1. /\ i \in 1..Len(inbox) /\ pc \in Waits /\ Wanted(inbox[i])
      /\ inbox[i].type = type /\ inbox[i].ok = ok
      /\ inbox' = RemoveAt(inbox, i)
  BY DEF Take, Matching
<1> QED
  BY <1>1, RemoveAtFacts, ElementOfSeq

EarlyPlaces == {"spawn", "initialize", "initialized", "breakpoints", "cleanup", "returned"}

EarlyRequests ==
    {"initialize", "breakpoints"} \union (IF LaunchAfterConfiguration THEN {} ELSE {"launch"})

\* Messages that do not confirm the breakpoints.
EarlyMessages == {m \in Messages : ~(m.type = "response" /\ m.of = "breakpoints" /\ m.ok)}

\* While breakpoints are missing nothing that runs the program is on its way.
Early ==
    /\ target = "none"
    /\ pc \in EarlyPlaces
    /\ wire \in Seq(EarlyRequests)
    /\ inbox \in Seq(EarlyMessages) /\ stream \in Seq(EarlyMessages)

Placing == config.breakpoints /\ ~placed => Early

LEMMA PlacingInit == Init => Placing
<1> SUFFICES ASSUME Init PROVE Early
  BY DEF Placing
<1> QED
  BY EmptySeq DEF Init, Early, EarlyPlaces

\* The messages the adapter sends before that.
LEMMA EarlyMessage ==
    /\ \A of \in Requests : Response(of, FALSE) \in EarlyMessages
    /\ \A of \in Requests \ {"breakpoints"} : Response(of, TRUE) \in EarlyMessages
    /\ Event("initialized") \in EarlyMessages /\ Event("terminated") \in EarlyMessages
<1>1. 0 \in 0..MaxStops
  BY MaxStopsAssumption
<1> QED
  BY <1>1 DEF Response, Event, EarlyMessages, Messages, Reasons

LEMMA SaysEarly ==
    ASSUME stream \in Seq(EarlyMessages),
           NEW m \in EarlyMessages, NEW n \in EarlyMessages,
           Says(<<m>>) \/ EitherOrder(m, n)
    PROVE  stream' \in Seq(EarlyMessages)
<1>1. <<m>> \in Seq(EarlyMessages) /\ <<m, n>> \in Seq(EarlyMessages) /\ <<n, m>> \in Seq(EarlyMessages)
  OBVIOUS
<1> QED
  BY <1>1, ConcatProperties DEF Says, EitherOrder

\* The adapter has nothing to serve that runs the program.
LEMMA ServeEarly ==
    ASSUME Early, Serve, ~placed'
    PROVE  Early'
<1> USE DEF Early
<1> DEFINE Keeps == target' = "none" /\ stream' \in Seq(EarlyMessages)
<1>1. ASSUME NEW request, Serves(request)
      PROVE  /\ request \in EarlyRequests /\ wire' \in Seq(EarlyRequests)
             /\ config' = config /\ pc' = pc /\ inbox' = inbox
  BY <1>1, HeadTailProperties DEF Serves, callVars, loopVars
<1>2. ASSUME Keeps, NEW request, Serves(request) PROVE Early'
  <2>1. EarlyRequests' = EarlyRequests
    BY <1>1, <1>2 DEF EarlyRequests, LaunchAfterConfiguration
  <2> QED
    BY <1>1, <1>2, <2>1
<1> HIDE DEF Early
<1>3. ASSUME NEW request \in Requests, Refuses(request) PROVE Early'
  BY <1>2, <1>3, EarlyMessage, SaysEarly DEF Refuses, Early
<1>4. CASE ServesInitialize
  <2>1. /\ Response("initialize", TRUE) \in EarlyMessages
        /\ Event("initialized") \in EarlyMessages
    BY EarlyMessage DEF Requests
  <2>2. \/ Says(<<Response("initialize", TRUE), Event("initialized")>>)
        \/ Says(<<Response("initialize", TRUE)>>)
    BY <1>4 DEF ServesInitialize
  <2>3. stream' \in Seq(EarlyMessages)
    BY <2>1, <2>2, SaysEarly DEF EitherOrder, Early
  <2> QED
    BY <1>2, <1>4, <2>3 DEF ServesInitialize, adapterVars, Early
<1>5. CASE ServesLaunch
  <2>1. config.adapter # "gdb14"
    BY <1>1, <1>5 DEF ServesLaunch, EarlyRequests, LaunchAfterConfiguration
  <2>2. /\ Response("launch", TRUE) \in EarlyMessages
        /\ Event("initialized") \in EarlyMessages
    BY EarlyMessage DEF Requests
  <2>3. CASE config.adapter = "delve"
    BY <1>2, <1>5, <2>2, <2>3, SaysEarly DEF ServesLaunch, Early
  <2>4. CASE config.adapter # "delve"
    BY <1>2, <1>5, <2>1, <2>4 DEF ServesLaunch, Early
  <2> QED
    BY <2>3, <2>4
<1>6. CASE ServesBreakpoints
  BY <1>6 DEF ServesBreakpoints
<1>7. ~Serves("configurationDone") /\ ~Serves("continue") /\ ~Serves("stackTrace")
  BY <1>1 DEF EarlyRequests
<1> QED
  BY <1>3, <1>4, <1>5, <1>6, <1>7
     DEF Serve, ServesConfigurationDone, ServesContinue, ServesStackTrace

LEMMA AskEarly ==
    ASSUME wire \in Seq(EarlyRequests), NEW request \in EarlyRequests, Ask(request)
    PROVE  wire' \in Seq(EarlyRequests)
  BY AppendProperties DEF Ask

\* What a step of the handshake takes leaves the rest.
LEMMA AnsweredEarly ==
    ASSUME Early, NEW ok, Answered(ok)
    PROVE  /\ inbox' \in Seq(EarlyMessages) /\ pc \in Waits
           /\ ok => Awaited # "breakpoints"
<1>1. PICK i \in 1..Len(inbox) : Take("response", ok, i)
  BY DEF Answered
<1>2. /\ inbox' \in Seq(EarlyMessages) /\ inbox[i] \in EarlyMessages
      /\ pc \in Waits /\ Wanted(inbox[i])
      /\ inbox[i].type = "response" /\ inbox[i].ok = ok
  BY <1>1, TakeFacts DEF Early
<1> QED
  BY <1>2 DEF Wanted, EarlyMessages

\* A step of debug, while breakpoints are missing.
LEMMA DebugEarly ==
    ASSUME Early, config.breakpoints, DebugStep \/ Cancel
    PROVE  Early'
<1> DEFINE Keeps == /\ target' = target /\ config' = config /\ stream' = stream
                    /\ pc' \in EarlyPlaces
                    /\ wire' \in Seq(EarlyRequests) /\ inbox' \in Seq(EarlyMessages)
<1>1. Keeps => Early'
  BY DEF Early, EarlyRequests, LaunchAfterConfiguration
<1>2. Elsewhere => target' = target /\ config' = config /\ stream' = stream
  BY DEF Elsewhere, adapterVars
<1> USE DEF EarlyPlaces
<1>3. CASE SpawnFailed \/ ConnectFails \/ CleanUp
  BY <1>1, <1>3 DEF SpawnFailed, ConnectFails, CleanUp, CleanUpAfter, Goto, Early, adapterVars,
        linkVars, loopVars
<1>4. CASE Connect
  BY <1>1, <1>4, AskEarly DEF Connect, Goto, Early, EarlyRequests, adapterVars
<1>5. CASE WaitFails \/ Cancel
  BY <1>1, <1>2, <1>5 DEF WaitFails, Cancel, Fail, CleanUpAfter, Goto, Early
<1>6. CASE Refused
  BY <1>1, <1>2, <1>6, AnsweredEarly DEF Refused, Fail, CleanUpAfter, Goto, Early
<1>7. CASE InitializeAnswered
  <2>1. pc' \in EarlyPlaces
    BY <1>7 DEF InitializeAnswered, CleanUpAfter, Goto
  <2>2. wire' \in Seq(EarlyRequests)
    <3>1. wire' = wire \/ (~LaunchAfterConfiguration /\ Ask("launch"))
      BY <1>7 DEF InitializeAnswered
    <3> QED
      BY <3>1, AskEarly DEF Early, EarlyRequests
  <2> QED
    BY <1>1, <1>2, <1>7, <2>1, <2>2, AnsweredEarly DEF InitializeAnswered
<1>8. CASE LaunchAnsweredFirst
  BY <1>1, <1>2, <1>8, AnsweredEarly DEF LaunchAnsweredFirst, Early
<1>9. CASE InitializedEvent
  <2>1. inbox' \in Seq(EarlyMessages)
    BY <1>9, TakeFacts DEF InitializedEvent, Early
  <2>2. Ask("breakpoints") /\ pc' = "breakpoints"
    BY <1>9 DEF InitializedEvent, Goto
  <2> QED
    BY <1>1, <1>2, <1>9, <2>1, <2>2, AskEarly DEF InitializedEvent, Early, EarlyRequests
<1>10. ~BreakpointsSet
  BY AnsweredEarly DEF BreakpointsSet, Awaited
<1>11. pc \notin {"configure", "first", "execution", "launch", "take", "stackTrace"}
  BY DEF Early
<1>12. ~ConfigurationAnswered /\ ~ResponseTaken /\ ~LaunchAnswered /\ ~AtEntryStop /\ ~StackRead
  BY <1>11 DEF ConfigurationAnswered, ResponseTaken, LaunchAnswered, AtEntryStop, StackRead
<1>13. ~StopTaken /\ ~TerminatedTaken
  <2>1. ASSUME NEW type \in {"stopped", "terminated"}, NEW i, Take(type, TRUE, i) PROVE FALSE
    <3>1. Wanted(inbox[i]) /\ inbox[i].type = type
      BY <2>1, TakeFacts DEF Early
    <3> QED
      BY <1>11, <3>1 DEF Wanted
  <2> QED
    BY <2>1 DEF StopTaken, TerminatedTaken
<1> QED
  BY <1>3, <1>4, <1>5, <1>6, <1>7, <1>8, <1>9, <1>10, <1>12, <1>13 DEF DebugStep

\* What debug was called with stays, and the breakpoints stay placed.
LEMMA PlacedForGood ==
    [Next]_vars => config' = config /\ (placed => placed')
<1> SUFFICES ASSUME [Next]_vars PROVE config' = config /\ (placed => placed')
  OBVIOUS
<1>1. CASE SpawnStep \/ ScanStep \/ ChildStep \/ UNCHANGED vars
  BY <1>1 DEF SpawnStep, ScanStep, ChildStep, NoHandshakeStep, vars, adapterVars
<1>2. CASE SpawnFailed \/ ConnectFails \/ Connect \/ CleanUp
  BY <1>2 DEF SpawnFailed, ConnectFails, Connect, CleanUp, adapterVars
<1>3. CASE Elsewhere
  BY <1>3 DEF Elsewhere, adapterVars
<1>4. CASE LoopStep
  BY <1>4 DEF LoopStep, Deliver, ReadFails, ClientEnded, adapterVars
<1>5. CASE Serve
  <2>1. \A request : Serves(request) => config' = config
    BY DEF Serves
  <2>2. CASE ServesInitialize \/ ServesStackTrace
    BY <2>1, <2>2 DEF ServesInitialize, ServesStackTrace, adapterVars
  <2>3. CASE ServesLaunch
    BY <2>1, <2>3 DEF ServesLaunch
  <2>4. CASE ServesBreakpoints \/ ServesContinue
    BY <2>1, <2>4 DEF ServesBreakpoints, ServesContinue
  <2>5. CASE ServesConfigurationDone
    BY <2>1, <2>5 DEF ServesConfigurationDone
  <2>6. ASSUME NEW request \in Requests, Refuses(request)
        PROVE  config' = config /\ (placed => placed')
    BY <2>1, <2>6 DEF Refuses
  <2> QED
    BY <1>5, <2>2, <2>3, <2>4, <2>5, <2>6 DEF Serve
<1>6. CASE TargetStops \/ TargetTerminates \/ AdapterExits
  BY <1>6 DEF TargetStops, TargetTerminates, AdapterExits
<1> QED
  BY <1>1, <1>2, <1>3, <1>4, <1>5, <1>6
     DEF Next, DebugStep, Cancel, WaitFails, Refused, InitializeAnswered, LaunchAnsweredFirst,
         InitializedEvent, BreakpointsSet, ConfigurationAnswered, ResponseTaken, StopTaken,
         TerminatedTaken, LaunchAnswered, AtEntryStop, StackRead

LEMMA PlacingStep == Placing /\ [Next]_vars => Placing'
<1> SUFFICES ASSUME Early, [Next]_vars, config.breakpoints, ~placed' PROVE Early'
  BY PlacedForGood DEF Placing
<1> DEFINE Keeps == /\ target' = target /\ config' = config /\ pc' = pc /\ wire' = wire
                    /\ inbox' = inbox /\ stream' = stream
<1>1. Keeps => Early'
  BY DEF Early, EarlyRequests, LaunchAfterConfiguration
<1>2. CASE SpawnStep \/ ScanStep \/ ChildStep \/ UNCHANGED vars
  BY <1>1, <1>2 DEF SpawnStep, ScanStep, ChildStep, NoHandshakeStep, vars, callVars, loopVars,
        adapterVars, linkVars
<1>3. CASE DebugStep \/ Cancel
  BY <1>3, DebugEarly
<1>4. CASE Deliver
  <2>1. Head(stream) \in EarlyMessages /\ Tail(stream) \in Seq(EarlyMessages)
    BY <1>4, HeadTailProperties DEF Deliver, Early
  <2>2. inbox' \in Seq(EarlyMessages) /\ stream' \in Seq(EarlyMessages)
    BY <1>4, <2>1, AppendProperties DEF Deliver, Early
  <2> QED
    BY <1>4, <2>2 DEF Deliver, Early, EarlyRequests, LaunchAfterConfiguration, callVars, adapterVars
<1>5. CASE ReadFails
  BY <1>5, EmptySeq DEF ReadFails, Early, EarlyRequests, LaunchAfterConfiguration, callVars, adapterVars
<1>6. CASE ClientEnded
  BY <1>1, <1>6 DEF ClientEnded, callVars, adapterVars, linkVars
<1>7. CASE Serve
  BY <1>7, ServeEarly
<1>8. ~TargetStops /\ ~TargetTerminates
  BY DEF TargetStops, TargetTerminates, Early
<1>9. CASE AdapterExits
  BY <1>9, EmptySeq DEF AdapterExits, Early, EarlyRequests, LaunchAfterConfiguration, callVars, loopVars
<1> QED
  BY <1>2, <1>3, <1>4, <1>5, <1>6, <1>7, <1>8, <1>9 DEF Next, LoopStep

\* No adapter runs the debuggee before it has the breakpoints debug was called with
\* (tools_execution.go:483-490 and 545-558).
THEOREM BreakpointsFirst == Spec => []BreakpointsBeforeRun
<1>1. Placing => BreakpointsBeforeRun
  BY DEF Placing, Early, BreakpointsBeforeRun
<1> QED
  BY <1>1, PlacingInit, PlacingStep, PTL DEF Spec

------------------------------------------------------------------------------
(* The types.                                                               *)

\* The scanner has a result to give once, and before startDelve has taken it.
Announcing ==
    /\ ready # "empty" => scanner \in {"drain", "done"}
    /\ spawn = "start" => scanner = "none" /\ ready = "empty"

SpawnTypeInv == SpawnTypeOK /\ Announcing
TypeInv == SpawnTypeInv /\ CallType /\ SessionType /\ AdapterType /\ LinkType

LEMMA TypeInit == Init => TypeInv
<1> SUFFICES ASSUME Init PROVE TypeInv
  OBVIOUS
<1>1. SpawnTypeInv
  BY SpawnAssumption, EmptySeq DEF Init, SpawnInit, SpawnTypeInv, SpawnTypeOK, Announcing
<1>2. CallType
  <2>1. NothingSeen \in [response : BOOLEAN, stop : [stop : 0..MaxStops, reason : Reasons]]
    BY MaxStopsAssumption DEF NothingSeen, NoStop, Reasons
  <2> QED
    BY <2>1 DEF Init, CallType
<1>3. SessionType /\ AdapterType
  <2>1. SessionType
    BY DEF Init, SessionType
  <2>2. AdapterType
    <3>1. launch = "no" /\ placed = FALSE /\ target = "none" /\ stops = 0
      BY DEF Init
    <3>2. stops \in 0..MaxStops
      BY <3>1, MaxStopsAssumption
    <3> QED
      BY <3>1, <3>2 DEF AdapterType
  <2> QED
    BY <2>1, <2>2
<1>4. LinkType
  BY EmptySeq DEF Init, LinkType
<1> QED
  BY <1>1, <1>2, <1>3, <1>4 DEF TypeInv

\* A step of startDelve, of its goroutine or of the process it starts.
LEMMA SpawnTypeStep ==
    ASSUME SpawnTypeInv,
           \/ StartDelve \/ SpawnGDB \/ Scanner \/ (\E line \in Lines : Prints(line))
           \/ ChildExits
    PROVE  SpawnTypeInv'
<1> USE SpawnAssumption DEF SpawnTypeInv, SpawnTypeOK, Announcing
<1>1. CASE StartDelve
  BY <1>1 DEF StartDelve, StartFails, Start, Announced, Timeout, Kill, CloseOutput, Reap, ReapChild
<1>2. CASE SpawnGDB
  BY <1>2 DEF SpawnGDB
<1>3. CASE Scan
  <2>1. Tail(pipe) \in Seq(Lines) /\ Len(Tail(pipe)) <= PipeSize
    BY <1>3, HeadTailProperties, LenProperties DEF Scan
  <2>2. ready' \in {"empty", "address", "error"} /\ scanner' \in {"scan", "drain", "done"}
        /\ (ready' # "empty" => scanner' \in {"drain", "done"})
    BY <1>3 DEF Scan, Send, AfterAnnouncement
  <2> QED
    BY <1>3, <2>1, <2>2 DEF Scan
<1>4. CASE ScanEnds \/ DrainEnds
  BY <1>4 DEF ScanEnds, DrainEnds, Send
<1>5. CASE Drain
  BY <1>5, EmptySeq DEF Drain
<1>6. ASSUME NEW line \in Lines, Prints(line) PROVE SpawnTypeInv'
  <2>1. Append(pipe, line) \in Seq(Lines) /\ Len(Append(pipe, line)) = Len(pipe) + 1
    BY AppendProperties
  <2> QED
    BY <1>6, <2>1, LenProperties DEF Prints
<1>7. CASE ChildExits
  BY <1>7 DEF ChildExits
<1> QED
  BY <1>1, <1>2, <1>3, <1>4, <1>5, <1>6, <1>7 DEF Scanner

LEMMA Sent ==
    ASSUME wire \in Seq(Requests), NEW request \in Requests, Ask(request)
    PROVE  wire' \in Seq(Requests)
  BY AppendProperties DEF Ask

\* Everything an adapter says is a message.
LEMMA MessageTypes ==
    /\ \A of \in Requests, ok \in BOOLEAN : Response(of, ok) \in Messages
    /\ Event("initialized") \in Messages /\ Event("terminated") \in Messages
    /\ \A n \in 0..MaxStops, why \in Reasons : Stopped(n, why) \in Messages
<1>1. 0 \in 0..MaxStops
  BY MaxStopsAssumption
<1> QED
  BY <1>1 DEF Response, Event, Stopped, Messages, Reasons

LEMMA Said ==
    ASSUME stream \in Seq(Messages), NEW m \in Messages, NEW n \in Messages,
           Says(<<m>>) \/ EitherOrder(m, n)
    PROVE  stream' \in Seq(Messages)
<1>1. <<m>> \in Seq(Messages) /\ <<m, n>> \in Seq(Messages) /\ <<n, m>> \in Seq(Messages)
  OBVIOUS
<1> QED
  BY <1>1, ConcatProperties DEF Says, EitherOrder

\* An answer that is taken leaves an inbox of messages.
LEMMA AnswerTaken ==
    ASSUME LinkType, NEW ok, Answered(ok)
    PROVE  inbox' \in Seq(Messages) /\ pc \in Waits
  BY TakeFacts DEF LinkType, Answered

\* The steps of debug.
LEMMA DebugTypeStep ==
    ASSUME TypeInv, DebugStep \/ Cancel
    PROVE  TypeInv'
<1> DEFINE Keeps == /\ pc' \in Waits \union {"spawn", "take", "cleanup", "returned"}
                    /\ active' \in {"launch", "continue"} /\ launchSeen' \in BOOLEAN
                    /\ seen' \in [response : BOOLEAN, stop : [stop : 0..MaxStops, reason : Reasons]]
                    /\ outcome' \in {"none", "error", "terminated", "stopped", "entry"}
                    /\ registered' \in {"debug", "session"}
                    /\ inbox' \in Seq(Messages) /\ wire' \in Seq(Requests)
<1>1. Elsewhere /\ Keeps => TypeInv'
  <2> SUFFICES ASSUME Elsewhere, Keeps PROVE TypeInv'
    OBVIOUS
  <2>1. SpawnTypeInv'
    BY DEF Elsewhere, spawnVars, TypeInv, SpawnTypeInv, SpawnTypeOK, Announcing
  <2>2. CallType' /\ SessionType' /\ LinkType'
    BY DEF Elsewhere, TypeInv, CallType, SessionType, LinkType
  <2>3. AdapterType'
    BY DEF Elsewhere, adapterVars, TypeInv, AdapterType
  <2> QED
    BY <2>1, <2>2, <2>3 DEF TypeInv
<1> DEFINE Rest == UNCHANGED <<active, launchSeen, seen, registered>>
<1>2. ASSUME Elsewhere, Rest,
             pc' \in Waits \union {"take", "cleanup", "returned"},
             outcome' \in {outcome, "error", "terminated", "stopped", "entry"},
             inbox' \in Seq(Messages), wire' \in Seq(Requests)
      PROVE  TypeInv'
  BY <1>1, <1>2 DEF TypeInv, CallType, SessionType
<1>3. LinkType
  BY DEF TypeInv
<1>4. CASE WaitFails \/ Cancel
  BY <1>2, <1>3, <1>4 DEF WaitFails, Cancel, Fail, CleanUpAfter, Goto, LinkType
<1>5. CASE Refused
  BY <1>2, <1>3, <1>5, AnswerTaken DEF Refused, Fail, CleanUpAfter, Goto, LinkType
<1>6. CASE InitializeAnswered
  <2>1. wire' \in Seq(Requests)
    BY <1>3, <1>6, Sent DEF InitializeAnswered, LinkType, Requests
  <2>2. pc' \in {"initialized", "cleanup"} /\ outcome' \in {outcome, "error"}
    BY <1>6 DEF InitializeAnswered, CleanUpAfter, Goto
  <2> QED
    BY <1>2, <1>3, <1>6, <2>1, <2>2, AnswerTaken DEF InitializeAnswered, Waits
<1>7. CASE LaunchAnsweredFirst
  BY <1>1, <1>3, <1>7, AnswerTaken DEF LaunchAnsweredFirst, LinkType, TypeInv, CallType, SessionType
<1> DEFINE Seen == [response : BOOLEAN, stop : [stop : 0..MaxStops, reason : Reasons]]
<1>8. Configured => /\ pc' \in Waits \union {"take"} /\ registered' = "session"
                    /\ seen' \in Seen /\ wire' \in Seq(Requests)
  <2> SUFFICES ASSUME Configured PROVE /\ pc' \in Waits \union {"take"} /\ registered' = "session"
                                       /\ seen' \in Seen /\ wire' \in Seq(Requests)
    OBVIOUS
  <2>1. pc' \in Waits \union {"take"} /\ registered' = "session"
    BY DEF Configured, AfterConfiguration, Goto, Waits
  <2>2. seen' \in Seen
    <3>1. PICK response \in BOOLEAN : seen' = [seen EXCEPT !.response = response]
      BY DEF Configured, TypeInv, CallType
    <3> QED
      BY <3>1 DEF TypeInv, CallType
  <2>3. wire' \in Seq(Requests)
    BY <1>3, Sent DEF Configured, LinkType, Requests
  <2> QED
    BY <2>1, <2>2, <2>3
<1>9. Configure => /\ pc' \in Waits \union {"take"} /\ registered' \in {"debug", "session"}
                   /\ seen' \in Seen /\ wire' \in Seq(Requests)
  <2>1. CASE config.configurationDone
    BY <1>3, <2>1, Sent DEF Configure, Goto, Waits, LinkType, Requests, TypeInv, CallType, SessionType
  <2>2. CASE ~config.configurationDone
    BY <1>8, <2>2 DEF Configure
  <2> QED
    BY <2>1, <2>2
<1>10. ASSUME Elsewhere, UNCHANGED <<active, launchSeen, outcome>>, inbox' \in Seq(Messages),
              Configure \/ Configured
       PROVE  TypeInv'
  BY <1>1, <1>8, <1>9, <1>10 DEF TypeInv, CallType, SessionType
<1>11. CASE InitializedEvent
  <2>1. inbox' \in Seq(Messages)
    BY <1>3, <1>11, TakeFacts DEF InitializedEvent, LinkType
  <2>2. CASE config.breakpoints
    <3>1. Ask("breakpoints") /\ pc' = "breakpoints"
      BY <1>11, <2>2 DEF InitializedEvent, Goto
    <3>2. wire' \in Seq(Requests)
      BY <1>3, <3>1, Sent DEF LinkType, Requests
    <3> QED
      BY <1>2, <1>11, <2>1, <2>2, <3>1, <3>2 DEF InitializedEvent, Waits
  <2>3. CASE ~config.breakpoints
    BY <1>10, <1>11, <2>1, <2>3 DEF InitializedEvent
  <2> QED
    BY <2>2, <2>3
<1>12. CASE BreakpointsSet \/ ConfigurationAnswered
  BY <1>3, <1>10, <1>12, AnswerTaken DEF BreakpointsSet, ConfigurationAnswered
<1>13. Report /\ pc \in Waits => pc' \in Waits /\ wire' \in Seq(Requests)
  BY <1>3, Sent DEF Report, Goto, Waits, LinkType, Requests
<1>14. CASE ResponseTaken
  <2>1. seen' \in Seen
    BY <1>14 DEF ResponseTaken, TypeInv, CallType
  <2> QED
    BY <1>1, <1>3, <1>13, <1>14, <2>1, AnswerTaken DEF ResponseTaken, TypeInv, CallType, SessionType
<1>15. CASE StopTaken
  <2>1. PICK i \in Matching :
          /\ Take("stopped", TRUE, i)
          /\ \/ /\ Ask("continue") /\ active' = "continue" /\ seen' = NothingSeen /\ pc' = pc
             \/ /\ seen' = [seen EXCEPT !.stop = [stop |-> inbox[i].stop, reason |-> inbox[i].reason]]
                /\ Report /\ active' = active
    BY <1>15 DEF StopTaken
  <2>2. inbox' \in Seq(Messages) /\ inbox[i] \in Messages /\ pc \in Waits
    BY <1>3, <2>1, TakeFacts DEF LinkType
  <2>3. seen' \in Seen
    <3>1. NothingSeen \in Seen
      BY MaxStopsAssumption DEF NothingSeen, NoStop, Reasons
    <3>2. inbox[i].stop \in 0..MaxStops /\ inbox[i].reason \in Reasons
      BY <2>2 DEF Messages
    <3> QED
      BY <2>1, <3>1, <3>2 DEF TypeInv, CallType
  <2>4. pc' \in Waits /\ wire' \in Seq(Requests)
    BY <1>3, <1>13, <2>1, <2>2, Sent DEF LinkType, Requests
  <2>5. active' \in {"launch", "continue"}
    BY <2>1 DEF TypeInv, CallType
  <2> QED
    BY <1>1, <1>15, <2>2, <2>3, <2>4, <2>5 DEF StopTaken, TypeInv, CallType, SessionType
<1>16. CASE TerminatedTaken
  BY <1>2, <1>3, <1>16, TakeFacts DEF TerminatedTaken, CleanUpAfter, Goto, LinkType
<1>17. CASE LaunchAnswered
  BY <1>2, <1>3, <1>17, AnswerTaken DEF LaunchAnswered, Goto, LinkType
<1>18. CASE AtEntryStop
  <2>1. inbox' \in Seq(Messages) /\ seen' \in Seen
    <3>1. CASE UNCHANGED <<inbox, seen>>
      BY <1>3, <3>1 DEF LinkType, TypeInv, CallType
    <3>2. CASE ~UNCHANGED <<inbox, seen>>
      <4>1. PICK first \in 1..Len(inbox) :
              /\ inbox' = RemoveAt(inbox, first)
              /\ seen' = [seen EXCEPT !.stop = [stop |-> inbox[first].stop,
                                                reason |-> inbox[first].reason]]
        BY <1>18, <3>2 DEF AtEntryStop, TakeEntryStop
      <4>2. inbox[first] \in Messages /\ inbox' \in Seq(Messages)
        BY <1>3, <4>1, RemoveAtFacts, ElementOfSeq DEF LinkType
      <4>3. inbox[first].stop \in 0..MaxStops /\ inbox[first].reason \in Reasons
        BY <4>2 DEF Messages
      <4> QED
        BY <4>1, <4>2, <4>3 DEF TypeInv, CallType
    <3> QED
      BY <3>1, <3>2
  <2>2. wire' \in Seq(Requests) /\ pc' = "stackTrace"
    BY <1>3, <1>18, Sent DEF AtEntryStop, Goto, LinkType, Requests
  <2> QED
    BY <1>1, <1>18, <2>1, <2>2 DEF AtEntryStop, Waits, TypeInv, CallType, SessionType
<1>19. CASE StackRead
  BY <1>2, <1>3, <1>19, AnswerTaken DEF StackRead, Goto, LinkType
<1>20. CASE SpawnFailed \/ ConnectFails
  BY <1>20 DEF SpawnFailed, ConnectFails, CleanUpAfter, Goto, TypeInv, SpawnTypeInv, SpawnTypeOK,
        Announcing, CallType, SessionType, AdapterType, LinkType, spawnVars, sessionVars,
        loopVars, adapterVars, linkVars
<1>21. CASE Connect
  <2>1. wire' \in Seq(Requests)
    BY <1>3, <1>21, Sent DEF Connect, LinkType, Requests
  <2> QED
    BY <1>21, <2>1 DEF Connect, Goto, Waits, TypeInv, SpawnTypeInv, SpawnTypeOK, Announcing, CallType,
          SessionType, AdapterType, LinkType, spawnVars, adapterVars
<1>22. CASE CleanUp
  <2>1. SpawnTypeInv'
    BY <1>22 DEF CleanUp, EndSession, TypeInv, SpawnTypeInv, SpawnTypeOK, Announcing
  <2>2. CallType' /\ SessionType'
    BY <1>22 DEF CleanUp, EndSession, Goto, TypeInv, CallType, SessionType, loopVars
  <2>3. AdapterType' /\ LinkType'
    BY <1>22 DEF CleanUp, TypeInv, AdapterType, LinkType, loopVars, adapterVars, linkVars
  <2> QED
    BY <2>1, <2>2, <2>3 DEF TypeInv
<1> QED
  BY <1>4, <1>5, <1>6, <1>7, <1>11, <1>12, <1>14, <1>15, <1>16, <1>17, <1>18, <1>19, <1>20, <1>21,
     <1>22 DEF DebugStep

\* The steps of the adapter and its debuggee.
LEMMA ServeTypeStep ==
    ASSUME TypeInv, Serve \/ TargetStops \/ TargetTerminates
    PROVE  TypeInv'
<1> DEFINE Others == UNCHANGED <<spawnVars, config, callVars, sessionVars, loopVars>>
<1>1. ASSUME Others, AdapterType', stream' \in Seq(Messages), wire' \in Seq(Requests)
      PROVE  TypeInv'
  <2>1. SpawnTypeInv'
    BY <1>1 DEF spawnVars, TypeInv, SpawnTypeInv, SpawnTypeOK, Announcing
  <2>2. CallType' /\ SessionType' /\ LinkType'
    BY <1>1 DEF callVars, sessionVars, loopVars, TypeInv, CallType, SessionType, LinkType
  <2> QED
    BY <1>1, <2>1, <2>2 DEF TypeInv
<1>2. \A request : Serves(request) => Others /\ wire' \in Seq(Requests)
  BY HeadTailProperties DEF Serves, TypeInv, LinkType
<1>3. stream \in Seq(Messages) /\ AdapterType
  BY DEF TypeInv, LinkType
<1>4. stops \in Nat /\ 1 \in 0..MaxStops
  BY <1>3, MaxStopsAssumption DEF AdapterType
<1> HIDE DEF Others
<1>5. ASSUME NEW request \in Requests, Refuses(request) PROVE TypeInv'
  BY <1>1, <1>2, <1>3, <1>5, Said, MessageTypes DEF Refuses, AdapterType
<1>6. CASE ServesInitialize
  <2>1. Says(<<Response("initialize", TRUE)>>)
        \/ EitherOrder(Response("initialize", TRUE), Event("initialized"))
    BY <1>6 DEF ServesInitialize, EitherOrder
  <2>2. stream' \in Seq(Messages)
    BY <1>3, <2>1, Said, MessageTypes DEF Requests
  <2> QED
    BY <1>1, <1>2, <1>3, <1>6, <2>2 DEF ServesInitialize, AdapterType, adapterVars
<1>7. CASE ServesLaunch
  <2>1. Response("launch", TRUE) \in Messages /\ Event("initialized") \in Messages
    BY MessageTypes DEF Requests
  <2>2. stream' \in Seq(Messages)
    BY <1>3, <1>7, <2>1, Said DEF ServesLaunch
  <2>3. AdapterType'
    BY <1>3, <1>7 DEF ServesLaunch, AdapterType
  <2> QED
    BY <1>1, <1>2, <1>7, <2>2, <2>3 DEF ServesLaunch
<1>8. CASE ServesBreakpoints
  <2>1. Response("breakpoints", TRUE) \in Messages
    BY MessageTypes DEF Requests
  <2> QED
    BY <1>1, <1>2, <1>3, <1>8, <2>1, Said DEF ServesBreakpoints, AdapterType
<1>9. CASE ServesConfigurationDone
  <2>1. /\ Response("configurationDone", TRUE) \in Messages
        /\ Stopped(1, "entry") \in Messages
        /\ \A ok \in BOOLEAN : Response("launch", ok) \in Messages
    BY <1>4, MessageTypes DEF Requests, Reasons
  <2>2. AdapterType'
    BY <1>3, <1>4, <1>9 DEF ServesConfigurationDone, AdapterType
  <2>3. stream' \in Seq(Messages)
    <3>1. \/ Says(<<Response("configurationDone", TRUE)>>)
          \/ Says(<<Stopped(1, "entry"), Response("configurationDone", TRUE)>>)
          \/ \E ok \in BOOLEAN :
               EitherOrder(Response("configurationDone", TRUE), Response("launch", ok))
      BY <1>9 DEF ServesConfigurationDone
    <3> QED
      BY <1>3, <2>1, <3>1, Said DEF EitherOrder
  <2> QED
    BY <1>1, <1>2, <1>9, <2>2, <2>3 DEF ServesConfigurationDone
<1>10. CASE ServesContinue
  <2>1. \A ok \in BOOLEAN : Response("continue", ok) \in Messages
    BY MessageTypes DEF Requests
  <2> QED
    BY <1>1, <1>2, <1>3, <1>10, <2>1, Said DEF ServesContinue, AdapterType
<1>11. CASE ServesStackTrace
  <2>1. Response("stackTrace", TRUE) \in Messages
    BY MessageTypes DEF Requests
  <2> QED
    BY <1>1, <1>2, <1>3, <1>11, <2>1, Said DEF ServesStackTrace, AdapterType, adapterVars
<1>12. CASE TargetStops
  <2>1. stops' \in 0..MaxStops /\ AdapterType'
    BY <1>3, <1>4, <1>12, MaxStopsAssumption DEF TargetStops, AdapterType
  <2>2. PICK why \in Reasons : Says(<<Stopped(stops', why)>>)
    BY <1>12 DEF TargetStops, FirstReasons, Reasons
  <2>3. stream' \in Seq(Messages)
    BY <1>3, <2>1, <2>2, Said, MessageTypes
  <2> QED
    BY <1>1, <1>12, <2>1, <2>3 DEF TargetStops, Others, TypeInv, LinkType
<1>13. CASE TargetTerminates
  BY <1>1, <1>3, <1>13, Said, MessageTypes DEF TargetTerminates, Others, TypeInv, LinkType, AdapterType
<1> QED
  BY <1>5, <1>6, <1>7, <1>8, <1>9, <1>10, <1>11, <1>12, <1>13 DEF Serve

LEMMA TypeStep == TypeInv /\ [Next]_vars => TypeInv'
<1> SUFFICES ASSUME TypeInv, [Next]_vars PROVE TypeInv'
  OBVIOUS
<1>1. CASE SpawnStep \/ ScanStep \/ ChildStep
  <2>1. SpawnTypeInv'
    BY <1>1, SpawnTypeStep DEF SpawnStep, ScanStep, ChildStep, TypeInv
  <2>2. NoHandshakeStep
    BY <1>1 DEF SpawnStep, ScanStep, ChildStep
  <2> QED
    BY <2>1, <2>2 DEF NoHandshakeStep, TypeInv, CallType, SessionType, AdapterType, LinkType,
          callVars, sessionVars, loopVars, adapterVars, linkVars
<1>2. CASE DebugStep \/ Cancel
  BY <1>2, DebugTypeStep
<1>3. CASE Serve \/ TargetStops \/ TargetTerminates
  BY <1>3, ServeTypeStep
<1>4. CASE Deliver
  <2>1. inbox' \in Seq(Messages) /\ stream' \in Seq(Messages)
    BY <1>4, HeadTailProperties, AppendProperties DEF Deliver, TypeInv, LinkType
  <2>2. SpawnTypeInv' /\ CallType' /\ AdapterType'
    BY <1>4 DEF Deliver, TypeInv, SpawnTypeInv, SpawnTypeOK, Announcing, CallType, AdapterType,
          spawnVars, callVars, adapterVars
  <2> QED
    BY <1>4, <2>1, <2>2 DEF Deliver, TypeInv, SessionType, LinkType, sessionVars
<1>5. CASE ReadFails
  <2>1. SpawnTypeInv' /\ CallType' /\ AdapterType'
    BY <1>5 DEF ReadFails, TypeInv, SpawnTypeInv, SpawnTypeOK, Announcing, CallType, AdapterType,
          spawnVars, callVars, adapterVars
  <2> QED
    BY <1>5, <2>1, EmptySeq DEF ReadFails, TypeInv, SessionType, LinkType, sessionVars
<1>6. CASE ClientEnded
  <2>1. SpawnTypeInv'
    BY <1>6 DEF ClientEnded, EndSession, TypeInv, SpawnTypeInv, SpawnTypeOK, Announcing
  <2>2. SessionType'
    BY <1>6 DEF ClientEnded, EndSession, TypeInv, SessionType, sessionVars
  <2> QED
    BY <1>6, <2>1, <2>2 DEF ClientEnded, TypeInv, CallType, AdapterType, LinkType, callVars, adapterVars,
          linkVars
<1>7. CASE AdapterExits
  <2>1. SpawnTypeInv' /\ AdapterType'
    BY <1>7 DEF AdapterExits, TypeInv, SpawnTypeInv, SpawnTypeOK, Announcing, AdapterType
  <2> QED
    BY <1>7, <2>1, EmptySeq DEF AdapterExits, TypeInv, CallType, SessionType, LinkType, callVars,
          sessionVars, loopVars
<1>8. CASE UNCHANGED vars
  BY <1>8 DEF vars, TypeInv, SpawnTypeInv, SpawnTypeOK, Announcing, CallType, SessionType,
        AdapterType, LinkType, spawnVars, callVars, sessionVars, loopVars, adapterVars, linkVars
<1> QED
  BY <1>1, <1>2, <1>3, <1>4, <1>5, <1>6, <1>7, <1>8 DEF Next, LoopStep

\* The types; among them, that startDelve never succeeds with a scanner that still looks
\* for the announcement (backend.go:84-118).
THEOREM TypeCorrect == Spec => []TypeOK
<1>1. TypeInv => TypeOK
  BY DEF TypeInv, SpawnTypeInv, TypeOK
<1> QED
  BY <1>1, TypeInit, TypeStep, PTL DEF Spec

------------------------------------------------------------------------------
(* What is under way: at most one of each kind.                             *)

\* s holds no member of M; s holds at most one.
Free(s, M) == \A i \in 1..Len(s) : s[i] \notin M
Once(s, M) == \A i, j \in 1..Len(s) : s[i] \in M /\ s[j] \in M => i = j

\* The same of all messages nobody has taken.
NoneComes(M) == Free(inbox, M) /\ Free(stream, M)
OneComes(M) == Once(inbox, M) /\ Once(stream, M) /\ (Free(inbox, M) \/ Free(stream, M))

StopMessages == {m \in Messages : m.type = "stopped"}
Initialized == {m \in Messages : m.type = "initialized"}
Done == {m \in Messages : m.type = "response" /\ m.of = "configurationDone" /\ m.ok}

\* Stops come before the answer to the configuration.
StopFirst(s) == \A i, j \in 1..Len(s) : s[i] \in StopMessages /\ s[j] \in Done => i < j

\* Queues: what is added, taken from the head, or taken out.
LEMMA Adding ==
    ASSUME NEW S, NEW s \in Seq(S), NEW m \in S, NEW M
    PROVE  /\ Append(s, m) \in Seq(S)
           /\ Free(s, M) /\ m \notin M => Free(Append(s, m), M)
           /\ Once(s, M) /\ (m \notin M \/ Free(s, M)) => Once(Append(s, m), M)
           /\ ~Free(Append(s, m), M) => ~Free(s, M) \/ m \in M
<1>1. /\ Append(s, m) \in Seq(S) /\ Len(s) \in Nat /\ Len(Append(s, m)) = Len(s) + 1
      /\ \A i \in 1..Len(s) : Append(s, m)[i] = s[i]
      /\ Append(s, m)[Len(s) + 1] = m
  BY AppendProperties, LenProperties
<1>2. \A i : i \in 1..Len(s) + 1 <=> i \in 1..Len(s) \/ i = Len(s) + 1
  BY <1>1
<1> QED
  BY <1>1, <1>2 DEF Free, Once

LEMMA Passing ==
    ASSUME NEW S, NEW s \in Seq(S), s # <<>>, NEW M
    PROVE  /\ Tail(s) \in Seq(S) /\ Head(s) \in S /\ Head(s) = s[1]
           /\ Free(s, M) => Free(Tail(s), M) /\ Head(s) \notin M
           /\ Once(s, M) => Once(Tail(s), M)
           /\ Once(s, M) /\ Head(s) \in M => Free(Tail(s), M)
<1>1. /\ Tail(s) \in Seq(S) /\ Head(s) \in S /\ Head(s) = s[1] /\ Len(s) \in Nat
      /\ Len(Tail(s)) = Len(s) - 1 /\ 1 \in 1..Len(s)
      /\ \A i \in 1..Len(Tail(s)) : Tail(s)[i] = s[i + 1] /\ i + 1 \in 1..Len(s) /\ i + 1 # 1
  BY HeadTailProperties, LenProperties, EmptySeq
<1>2. \A i, j \in 1..Len(Tail(s)) : i + 1 = j + 1 => i = j
  BY <1>1
<1> QED
  BY <1>1, <1>2 DEF Free, Once

LEMMA TakingOut ==
    ASSUME NEW S, NEW s \in Seq(S), NEW k \in 1..Len(s), NEW M
    PROVE  /\ Free(s, M) => Free(RemoveAt(s, k), M)
           /\ Once(s, M) => Once(RemoveAt(s, k), M)
           /\ Once(s, M) /\ s[k] \in M => Free(RemoveAt(s, k), M)
<1>1. /\ Len(s) \in Nat /\ Len(RemoveAt(s, k)) = Len(s) - 1
      /\ \A j \in 1..(Len(s) - 1) : RemoveAt(s, k)[j] = s[IF j < k THEN j ELSE j + 1]
  BY RemoveAtFacts, LenProperties
<1> DEFINE at(j) == IF j < k THEN j ELSE j + 1
<1>2. /\ \A j \in 1..(Len(s) - 1) : at(j) \in 1..Len(s) /\ at(j) # k
      /\ \A i, j \in 1..(Len(s) - 1) : at(i) = at(j) => i = j
  BY <1>1
<1>3. \A j \in 1..Len(RemoveAt(s, k)) : RemoveAt(s, k)[j] = s[at(j)]
  BY <1>1
<1> HIDE DEF at
<1> QED
  BY <1>1, <1>2, <1>3 DEF Free, Once

\* Two messages are said one after the other.
LEMMA Saying ==
    ASSUME stream \in Seq(Messages), NEW m \in Messages
    PROVE  /\ Says(<<m>>) => stream' = Append(stream, m)
           /\ \A n \in Messages :
                Says(<<m, n>>) => stream' = Append(Append(stream, m), n)
<1>1. stream \o <<m>> = Append(stream, m)
  BY AppendIsConcat
<1>2. ASSUME NEW n \in Messages PROVE stream \o <<m, n>> = Append(Append(stream, m), n)
  <2>1. Append(stream, m) \in Seq(Messages)
    BY AppendProperties
  <2>2. Append(Append(stream, m), n) = (stream \o <<m>>) \o <<n>>
    BY <1>1, <2>1, AppendIsConcat
  <2>3. <<m>> \in Seq(Messages) /\ <<n>> \in Seq(Messages) /\ <<m>> \o <<n>> = <<m, n>>
    <3>1. <<m>> \in Seq(Messages) /\ <<n>> \in Seq(Messages)
      OBVIOUS
    <3>2. Append(<<m>>, n) = <<m, n>>
      <4>1. /\ Append(<<m>>, n) \in Seq(Messages) /\ Len(Append(<<m>>, n)) = Len(<<m>>) + 1
            /\ Append(<<m>>, n)[1] = <<m>>[1] /\ Append(<<m>>, n)[Len(<<m>>) + 1] = n
        BY <3>1, AppendProperties
      <4>2. Len(<<m>>) = 1 /\ <<m>>[1] = m
        OBVIOUS
      <4>3. /\ Len(<<m, n>>) = 2 /\ <<m, n>>[1] = m /\ <<m, n>>[2] = n
            /\ <<m, n>> \in Seq(Messages)
        OBVIOUS
      <4>4. /\ Append(<<m>>, n) \in Seq(Messages) /\ Len(Append(<<m>>, n)) = 2
            /\ Append(<<m>>, n)[1] = m /\ Append(<<m>>, n)[2] = n
        BY <4>1, <4>2
      <4>5. \A i \in 1..2 : i = 1 \/ i = 2
        OBVIOUS
      <4> QED
        BY <4>3, <4>4, <4>5, SeqEqual
    <3> QED
      BY <3>1, <3>2, AppendIsConcat
  <2> QED
    BY <2>2, <2>3, ConcatAssociative
<1> QED
  BY <1>1, <1>2 DEF Says

------------------------------------------------------------------------------
(* The stop that is reported.                                               *)

\* debug was called to reach its breakpoints.
ToBreakpoint == ~StopAtEntry /\ config.mode # "core"

\* The request that starts the program, and where it is not yet asked.
Starter == IF LaunchAfterConfiguration THEN "launch" ELSE "configurationDone"
Unstarted == {"spawn", "initialize", "initialized", "breakpoints"} \union
             (IF LaunchAfterConfiguration THEN {"configure"} ELSE {})

\* The program is started once.
StartedOnce ==
    /\ Once(wire, {Starter})
    /\ pc \in Unstarted => Free(wire, {Starter}) /\ target = "none"
    /\ ~Free(wire, {Starter}) => target = "none"
    /\ target = "none" => stops = 0
    /\ config.configurationDone \/ LaunchAfterConfiguration

\* A program runs only when its launch was accepted.
LaunchedFirst ==
    /\ target # "none" => launch = "accepted"
    /\ Once(wire, {"launch"})
    /\ ~Free(wire, {"launch"}) => launch = "no"
    /\ pc \in {"spawn", "initialize"} => Free(wire, {"launch"}) /\ launch = "no"
    /\ LaunchAfterConfiguration /\ pc \in Unstarted => Free(wire, {"launch"}) /\ launch = "no"
    /\ config.adapter = "delve" /\ (\/ ~NoneComes(Initialized) \/ ~Free(wire, {"configurationDone"})
                                    \/ pc \in {"breakpoints", "configure"})
         => launch = "accepted"

\* The stop the program is in is under way, or taken, or passed over with a continue.
OneStop ==
    /\ OneComes(StopMessages)
    /\ Once(wire, {"continue"})
    /\ ~NoneComes(StopMessages) =>
         seen.stop = NoStop /\ Free(wire, {"continue"}) /\ target \in {"stopped", "ended"}
    /\ seen.stop # NoStop =>
         Free(wire, {"continue"}) /\ target \in {"stopped", "ended"} /\ seen.stop.stop = stops
    /\ ~Free(wire, {"continue"}) => target \in {"stopped", "ended"}

\* It is the latest one, and has a reason.
Latest ==
    NoneComes({m \in StopMessages : \/ m.stop # stops
                                    \/ ToBreakpoint /\ m.reason \notin {"entry", "breakpoint", "attach"}
                                    \/ m.reason = "attach" /\ config.mode # "attach"})

\* What debug goes on with.
Reported ==
    /\ pc \in {"launch", "take"} => EntryPath
    /\ ToBreakpoint => pc # "execution" /\ (seen.stop # NoStop => seen.stop.reason = "breakpoint")
    /\ outcome = "stopped" \/ (pc = "stackTrace" /\ ~EntryPath) => seen.stop # NoStop
    /\ outcome # "none" => pc \in {"cleanup", "returned"}
    /\ outcome = "entry" => EntryPath

\* Delve's entry stop comes before the answer to the configuration.
EntryStop ==
    EntryPath =>
        /\ target # "running" /\ pc \notin {"first", "execution"} /\ Free(wire, {"continue"})
        /\ OneComes(Done) /\ (~NoneComes(Done) => Free(wire, {"configurationDone"}))
        /\ Once(wire, {"configurationDone"})
        /\ pc \in Unstarted => NoneComes(Done)
        /\ StopFirst(stream)
        /\ ~Free(inbox, Done) => Free(stream, StopMessages)
        /\ pc \in {"launch", "take", "stackTrace"} \/ outcome = "entry" =>
             Free(wire, {"configurationDone"}) /\ NoneComes(Done) /\ Free(stream, StopMessages)
        /\ pc = "stackTrace" \/ outcome = "entry" => NoneComes(StopMessages)

StopInv == StartedOnce /\ LaunchedFirst /\ OneStop /\ Latest /\ Reported /\ EntryStop
LEMMA StopInit == Init => StopInv
<1> SUFFICES ASSUME Init PROVE StopInv
  OBVIOUS
<1>1. \A M : Free(<<>>, M) /\ Once(<<>>, M)
  BY DEF Free, Once
<1>2. \A i : i \notin 1..Len(<<>>)
  OBVIOUS
<1>3. StartedOnce /\ LaunchedFirst /\ OneStop /\ Latest /\ Reported
  BY <1>1 DEF Init, StartedOnce, LaunchedFirst, OneStop, Latest, Reported, NoneComes, OneComes,
        NothingSeen, LaunchAfterConfiguration
<1>4. EntryStop
  BY <1>1, <1>2 DEF Init, EntryStop, NoneComes, OneComes, StopFirst
<1> QED
  BY <1>3, <1>4 DEF StopInv

\* What debug was called with decides these.
LEMMA CalledWith ==
    ASSUME config' = config
    PROVE  /\ StopAtEntry' = StopAtEntry /\ EntryPath' = EntryPath /\ ToBreakpoint' = ToBreakpoint
           /\ IsGDB' = IsGDB /\ LaunchAfterConfiguration' = LaunchAfterConfiguration
           /\ Starter' = Starter /\ Unstarted' = Unstarted
  BY DEF StopAtEntry, EntryPath, ToBreakpoint, IsGDB, LaunchAfterConfiguration, Starter, Unstarted

\* A stop that is the latest one stays so.
LEMMA StillLatest ==
    ASSUME Latest, UNCHANGED <<config, stops>>,
           \A M : M \in SUBSET StopMessages /\ NoneComes(M) => Free(inbox', M) /\ Free(stream', M)
    PROVE  Latest'
<1> DEFINE L == {m \in StopMessages : \/ m.stop # stops
                                      \/ ToBreakpoint /\ m.reason \notin {"entry", "breakpoint", "attach"}
                                      \/ m.reason = "attach" /\ config.mode # "attach"}
<1>1. L' = L /\ L \in SUBSET StopMessages
  BY CalledWith
<1>2. NoneComes(L)
  BY DEF Latest
<1> HIDE DEF L
<1>3. Free(inbox', L) /\ Free(stream', L)
  BY <1>1, <1>2
<1>4. NoneComes(L)'
  BY <1>1, <1>3 DEF NoneComes
<1> QED
  BY <1>4 DEF L, Latest

\* A message that was taken, and those that were not.
LEMMA TakenOut ==
    ASSUME LinkType, NEW type, NEW ok, NEW i, Take(type, ok, i)
    PROVE  /\ inbox[i] \in Messages /\ pc \in Waits /\ Wanted(inbox[i])
           /\ inbox[i].type = type /\ inbox[i].ok = ok
           /\ \A M : /\ Free(inbox, M) => Free(inbox', M) /\ inbox[i] \notin M
                     /\ Once(inbox, M) => Once(inbox', M)
                     /\ Once(inbox, M) /\ inbox[i] \in M => Free(inbox', M)
<1>1. i \in 1..Len(inbox) /\ inbox' = RemoveAt(inbox, i)
  BY DEF Take, Matching
<1>2. \A M : Free(inbox, M) => inbox[i] \notin M
  BY <1>1 DEF Free
<1> QED
  BY <1>1, <1>2, TakeFacts, TakingOut DEF LinkType

\* What a step of debug leaves in the inbox.
FewerIn == \A M : (Free(inbox, M) => Free(inbox', M)) /\ (Once(inbox, M) => Once(inbox', M))

\* The requests that set the program off are asked and served elsewhere.
SameStarts ==
    \A r \in {"launch", "configurationDone", "continue"} :
        (Free(wire, {r}) <=> Free(wire', {r})) /\ (Once(wire, {r}) => Once(wire', {r}))

LEMMA AskFacts ==
    ASSUME TypeInv, NEW r \in Requests, Ask(r)
    PROVE  /\ \A q : q # r => /\ Free(wire, {q}) <=> Free(wire', {q})
                              /\ Once(wire, {q}) => Once(wire', {q})
           /\ Free(wire, {r}) => Once(wire', {r})
<1>1. wire' = Append(wire, r) /\ wire \in Seq(Requests)
  BY DEF Ask, TypeInv, LinkType
<1>2. \A q : q # r => r \notin {q}
  OBVIOUS
<1>3. \A M : ~Free(wire, M) => ~Free(Append(wire, r), M)
  <2>1. /\ Len(wire) \in Nat /\ Len(Append(wire, r)) = Len(wire) + 1
        /\ \A i \in 1..Len(wire) : Append(wire, r)[i] = wire[i]
    BY <1>1, AppendProperties, LenProperties
  <2>2. \A i \in 1..Len(wire) : i \in 1..(Len(wire) + 1)
    BY <2>1
  <2> QED
    BY <2>1, <2>2 DEF Free
<1>4. ASSUME NEW M
      PROVE  /\ Free(wire, M) /\ r \notin M => Free(wire', M)
             /\ Once(wire, M) /\ r \notin M => Once(wire', M)
             /\ Once(wire, M) /\ Free(wire, M) => Once(wire', M)
  BY <1>1, Adding
<1>5. Free(wire, {r}) => Once(wire, {r})
  BY DEF Free, Once
<1>6. ASSUME NEW q, q # r
      PROVE  (Free(wire, {q}) <=> Free(wire', {q})) /\ (Once(wire, {q}) => Once(wire', {q}))
  <2>1. r \notin {q} /\ wire' = Append(wire, r)
    BY <1>1, <1>6
  <2>2. ~Free(wire, {q}) => ~Free(wire', {q})
    BY <1>3, <2>1
  <2>3. (Free(wire, {q}) => Free(wire', {q})) /\ (Once(wire, {q}) => Once(wire', {q}))
    BY <1>4, <2>1
  <2> QED
    BY <2>2, <2>3
<1>7. Free(wire, {r}) => Once(wire', {r})
  BY <1>4, <1>5
<1> QED
  BY <1>6, <1>7

LEMMA HarmlessRequest ==
    ASSUME TypeInv, wire' = wire \/ \E r \in {"initialize", "breakpoints", "stackTrace"} : Ask(r)
    PROVE  SameStarts
<1>1. CASE wire' = wire
  BY <1>1 DEF SameStarts
<1>2. ASSUME NEW r \in {"initialize", "breakpoints", "stackTrace"}, Ask(r) PROVE SameStarts
  BY <1>2, AskFacts DEF SameStarts, Requests
<1> QED
  BY <1>1, <1>2

\* A step of debug that starts nothing and takes no stop.
LEMMA DebugMove ==
    ASSUME StopInv, UNCHANGED <<config, adapterVars, stream>>, FewerIn, SameStarts,
           seen'.stop = seen.stop,
           pc' \in Unstarted => pc \in Unstarted,
           pc' \in {"spawn", "initialize"} => pc \in {"spawn", "initialize"},
           config.adapter = "delve" /\ pc' \in {"breakpoints", "configure"} => launch = "accepted",
           pc' \in {"launch", "take"} => EntryPath,
           pc' = "execution" => ~ToBreakpoint,
           EntryPath => pc' \notin {"first", "execution"},
           outcome' = "stopped" \/ (pc' = "stackTrace" /\ ~EntryPath) => seen.stop # NoStop,
           outcome' # "none" => pc' \in {"cleanup", "returned"},
           outcome' = "entry" => EntryPath,
           EntryPath /\ (pc' \in {"launch", "take", "stackTrace"} \/ outcome' = "entry") =>
             Free(wire', {"configurationDone"}) /\ NoneComes(Done)' /\ Free(stream, StopMessages),
           EntryPath /\ (pc' = "stackTrace" \/ outcome' = "entry") => NoneComes(StopMessages)'
    PROVE  StopInv'
<1>1. /\ EntryPath' = EntryPath /\ ToBreakpoint' = ToBreakpoint /\ Starter' = Starter
      /\ Unstarted' = Unstarted /\ LaunchAfterConfiguration' = LaunchAfterConfiguration
  BY CalledWith
<1>2. UNCHANGED <<launch, placed, target, stops>>
  BY DEF adapterVars
<1>3. Starter \in {"launch", "configurationDone"}
  BY DEF Starter
<1>4. \A M : /\ NoneComes(M) => Free(inbox', M) /\ Free(stream', M)
             /\ OneComes(M) => /\ Once(inbox', M) /\ Once(stream', M)
                               /\ Free(inbox', M) \/ Free(stream', M)
  BY DEF FewerIn, NoneComes, OneComes
<1>5. StartedOnce'
  BY <1>1, <1>2, <1>3 DEF StopInv, StartedOnce, SameStarts
<1>6. LaunchedFirst'
  BY <1>1, <1>2, <1>4 DEF StopInv, LaunchedFirst, SameStarts, NoneComes
<1>7. OneStop'
  BY <1>2, <1>4 DEF StopInv, OneStop, SameStarts, NoneComes, OneComes
<1>8. Latest'
  BY <1>2, <1>4, StillLatest DEF StopInv
<1>9. Reported'
  BY <1>1 DEF StopInv, Reported
<1>10. EntryStop'
  BY <1>1, <1>2, <1>4 DEF StopInv, EntryStop, SameStarts, FewerIn, NoneComes, OneComes
<1> QED
  BY <1>5, <1>6, <1>7, <1>8, <1>9, <1>10 DEF StopInv

LEMMA AnswerOut ==
    ASSUME TypeInv, NEW ok, Answered(ok)
    PROVE  /\ FewerIn /\ pc \in Waits
           /\ \E m \in Messages :
                /\ m.type = "response" /\ m.of = Awaited /\ m.ok = ok
                /\ \A M : /\ Free(inbox, M) => m \notin M
                          /\ Once(inbox, M) /\ m \in M => Free(inbox', M)
<1>1. PICK i \in 1..Len(inbox) : Take("response", ok, i)
  BY DEF Answered
<1>2. /\ inbox[i] \in Messages /\ pc \in Waits /\ Wanted(inbox[i])
      /\ inbox[i].type = "response" /\ inbox[i].ok = ok
      /\ \A M : /\ Free(inbox, M) => Free(inbox', M) /\ inbox[i] \notin M
                /\ Once(inbox, M) => Once(inbox', M)
                /\ Once(inbox, M) /\ inbox[i] \in M => Free(inbox', M)
  BY <1>1, TakenOut DEF TypeInv
<1>3. inbox[i].of = Awaited
  BY <1>2 DEF Wanted
<1>4. FewerIn
  BY <1>2 DEF FewerIn
<1> QED
  BY <1>2, <1>3, <1>4

\* A step of debug that does not wait any more.
LEMMA DebugEnds ==
    ASSUME StopInv, TypeInv, UNCHANGED <<config, adapterVars, stream, wire>>, FewerIn,
           seen'.stop = seen.stop, pc' \in {"cleanup", "returned"},
           \/ outcome' \in {"error", "terminated"}
           \/ outcome' = outcome /\ pc = "cleanup"
           \/ outcome' = "entry" /\ pc = "stackTrace" /\ EntryPath
           \/ outcome' = "stopped" /\ pc = "stackTrace" /\ ~EntryPath
    PROVE  StopInv'
<1>1. SameStarts
  BY HarmlessRequest
<1>2. /\ pc' \notin {"spawn", "initialize", "breakpoints", "configure", "launch", "take",
                     "execution", "first", "stackTrace"} \union Unstarted
  BY DEF Unstarted
<1>3. (outcome' = "stopped" => seen.stop # NoStop) /\ (outcome' = "entry" => EntryPath)
  BY DEF StopInv, Reported
<1>4. EntryPath /\ outcome' = "entry" =>
        /\ Free(wire', {"configurationDone"}) /\ NoneComes(Done)' /\ Free(stream, StopMessages)
        /\ NoneComes(StopMessages)'
  BY DEF StopInv, EntryStop, FewerIn, NoneComes
<1> QED
  BY <1>1, <1>2, <1>3, <1>4, DebugMove

\* No step: the queues, the adapter and what debug has seen stay.
LEMMA NothingMoves ==
    ASSUME StopInv, TypeInv, UNCHANGED <<config, adapterVars, stream, wire, inbox, pc, seen, outcome>>
    PROVE  StopInv'
<1>1. SameStarts /\ FewerIn
  BY HarmlessRequest DEF FewerIn
<1> QED
  BY <1>1, DebugMove DEF StopInv, StartedOnce, LaunchedFirst, Reported, EntryStop, NoneComes

LEMMA EndSteps ==
    ASSUME StopInv, TypeInv,
           \/ SpawnFailed \/ ConnectFails \/ WaitFails \/ Cancel \/ Refused
           \/ TerminatedTaken \/ StackRead \/ CleanUp
    PROVE  StopInv'
<1>1. UNCHANGED <<config, adapterVars, stream, wire>> /\ seen' = seen
  BY DEF SpawnFailed, ConnectFails, WaitFails, Cancel, Refused, TerminatedTaken, StackRead, CleanUp,
        Elsewhere, linkVars
<1>2. FewerIn
  <2>1. CASE inbox' = inbox
    BY <2>1 DEF FewerIn
  <2>2. CASE Refused \/ StackRead
    BY <2>2, AnswerOut DEF Refused, StackRead
  <2>3. CASE TerminatedTaken
    BY <2>3, TakenOut DEF TerminatedTaken, FewerIn, TypeInv
  <2> QED
    BY <2>1, <2>2, <2>3 DEF SpawnFailed, ConnectFails, WaitFails, Cancel, CleanUp, loopVars
<1>3. pc' \in {"cleanup", "returned"}
  BY DEF SpawnFailed, ConnectFails, WaitFails, Cancel, Refused, TerminatedTaken, StackRead, CleanUp,
        Fail, CleanUpAfter, Goto
<1>4. \/ outcome' \in {"error", "terminated"}
      \/ outcome' = outcome /\ pc = "cleanup"
      \/ outcome' = "entry" /\ pc = "stackTrace" /\ EntryPath
      \/ outcome' = "stopped" /\ pc = "stackTrace" /\ ~EntryPath
  BY DEF SpawnFailed, ConnectFails, WaitFails, Cancel, Refused, TerminatedTaken, StackRead, CleanUp,
        Fail, CleanUpAfter
<1> QED
  BY <1>1, <1>2, <1>3, <1>4, DebugEnds


------------------------------------------------------------------------------
(* The steps of debug that go on.                                           *)

\* A step that goes on with what debug has asked and seen.
LEMMA GoesOn ==
    ASSUME StopInv, UNCHANGED <<config, adapterVars, stream, outcome>>, FewerIn, SameStarts,
           seen'.stop = seen.stop, pc \notin {"cleanup", "returned"},
           pc' \in Unstarted => pc \in Unstarted,
           pc' # "spawn", pc' = "initialize" => pc = "spawn",
           config.adapter = "delve" /\ pc' \in {"breakpoints", "configure"} => launch = "accepted",
           pc' \in {"launch", "take"} => EntryPath,
           pc' = "execution" => ~ToBreakpoint,
           EntryPath => pc' \notin {"first", "execution", "stackTrace"},
           pc' = "stackTrace" => seen.stop # NoStop,
           EntryPath /\ pc' \in {"launch", "take"} =>
             Free(wire', {"configurationDone"}) /\ NoneComes(Done)' /\ Free(stream, StopMessages)
    PROVE  StopInv'
<1>1. outcome = "none"
  BY DEF StopInv, Reported
<1> QED
  BY <1>1, DebugMove

\* A step that asks for the launch or the configuration.
LEMMA StartMove ==
    ASSUME StopInv, TypeInv, UNCHANGED <<config, adapterVars, stream, outcome>>, FewerIn,
           seen'.stop = seen.stop,
           NEW r \in {"launch", "configurationDone"}, Ask(r), pc \in Unstarted,
           r \in {"launch", Starter} => Free(wire, {r}),
           pc' \notin {"spawn", "initialize", "stackTrace"},
           r = "launch" => launch = "no",
           r = Starter => pc' \notin Unstarted,
           config.adapter = "delve" /\ (r = "configurationDone" \/ pc' \in {"breakpoints", "configure"})
             => launch = "accepted",
           pc' \in {"launch", "take"} => EntryPath,
           pc' = "execution" => ~ToBreakpoint,
           EntryPath => pc' \notin {"first", "execution", "launch", "take"}
    PROVE  StopInv'
<1>1. /\ EntryPath' = EntryPath /\ ToBreakpoint' = ToBreakpoint /\ Starter' = Starter
      /\ Unstarted' = Unstarted /\ LaunchAfterConfiguration' = LaunchAfterConfiguration
  BY CalledWith
<1>2. UNCHANGED <<launch, placed, target, stops>>
  BY DEF adapterVars
<1>3. Starter \in {"launch", "configurationDone"}
  BY DEF Starter
<1>4. \A M : /\ NoneComes(M) => Free(inbox', M) /\ Free(stream', M)
             /\ OneComes(M) => /\ Once(inbox', M) /\ Once(stream', M)
                               /\ Free(inbox', M) \/ Free(stream', M)
  BY DEF FewerIn, NoneComes, OneComes
<1>5. /\ \A q : q # r => /\ Free(wire, {q}) <=> Free(wire', {q})
                         /\ Once(wire, {q}) => Once(wire', {q})
      /\ r \in {"launch", Starter} => Once(wire', {r})
  BY AskFacts DEF Requests
<1>6. target = "none" /\ outcome = "none" /\ pc \notin {"cleanup", "returned"}
  BY DEF StopInv, StartedOnce, Reported, Unstarted
<1>7. Free(wire', {"continue"}) <=> Free(wire, {"continue"})
  BY <1>5
<1>8. StartedOnce'
  BY <1>1, <1>2, <1>3, <1>5, <1>6 DEF StopInv, StartedOnce
<1>9. LaunchedFirst'
  <2>1. Once(wire', {"launch"}) /\ (~Free(wire', {"launch"}) => launch = "no")
    BY <1>5 DEF StopInv, LaunchedFirst
  <2>2. LaunchAfterConfiguration /\ pc' \in Unstarted => Free(wire', {"launch"}) /\ launch = "no"
    BY <1>5 DEF StopInv, LaunchedFirst, Starter
  <2>3. config.adapter = "delve" /\ (\/ ~NoneComes(Initialized)'
                                     \/ ~Free(wire', {"configurationDone"})
                                     \/ pc' \in {"breakpoints", "configure"})
          => launch = "accepted"
    BY <1>4, <1>5 DEF StopInv, LaunchedFirst, NoneComes
  <2> QED
    BY <1>1, <1>2, <1>6, <2>1, <2>2, <2>3 DEF LaunchedFirst
<1>10. OneStop'
  BY <1>2, <1>4, <1>5, <1>7 DEF StopInv, OneStop, NoneComes, OneComes
<1>11. Latest'
  BY <1>2, <1>4, StillLatest DEF StopInv
<1>12. Reported'
  BY <1>1, <1>6 DEF StopInv, Reported
<1>13. EntryStop'
  <2>1. SUFFICES ASSUME EntryPath PROVE EntryStop'
    BY <1>1 DEF EntryStop
  <2>2. NoneComes(Done) /\ Once(wire', {"configurationDone"})
    <3>1. Starter = "configurationDone"
      BY <2>1 DEF Starter, EntryPath, IsGDB, LaunchAfterConfiguration
    <3> QED
      BY <1>5, <2>1, <3>1 DEF StopInv, EntryStop
  <2>3. NoneComes(Done)' /\ OneComes(Done)'
    BY <1>4, <2>2 DEF NoneComes, OneComes, Free, Once
  <2> QED
    BY <1>1, <1>2, <1>6, <1>7, <2>1, <2>2, <2>3 DEF StopInv, EntryStop, NoneComes
<1> QED
  BY <1>8, <1>9, <1>10, <1>11, <1>12, <1>13 DEF StopInv

\* After the configuration, without a launch to send.
LEMMA AfterFacts ==
    /\ AfterConfiguration \in {"take", "launch", "first", "execution"}
    /\ AfterConfiguration \in {"take", "launch"} <=> EntryPath
    /\ AfterConfiguration = "execution" => ~ToBreakpoint
  BY DEF AfterConfiguration, EntryPath, ToBreakpoint, StopAtEntry

\* Before the program is asked for, the configuration goes on.
LEMMA ConfigureMove ==
    ASSUME StopInv, TypeInv, UNCHANGED <<config, adapterVars, stream, outcome>>, FewerIn,
           pc \in Unstarted, pc \in {"initialized", "breakpoints"},
           config.adapter = "delve" => launch = "accepted",
           Configure
    PROVE  StopInv'
<1>1. seen'.stop = seen.stop
  BY DEF Configure, Configured, TypeInv, CallType
<1>2. LaunchAfterConfiguration <=> Starter = "launch"
  BY DEF Starter
<1>3. LaunchAfterConfiguration => ~EntryPath /\ config.adapter # "delve"
  BY DEF LaunchAfterConfiguration, EntryPath, IsGDB
<1>4. CASE config.configurationDone /\ LaunchAfterConfiguration
  <2>1. Ask("configurationDone") /\ pc' = "configure"
    BY <1>4 DEF Configure, Goto
  <2>2. Starter = "launch"
    BY <1>4 DEF Starter
  <2> QED
    BY <1>1, <1>3, <1>4, <2>1, <2>2, StartMove
<1>5. CASE config.configurationDone /\ ~LaunchAfterConfiguration
  <2>1. Ask("configurationDone") /\ pc' = "configure"
    BY <1>5 DEF Configure, Goto
  <2>2. Starter = "configurationDone" /\ Free(wire, {"configurationDone"})
    BY <1>5 DEF Starter, StopInv, StartedOnce
  <2>3. pc' \notin Unstarted
    BY <1>5, <2>1 DEF Unstarted
  <2> QED
    BY <1>1, <2>1, <2>2, <2>3, StartMove
<1>6. CASE ~config.configurationDone
  <2>1. LaunchAfterConfiguration
    BY <1>6 DEF StopInv, StartedOnce
  <2>2. Ask("launch") /\ pc' = AfterConfiguration
    BY <1>6, <2>1 DEF Configure, Configured, Goto
  <2>3. Free(wire, {"launch"}) /\ launch = "no"
    BY <2>1 DEF StopInv, LaunchedFirst
  <2>4. pc' \in {"first", "execution"} /\ pc' \notin Unstarted
    BY <1>3, <2>1, <2>2, AfterFacts DEF Unstarted
  <2> QED
    BY <1>1, <1>3, <2>1, <2>2, <2>3, <2>4, AfterFacts, StartMove
<1> QED
  BY <1>4, <1>5, <1>6

LEMMA HandshakeSteps ==
    ASSUME StopInv, TypeInv,
           \/ Connect \/ InitializeAnswered \/ LaunchAnsweredFirst \/ InitializedEvent
           \/ BreakpointsSet \/ ConfigurationAnswered
    PROVE  StopInv'
<1>1. Elsewhere => UNCHANGED <<config, adapterVars, stream>>
  BY DEF Elsewhere
<1>2. \A ok : Answered(ok) => FewerIn
  BY AnswerOut
<1>3. inbox' = inbox => FewerIn
  BY DEF FewerIn
<1>4. CASE Connect
  <2>1. SameStarts /\ FewerIn
    BY <1>3, <1>4, HarmlessRequest DEF Connect
  <2> QED
    BY <1>4, <2>1, GoesOn DEF Connect, Goto, Unstarted
<1>5. CASE InitializeAnswered
  <2>1. /\ pc = "initialize" /\ pc \in Unstarted /\ FewerIn /\ seen' = seen
        /\ UNCHANGED <<config, adapterVars, stream>>
    BY <1>1, <1>2, <1>5 DEF InitializeAnswered, Unstarted
  <2>2. Free(wire, {"launch"}) /\ launch = "no"
    BY <2>1 DEF StopInv, LaunchedFirst
  <2>3. CASE pc' = "cleanup" /\ outcome' = "error" /\ wire' = wire
    BY <2>1, <2>3, DebugEnds
  <2>4. CASE pc' = "initialized" /\ UNCHANGED <<outcome, wire>>
    <3>1. SameStarts
      BY <2>4, HarmlessRequest
    <3> QED
      BY <2>1, <2>4, <3>1, GoesOn
  <2>5. CASE pc' = "initialized" /\ Ask("launch") /\ outcome' = outcome /\ ~LaunchAfterConfiguration
    <3>1. Starter # "launch"
      BY <2>5 DEF Starter
    <3> QED
      BY <2>1, <2>2, <2>5, <3>1, StartMove
  <2> QED
    BY <1>5, <2>3, <2>4, <2>5 DEF InitializeAnswered, CleanUpAfter, Goto
<1>6. CASE LaunchAnsweredFirst
  <2>1. SameStarts
    BY <1>6, HarmlessRequest DEF LaunchAnsweredFirst
  <2> QED
    BY <1>1, <1>2, <1>6, <2>1, GoesOn DEF LaunchAnsweredFirst
<1>7. CASE InitializedEvent
  <2>1. PICK i \in Matching : Take("initialized", TRUE, i)
    BY <1>7 DEF InitializedEvent
  <2>2. inbox[i] \in Messages /\ Wanted(inbox[i]) /\ inbox[i].type = "initialized" /\ FewerIn
    BY <2>1, TakenOut DEF FewerIn, TypeInv
  <2>3. pc = "initialized" /\ pc \in Unstarted
    BY <2>2 DEF Wanted, Unstarted
  <2>4. ~NoneComes(Initialized)
    BY <2>1, <2>2 DEF NoneComes, Free, Initialized, Matching
  <2>5. config.adapter = "delve" => launch = "accepted"
    BY <2>4 DEF StopInv, LaunchedFirst
  <2>6. UNCHANGED <<config, adapterVars, stream, outcome>>
    BY <1>1, <1>7 DEF InitializedEvent
  <2>7. CASE config.breakpoints
    <3>1. Ask("breakpoints") /\ pc' = "breakpoints" /\ seen' = seen
      BY <1>7, <2>7 DEF InitializedEvent, Goto
    <3>2. SameStarts
      BY <3>1, HarmlessRequest
    <3> QED
      BY <2>2, <2>3, <2>5, <2>6, <3>1, <3>2, GoesOn
  <2>8. CASE ~config.breakpoints
    <3>1. Configure
      BY <1>7, <2>8 DEF InitializedEvent
    <3> QED
      BY <2>2, <2>3, <2>5, <2>6, <3>1, ConfigureMove
  <2> QED
    BY <2>7, <2>8
<1>8. CASE BreakpointsSet
  <2>1. /\ pc = "breakpoints" /\ pc \in Unstarted /\ FewerIn /\ Configure
        /\ UNCHANGED <<config, adapterVars, stream, outcome>>
    BY <1>1, <1>2, <1>8 DEF BreakpointsSet, Unstarted
  <2>2. config.adapter = "delve" => launch = "accepted"
    BY <2>1 DEF StopInv, LaunchedFirst
  <2> QED
    BY <2>1, <2>2, ConfigureMove
<1>9. CASE ConfigurationAnswered
  <2>1. /\ pc = "configure" /\ Answered(TRUE) /\ Configured /\ FewerIn
        /\ UNCHANGED <<config, adapterVars, stream, outcome>>
    BY <1>1, <1>2, <1>9 DEF ConfigurationAnswered
  <2>2. seen'.stop = seen.stop /\ pc' = AfterConfiguration
    BY <2>1 DEF Configured, Goto, TypeInv, CallType
  <2>3. CASE LaunchAfterConfiguration
    <3>1. pc \in Unstarted /\ Starter = "launch" /\ config.adapter # "delve" /\ ~EntryPath
      BY <2>1, <2>3 DEF Unstarted, Starter, LaunchAfterConfiguration, EntryPath, IsGDB
    <3>2. Free(wire, {"launch"}) /\ launch = "no"
      BY <2>3, <3>1 DEF StopInv, LaunchedFirst
    <3>3. Ask("launch") /\ pc' \in {"first", "execution"} /\ pc' \notin Unstarted
      BY <2>1, <2>2, <2>3, <3>1, AfterFacts DEF Configured, Unstarted
    <3> QED
      BY <2>1, <2>2, <3>1, <3>2, <3>3, AfterFacts, StartMove
  <2>4. CASE ~LaunchAfterConfiguration
    <3>1. SameStarts /\ wire' = wire
      BY <2>1, <2>4, HarmlessRequest DEF Configured
    <3>2. pc' \in {"take", "launch", "first", "execution"} /\ pc' \notin Unstarted
      BY <2>2, <2>4, AfterFacts DEF Unstarted
    <3>3. ASSUME EntryPath
          PROVE  Free(wire', {"configurationDone"}) /\ NoneComes(Done)' /\ Free(stream, StopMessages)
      <4>1. PICK m \in Messages :
              /\ m.type = "response" /\ m.of = Awaited /\ m.ok
              /\ \A M : /\ Free(inbox, M) => m \notin M
                        /\ Once(inbox, M) /\ m \in M => Free(inbox', M)
        BY <2>1, AnswerOut
      <4>2. m \in Done
        BY <2>1, <4>1 DEF Awaited, Done
      <4>3. ~Free(inbox, Done) /\ OneComes(Done)
        BY <3>3, <4>1, <4>2 DEF StopInv, EntryStop
      <4>4. Free(inbox', Done) /\ Free(stream, Done)
        BY <4>1, <4>2, <4>3 DEF OneComes
      <4>5. NoneComes(Done)' /\ ~NoneComes(Done)
        BY <2>1, <4>3, <4>4 DEF NoneComes
      <4> QED
        BY <3>1, <3>3, <4>3, <4>5 DEF StopInv, EntryStop
    <3> QED
      BY <2>1, <2>2, <3>1, <3>2, <3>3, AfterFacts, GoesOn
  <2> QED
    BY <2>3, <2>4
<1> QED
  BY <1>4, <1>5, <1>6, <1>7, <1>8, <1>9

------------------------------------------------------------------------------
(* The steps of debug that take an answer or a stop.                        *)

\* A stop is taken, or none was left: what is to hold of it then.
LEMMA StopMove ==
    ASSUME StopInv, UNCHANGED <<config, adapterVars, stream, outcome>>, FewerIn,
           NoneComes(StopMessages)', pc \notin {"cleanup", "returned"},
           \/ wire' = wire /\ pc' = pc
           \/ Ask("stackTrace") /\ pc' = "stackTrace"
           \/ /\ Ask("continue") /\ pc' = pc /\ pc # "take"
              /\ seen'.stop = NoStop /\ target \in {"stopped", "ended"},
           TypeInv, Free(wire, {"continue"}), pc \in {"first", "execution", "take"},
           pc' = "stackTrace" => EntryPath \/ seen'.stop # NoStop,
           seen'.stop # NoStop =>
             /\ target \in {"stopped", "ended"} /\ seen'.stop.stop = stops
             /\ ToBreakpoint => seen'.stop.reason = "breakpoint"
    PROVE  StopInv'
<1>1. /\ EntryPath' = EntryPath /\ ToBreakpoint' = ToBreakpoint /\ Starter' = Starter
      /\ Unstarted' = Unstarted /\ LaunchAfterConfiguration' = LaunchAfterConfiguration
  BY CalledWith
<1>2. UNCHANGED <<launch, placed, target, stops>>
  BY DEF adapterVars
<1>3. \A r \in {"launch", "configurationDone"} :
        /\ Free(wire, {r}) <=> Free(wire', {r})
        /\ Once(wire, {r}) => Once(wire', {r})
  BY AskFacts DEF Requests
<1>4. /\ Once(wire', {"continue"})
      /\ \/ Free(wire', {"continue"})
         \/ seen'.stop = NoStop /\ target \in {"stopped", "ended"} /\ ~EntryPath
  <2>1. Once(wire, {"continue"})
    BY DEF StopInv, OneStop
  <2>2. CASE wire' = wire
    BY <2>1, <2>2
  <2>3. CASE Ask("stackTrace")
    BY <2>1, <2>3, AskFacts DEF Requests
  <2>4. CASE Ask("continue") /\ seen'.stop = NoStop /\ target \in {"stopped", "ended"} /\ pc # "take"
    <3>1. Once(wire', {"continue"})
      BY <2>4, AskFacts DEF Requests
    <3> QED
      BY <2>4, <3>1 DEF StopInv, EntryStop
  <2> QED
    BY <2>2, <2>3, <2>4
<1>5. \A M : /\ NoneComes(M) => Free(inbox', M) /\ Free(stream', M)
             /\ OneComes(M) => /\ Once(inbox', M) /\ Once(stream', M)
                               /\ Free(inbox', M) \/ Free(stream', M)
  BY DEF FewerIn, NoneComes, OneComes
<1>6. pc \notin Unstarted /\ pc' \notin Unstarted /\ outcome = "none" /\ pc # "configure"
  BY DEF Unstarted, StopInv, Reported
<1>7. StartedOnce'
  BY <1>1, <1>2, <1>3, <1>6 DEF StopInv, StartedOnce, Starter
<1>8. LaunchedFirst'
  BY <1>1, <1>2, <1>3, <1>5, <1>6 DEF StopInv, LaunchedFirst, NoneComes
<1>9. OneStop'
  <2>1. OneComes(StopMessages)'
    BY <1>5 DEF StopInv, OneStop, OneComes
  <2> QED
    BY <1>2, <1>4, <2>1 DEF StopInv, OneStop
<1>10. Latest'
  <2>1. \A i \in 1..Len(inbox') : inbox'[i] \notin StopMessages
    BY DEF NoneComes, Free
  <2>2. \A i \in 1..Len(stream') : stream'[i] \notin StopMessages
    BY DEF NoneComes, Free
  <2> QED
    BY <2>1, <2>2 DEF Latest, NoneComes, Free
<1>11. Reported'
  BY <1>1, <1>6 DEF StopInv, Reported
<1>12. EntryStop'
  BY <1>1, <1>2, <1>3, <1>4, <1>5, <1>6 DEF StopInv, EntryStop, NoneComes, OneComes, FewerIn
<1> QED
  BY <1>7, <1>8, <1>9, <1>10, <1>11, <1>12 DEF StopInv

\* A stop that is queued is the only one, and the one the program is in.
LEMMA QueuedStop ==
    ASSUME StopInv, TypeInv, NEW i \in 1..Len(inbox), inbox[i].type = "stopped"
    PROVE  /\ inbox[i] \in StopMessages
           /\ NoneComes(StopMessages)' \/ ~(inbox' = RemoveAt(inbox, i) /\ stream' = stream)
           /\ seen.stop = NoStop /\ Free(wire, {"continue"}) /\ target \in {"stopped", "ended"}
           /\ inbox[i].stop = stops
           /\ ToBreakpoint => inbox[i].reason \in {"entry", "breakpoint", "attach"}
           /\ inbox[i].reason = "attach" => config.mode = "attach"
<1>1. inbox[i] \in StopMessages
  BY ElementOfSeq DEF TypeInv, LinkType, StopMessages
<1>2. ~Free(inbox, StopMessages)
  BY <1>1 DEF Free
<1>3. Once(inbox, StopMessages) /\ Free(stream, StopMessages)
  BY <1>2 DEF StopInv, OneStop, OneComes
<1>4. Free(RemoveAt(inbox, i), StopMessages)
  BY <1>1, <1>3, TakingOut DEF TypeInv, LinkType
<1>5. inbox' = RemoveAt(inbox, i) /\ stream' = stream => NoneComes(StopMessages)'
  BY <1>3, <1>4 DEF NoneComes
<1>6. seen.stop = NoStop /\ Free(wire, {"continue"}) /\ target \in {"stopped", "ended"}
  BY <1>2 DEF StopInv, OneStop, NoneComes
<1>7. /\ inbox[i].stop = stops
      /\ ToBreakpoint => inbox[i].reason \in {"entry", "breakpoint", "attach"}
      /\ inbox[i].reason = "attach" => config.mode = "attach"
  BY <1>1 DEF StopInv, Latest, NoneComes, Free
<1> QED
  BY <1>1, <1>5, <1>6, <1>7

LEMMA ReportMoves ==
    Report => \/ wire' = wire /\ pc' = pc
              \/ Ask("stackTrace") /\ pc' = "stackTrace" /\ seen'.stop # NoStop
  BY DEF Report, Goto

LEMMA ExecutionSteps ==
    ASSUME StopInv, TypeInv,
           ResponseTaken \/ StopTaken \/ LaunchAnswered \/ AtEntryStop
    PROVE  StopInv'
<1>1. Elsewhere => UNCHANGED <<config, adapterVars, stream>>
  BY DEF Elsewhere
<1>2. CASE ResponseTaken
  <2>1. /\ pc \in {"first", "execution"} /\ Report /\ FewerIn
        /\ UNCHANGED <<config, adapterVars, stream, outcome>>
        /\ seen'.stop = seen.stop
    BY <1>1, <1>2, AnswerOut DEF ResponseTaken, TypeInv, CallType
  <2>2. SameStarts
    BY <2>1, ReportMoves, HarmlessRequest
  <2>3. ~EntryPath
    BY <2>1 DEF StopInv, EntryStop
  <2>4. pc' # "execution" \/ ~ToBreakpoint
    BY <2>1, ReportMoves DEF StopInv, Reported
  <2> QED
    BY <2>1, <2>2, <2>3, <2>4, ReportMoves, GoesOn DEF Unstarted
<1>3. CASE StopTaken
  <2>1. PICK i \in Matching :
          /\ Take("stopped", TRUE, i)
          /\ \/ /\ PassesOver(inbox[i].reason) /\ Ask("continue") /\ seen' = NothingSeen /\ pc' = pc
             \/ /\ ~PassesOver(inbox[i].reason)
                /\ seen' = [seen EXCEPT !.stop = [stop |-> inbox[i].stop, reason |-> inbox[i].reason]]
                /\ Report
    BY <1>3 DEF StopTaken
  <2>2. i \in 1..Len(inbox) /\ inbox' = RemoveAt(inbox, i)
    BY <2>1 DEF Take, Matching
  <2>3. inbox[i].type = "stopped" /\ Wanted(inbox[i]) /\ FewerIn
    BY <2>1, TakenOut DEF FewerIn, TypeInv
  <2>4. pc \in {"first", "execution"}
    BY <2>3 DEF Wanted
  <2>5. UNCHANGED <<config, adapterVars, stream, outcome>>
    BY <1>1, <1>3 DEF StopTaken
  <2>6. /\ NoneComes(StopMessages)'
        /\ Free(wire, {"continue"}) /\ target \in {"stopped", "ended"} /\ inbox[i].stop = stops
        /\ ToBreakpoint => inbox[i].reason \in {"entry", "breakpoint", "attach"}
        /\ inbox[i].reason = "attach" => config.mode = "attach"
    BY <2>2, <2>3, <2>5, QueuedStop
  <2>7. CASE PassesOver(inbox[i].reason) /\ Ask("continue") /\ seen' = NothingSeen /\ pc' = pc
    <3>1. seen'.stop = NoStop
      BY <2>7 DEF NothingSeen
    <3> QED
      BY <2>3, <2>4, <2>5, <2>6, <2>7, <3>1, StopMove
  <2>8. CASE /\ ~PassesOver(inbox[i].reason)
             /\ seen' = [seen EXCEPT !.stop = [stop |-> inbox[i].stop, reason |-> inbox[i].reason]]
             /\ Report
    <3>1. seen'.stop = [stop |-> inbox[i].stop, reason |-> inbox[i].reason]
      BY <2>8 DEF TypeInv, CallType
    <3>2. ToBreakpoint => pc = "first"
      BY <2>4 DEF StopInv, Reported
    <3>3. ToBreakpoint => inbox[i].reason = "breakpoint"
      BY <2>6, <2>8, <3>2 DEF PassesOver
    <3>4. seen'.stop.stop = stops /\ (ToBreakpoint => seen'.stop.reason = "breakpoint")
      BY <2>6, <3>1, <3>3
    <3> QED
      BY <2>3, <2>4, <2>5, <2>6, <2>8, <3>4, ReportMoves, StopMove
  <2> QED
    BY <2>1, <2>7, <2>8
<1>4. CASE LaunchAnswered
  <2>1. /\ pc = "launch" /\ pc' = "take" /\ FewerIn /\ wire' = wire /\ seen' = seen
        /\ UNCHANGED <<config, adapterVars, stream, outcome>>
    BY <1>1, <1>4, AnswerOut DEF LaunchAnswered, Goto
  <2>2. SameStarts
    BY <2>1, HarmlessRequest
  <2>3. EntryPath
    BY <2>1 DEF StopInv, Reported
  <2>4. Free(wire', {"configurationDone"}) /\ NoneComes(Done)' /\ Free(stream, StopMessages)
    BY <2>1, <2>3 DEF StopInv, EntryStop, FewerIn, NoneComes
  <2> QED
    BY <2>1, <2>2, <2>3, <2>4, GoesOn DEF Unstarted
<1>5. CASE AtEntryStop
  <2>1. /\ pc = "take" /\ pc' = "stackTrace" /\ Ask("stackTrace") /\ TakeEntryStop
        /\ UNCHANGED <<config, adapterVars, stream, outcome>>
    BY <1>1, <1>5 DEF AtEntryStop, Goto
  <2>2. EntryPath /\ ~ToBreakpoint
    BY <2>1 DEF StopInv, Reported, EntryPath, ToBreakpoint
  <2>3. Free(wire, {"continue"}) /\ Free(stream, StopMessages)
    BY <2>1, <2>2 DEF StopInv, EntryStop
  <2>4. CASE UNCHANGED <<inbox, seen>> /\ \A k \in 1..Len(inbox) : inbox[k].type # "stopped"
    <3>1. NoneComes(StopMessages)' /\ FewerIn
      BY <2>1, <2>3, <2>4 DEF NoneComes, Free, StopMessages, FewerIn
    <3>2. seen'.stop # NoStop => target \in {"stopped", "ended"} /\ seen'.stop.stop = stops
      BY <2>4 DEF StopInv, OneStop
    <3> QED
      BY <2>1, <2>2, <2>3, <3>1, <3>2, StopMove
  <2>5. ASSUME NEW k \in 1..Len(inbox), inbox[k].type = "stopped", inbox' = RemoveAt(inbox, k),
               seen' = [seen EXCEPT !.stop = [stop |-> inbox[k].stop, reason |-> inbox[k].reason]]
        PROVE  StopInv'
    <3>1. seen'.stop.stop = inbox[k].stop
      BY <2>5 DEF TypeInv, CallType
    <3>2. NoneComes(StopMessages)' /\ target \in {"stopped", "ended"} /\ inbox[k].stop = stops
      BY <2>1, <2>5, QueuedStop
    <3>3. FewerIn
      BY <2>5, TakingOut DEF FewerIn, TypeInv, LinkType
    <3> QED
      BY <2>1, <2>2, <2>3, <3>1, <3>2, <3>3, StopMove
  <2> QED
    BY <2>1, <2>4, <2>5 DEF TakeEntryStop
<1> QED
  BY <1>2, <1>3, <1>4, <1>5

------------------------------------------------------------------------------
(* The steps of the adapter.                                                *)

\* What the adapter takes off the wire.
WireFewer == \A M : (Free(wire, M) => Free(wire', M)) /\ (Once(wire, M) => Once(wire', M))

LEMMA Served ==
    ASSUME TypeInv, NEW r, Serves(r)
    PROVE  /\ WireFewer /\ ~Free(wire, {r}) /\ (Once(wire, {r}) => Free(wire', {r}))
           /\ UNCHANGED <<config, pc, active, launchSeen, seen, outcome, inbox>>
<1>1. wire \in Seq(Requests) /\ wire # <<>> /\ wire' = Tail(wire) /\ Head(wire) = r
  BY DEF Serves, TypeInv, LinkType
<1>2. \A M : Free(wire, M) => Head(wire) \notin M
  BY <1>1, Passing
<1>3. \A M : /\ Free(wire, M) => Free(wire', M)
             /\ Once(wire, M) => Once(wire', M)
             /\ Once(wire, M) /\ Head(wire) \in M => Free(wire', M)
  BY <1>1, Passing
<1>4. UNCHANGED <<config, pc, active, launchSeen, seen, outcome, inbox>>
  BY DEF Serves, callVars, loopVars
<1> QED
  BY <1>1, <1>2, <1>3, <1>4 DEF WireFewer

\* What a message that is said leaves as it was.
Keeps(M) == (Free(stream, M) => Free(stream', M)) /\ (Once(stream, M) => Once(stream', M))

\* A step of the adapter that reports no stop.
LEMMA AdapterMove ==
    ASSUME StopInv, UNCHANGED <<config, pc, seen, outcome, inbox, stops>>, WireFewer,
           Keeps(StopMessages),
           \A M : M \in SUBSET StopMessages => Keeps(M),
           EntryPath => Keeps(Done) /\ (StopFirst(stream) => StopFirst(stream')) /\ target' # "running",
           target' = "none" => target = "none",
           target' # "none" => launch' = "accepted" /\ pc \notin Unstarted /\ Free(wire', {Starter}),
           \/ target' \in {"stopped", "ended"}
           \/ target' = target
           \/ NoneComes(StopMessages) /\ seen.stop = NoStop /\ Free(wire', {"continue"}),
           ~Free(wire', {"launch"}) => launch' = "no",
           pc \in {"spawn", "initialize"} => launch' = "no",
           LaunchAfterConfiguration /\ pc \in Unstarted => launch' = "no",
           config.adapter = "delve" /\ (\/ ~NoneComes(Initialized)' \/ ~Free(wire', {"configurationDone"})
                                        \/ pc \in {"breakpoints", "configure"})
             => launch' = "accepted"
    PROVE  StopInv'
<1>1. /\ EntryPath' = EntryPath /\ ToBreakpoint' = ToBreakpoint /\ Starter' = Starter
      /\ Unstarted' = Unstarted /\ LaunchAfterConfiguration' = LaunchAfterConfiguration
  BY CalledWith
<1>2. \A M : M \in SUBSET StopMessages \/ (M = Done /\ EntryPath) =>
               /\ NoneComes(M) => NoneComes(M)'
               /\ OneComes(M) => OneComes(M)'
  BY DEF Keeps, NoneComes, OneComes
<1>3. StartedOnce'
  BY <1>1 DEF StopInv, StartedOnce, WireFewer
<1>4. LaunchedFirst'
  BY <1>1 DEF StopInv, LaunchedFirst, WireFewer
<1>5. OneStop'
  <2>1. OneComes(StopMessages)' /\ (NoneComes(StopMessages) => NoneComes(StopMessages)')
    BY <1>2 DEF StopInv, OneStop
  <2>2. Once(wire', {"continue"}) /\ (Free(wire, {"continue"}) => Free(wire', {"continue"}))
    BY DEF StopInv, OneStop, WireFewer
  <2>3. \/ target' \in {"stopped", "ended"}
        \/ target' = target
        \/ NoneComes(StopMessages)' /\ seen'.stop = NoStop /\ Free(wire', {"continue"})
    BY <2>1
  <2> QED
    BY <2>1, <2>2, <2>3 DEF StopInv, OneStop
<1>6. Latest'
  BY StillLatest DEF StopInv, Keeps, NoneComes
<1>7. Reported'
  BY <1>1 DEF StopInv, Reported
<1>8. EntryStop'
  <2> SUFFICES ASSUME EntryPath PROVE EntryStop'
    BY <1>1 DEF EntryStop
  <2>1. /\ NoneComes(Done) => NoneComes(Done)'
        /\ OneComes(Done)'
        /\ NoneComes(StopMessages) => NoneComes(StopMessages)'
        /\ Free(stream, StopMessages) => Free(stream', StopMessages)
    BY <1>2 DEF StopInv, EntryStop, Keeps
  <2> QED
    BY <1>1, <2>1 DEF StopInv, EntryStop, WireFewer
<1> QED
  BY <1>3, <1>4, <1>5, <1>6, <1>7, <1>8 DEF StopInv

\* A message that is no stop comes after the stops, and so does an answer.
LEMMA InOrder ==
    ASSUME NEW s \in Seq(Messages), NEW m \in Messages, m \notin StopMessages \/ Free(s, Done),
           StopFirst(s)
    PROVE  StopFirst(Append(s, m))
<1>1. /\ Len(s) \in Nat /\ Len(Append(s, m)) = Len(s) + 1
      /\ \A i \in 1..Len(s) : Append(s, m)[i] = s[i]
      /\ Append(s, m)[Len(s) + 1] = m
  BY AppendProperties, LenProperties
<1>2. \A i : i \in 1..Len(Append(s, m)) <=> i \in 1..Len(s) \/ i = Len(s) + 1
  BY <1>1
<1>3. \A i \in 1..Len(s) : i < Len(s) + 1
  BY <1>1
<1>4. StopMessages \cap Done = {}
  BY DEF StopMessages, Done
<1> QED
  BY <1>1, <1>2, <1>3, <1>4 DEF StopFirst, Free

\* What is said, one message or two.
LEMMA SaidKeeps ==
    ASSUME TypeInv, NEW m \in Messages, Says(<<m>>)
    PROVE  /\ \A M : m \notin M => Keeps(M)
           /\ StopFirst(stream) /\ m \notin StopMessages => StopFirst(stream')
<1>1. stream' = Append(stream, m) /\ stream \in Seq(Messages)
  BY Saying DEF TypeInv, LinkType
<1> QED
  BY <1>1, Adding, InOrder DEF Keeps

LEMMA BothKeep ==
    ASSUME TypeInv, NEW m \in Messages, NEW n \in Messages, EitherOrder(m, n)
    PROVE  /\ \A M : m \notin M /\ n \notin M => Keeps(M)
           /\ StopFirst(stream) /\ m \notin StopMessages /\ n \notin StopMessages
                => StopFirst(stream')
<1>1. ASSUME NEW a \in {m, n}, NEW b \in {m, n}, Says(<<a, b>>)
      PROVE  /\ \A M : m \notin M /\ n \notin M => Keeps(M)
             /\ StopFirst(stream) /\ m \notin StopMessages /\ n \notin StopMessages
                  => StopFirst(stream')
  <2>1. stream' = Append(Append(stream, a), b) /\ stream \in Seq(Messages)
    BY <1>1, Saying DEF TypeInv, LinkType
  <2>2. Append(stream, a) \in Seq(Messages)
    BY <2>1, AppendProperties
  <2>3. ASSUME NEW M, m \notin M, n \notin M PROVE Keeps(M)
    <3>1. /\ Free(stream, M) => Free(Append(stream, a), M)
          /\ Once(stream, M) => Once(Append(stream, a), M)
      BY <2>1, <2>3, Adding
    <3> QED
      BY <2>1, <2>2, <2>3, <3>1, Adding DEF Keeps
  <2>4. StopFirst(stream) /\ m \notin StopMessages /\ n \notin StopMessages => StopFirst(stream')
    BY <2>1, <2>2, InOrder
  <2> QED
    BY <2>3, <2>4
<1> QED
  BY <1>1 DEF EitherOrder

\* The messages the adapter sends, and the kinds they are not of.
LEMMA Kinds ==
    /\ \A of \in Requests, ok \in BOOLEAN :
         /\ Response(of, ok) \in Messages
         /\ Response(of, ok) \notin StopMessages \union Initialized
         /\ of # "configurationDone" \/ ~ok => Response(of, ok) \notin Done
    /\ \A type \in {"initialized", "terminated"} :
         Event(type) \in Messages /\ Event(type) \notin StopMessages \union Done
    /\ Event("terminated") \notin Initialized
<1>1. Event("initialized") \in Messages /\ Event("terminated") \in Messages
  BY MessageTypes
<1>2. \A of \in Requests, ok \in BOOLEAN : Response(of, ok) \in Messages
  BY MessageTypes
<1> QED
  BY <1>1, <1>2 DEF Response, Event, StopMessages, Initialized, Done

\* A request whose answer moves nothing.
LEMMA QuietMove ==
    ASSUME StopInv, TypeInv, NEW r \in Requests, Serves(r), UNCHANGED <<launch, target, stops>>,
           \A M : M \in SUBSET StopMessages => Keeps(M),
           EntryPath => Keeps(Done) /\ (StopFirst(stream) => StopFirst(stream')),
           config.adapter = "delve" => Keeps(Initialized)
    PROVE  StopInv'
<1>1. /\ WireFewer /\ UNCHANGED <<config, pc, seen, outcome, inbox>>
  BY Served
<1>2. config.adapter = "delve" /\ ~NoneComes(Initialized)' => ~NoneComes(Initialized)
  BY <1>1 DEF NoneComes, Keeps
<1>3. \A M : ~Free(wire', M) => ~Free(wire, M)
  BY <1>1 DEF WireFewer
<1>4. target # "none" => launch = "accepted" /\ pc \notin Unstarted /\ Free(wire', {Starter})
  BY <1>3 DEF StopInv, StartedOnce, LaunchedFirst
<1>5. EntryPath => target # "running"
  BY DEF StopInv, EntryStop
<1>6. /\ ~Free(wire', {"launch"}) => launch = "no"
      /\ pc \in {"spawn", "initialize"} => launch = "no"
      /\ LaunchAfterConfiguration /\ pc \in Unstarted => launch = "no"
      /\ config.adapter = "delve" /\ (\/ ~NoneComes(Initialized)' \/ ~Free(wire', {"configurationDone"})
                                      \/ pc \in {"breakpoints", "configure"})
           => launch = "accepted"
  BY <1>2, <1>3 DEF StopInv, LaunchedFirst
<1> QED
  BY <1>1, <1>4, <1>5, <1>6, AdapterMove

LEMMA QuietSteps ==
    ASSUME StopInv, TypeInv,
           \/ ServesInitialize \/ ServesBreakpoints \/ ServesStackTrace
           \/ \E r \in Requests \ {"launch"} : Refuses(r)
    PROVE  StopInv'
<1>1. CASE ServesInitialize
  <2>1. Serves("initialize") /\ UNCHANGED <<launch, target, stops>>
    BY <1>1 DEF ServesInitialize, adapterVars
  <2>2. CASE IsGDB
    <3>1. EitherOrder(Response("initialize", TRUE), Event("initialized"))
      BY <1>1, <2>2 DEF ServesInitialize, EitherOrder
    <3>2. \A M : M \in SUBSET StopMessages => Keeps(M)
      BY <3>1, Kinds, BothKeep DEF Requests
    <3>3. ~EntryPath /\ config.adapter # "delve"
      BY <2>2 DEF EntryPath, IsGDB
    <3> QED
      BY <2>1, <3>2, <3>3, QuietMove DEF Requests
  <2>3. CASE ~IsGDB
    <3>1. Says(<<Response("initialize", TRUE)>>)
      BY <1>1, <2>3 DEF ServesInitialize
    <3>2. /\ \A M : M \in SUBSET StopMessages \/ M = Done \/ M = Initialized => Keeps(M)
          /\ StopFirst(stream) => StopFirst(stream')
      BY <3>1, Kinds, SaidKeeps DEF Requests
    <3> QED
      BY <2>1, <3>2, QuietMove DEF Requests
  <2> QED
    BY <2>2, <2>3
<1>2. CASE ServesStackTrace
  <2>1. Serves("stackTrace") /\ UNCHANGED <<launch, target, stops>> /\ Says(<<Response("stackTrace", TRUE)>>)
    BY <1>2 DEF ServesStackTrace, adapterVars
  <2>2. /\ \A M : M \in SUBSET StopMessages \/ M = Done \/ M = Initialized => Keeps(M)
        /\ StopFirst(stream) => StopFirst(stream')
    BY <2>1, Kinds, SaidKeeps DEF Requests
  <2> QED
    BY <2>1, <2>2, QuietMove DEF Requests
<1>3. ASSUME NEW r \in Requests \ {"launch"}, Refuses(r) PROVE StopInv'
  <2>1. Serves(r) /\ UNCHANGED <<launch, target, stops>> /\ Says(<<Response(r, FALSE)>>)
    BY <1>3 DEF Refuses
  <2>2. /\ \A M : M \in SUBSET StopMessages \/ M = Done \/ M = Initialized => Keeps(M)
        /\ StopFirst(stream) => StopFirst(stream')
    BY <2>1, Kinds, SaidKeeps
  <2> QED
    BY <2>1, <2>2, QuietMove
<1>4. CASE ServesBreakpoints
  <2>1. /\ Serves("breakpoints") /\ Says(<<Response("breakpoints", TRUE)>>)
        /\ UNCHANGED <<launch, target, stops>>
    BY <1>4 DEF ServesBreakpoints
  <2>2. /\ \A M : M \in SUBSET StopMessages \/ M = Done \/ M = Initialized => Keeps(M)
        /\ StopFirst(stream) => StopFirst(stream')
    BY <2>1, Kinds, SaidKeeps DEF Requests
  <2> QED
    BY <2>1, <2>2, QuietMove DEF Requests
<1> QED
  BY <1>1, <1>2, <1>3, <1>4

\* The launch is served, or refused.
LEMMA LaunchServed ==
    ASSUME StopInv, TypeInv, ServesLaunch \/ Refuses("launch")
    PROVE  StopInv'
<1>1. Serves("launch") /\ stops' = stops
  BY DEF ServesLaunch, Refuses
<1>2. /\ WireFewer /\ ~Free(wire, {"launch"}) /\ (Once(wire, {"launch"}) => Free(wire', {"launch"}))
      /\ UNCHANGED <<config, pc, seen, outcome, inbox>>
  BY <1>1, Served
<1>3. launch = "no" /\ Free(wire', {"launch"})
  BY <1>2 DEF StopInv, LaunchedFirst
<1>4. target = "none" /\ pc \notin {"spawn", "initialize"}
  BY <1>2, <1>3 DEF StopInv, LaunchedFirst
<1>5. LaunchAfterConfiguration => pc \notin Unstarted /\ Starter = "launch" /\ ~EntryPath
  BY <1>2 DEF StopInv, LaunchedFirst, Starter, LaunchAfterConfiguration, EntryPath, IsGDB
<1>6. NoneComes(StopMessages) /\ seen.stop = NoStop /\ Free(wire', {"continue"})
  BY <1>2, <1>4 DEF StopInv, OneStop, WireFewer
<1>7. config.adapter = "delve" => /\ NoneComes(Initialized) /\ Free(wire', {"configurationDone"})
                                  /\ pc \notin {"breakpoints", "configure"}
  BY <1>2, <1>3 DEF StopInv, LaunchedFirst, WireFewer
<1>8. /\ Response("launch", TRUE) \in Messages /\ Response("launch", FALSE) \in Messages
      /\ Event("initialized") \in Messages
  BY Kinds DEF Requests
<1>9. CASE Refuses("launch")
  <2>1. Says(<<Response("launch", FALSE)>>) /\ launch' = "refused" /\ target' = target
    BY <1>9 DEF Refuses
  <2>2. /\ \A M : M \in SUBSET StopMessages \/ M = Done \/ M = Initialized => Keeps(M)
        /\ StopFirst(stream) => StopFirst(stream')
    BY <2>1, Kinds, SaidKeeps DEF Requests
  <2>3. config.adapter = "delve" => NoneComes(Initialized)'
    BY <1>2, <1>7, <2>2 DEF NoneComes, Keeps
  <2>4. target' = "none" /\ ~Free(wire', {"launch"}) => launch' = "no"
    BY <1>3
  <2> QED
    BY <1>1, <1>2, <1>3, <1>4, <1>5, <1>6, <1>7, <2>1, <2>2, <2>3, <2>4, AdapterMove
<1>10. CASE ServesLaunch /\ config.adapter = "delve"
  <2>1. /\ EitherOrder(Event("initialized"), Response("launch", TRUE))
        /\ launch' = "accepted" /\ target' = target
    BY <1>10 DEF ServesLaunch
  <2>2. /\ \A M : M \in SUBSET StopMessages \/ M = Done => Keeps(M)
        /\ StopFirst(stream) => StopFirst(stream')
    BY <2>1, Kinds, BothKeep DEF Requests
  <2>3. ~LaunchAfterConfiguration
    BY <1>10 DEF LaunchAfterConfiguration
  <2> QED
    BY <1>1, <1>2, <1>3, <1>4, <1>6, <2>1, <2>2, <2>3, AdapterMove
<1>11. CASE ServesLaunch /\ config.adapter = "gdb14"
  <2>1. Says(<<Response("launch", TRUE)>>) /\ launch' = "accepted" /\ target' = "running"
    BY <1>11 DEF ServesLaunch
  <2>2. \A M : M \in SUBSET StopMessages => Keeps(M)
    BY <2>1, Kinds, SaidKeeps DEF Requests
  <2>3. ~EntryPath /\ LaunchAfterConfiguration
    BY <1>11 DEF EntryPath, IsGDB, LaunchAfterConfiguration
  <2>4. pc \notin Unstarted /\ Free(wire', {Starter})
    BY <1>3, <1>5, <2>3
  <2> QED
    BY <1>1, <1>2, <1>3, <1>4, <1>6, <2>1, <2>2, <2>3, <2>4, AdapterMove
<1>12. CASE ServesLaunch /\ config.adapter \notin {"delve", "gdb14"}
  <2>1. stream' = stream /\ launch' = "pending" /\ target' = target
    BY <1>12 DEF ServesLaunch
  <2>2. \A M : Keeps(M)
    BY <2>1 DEF Keeps
  <2>3. ~LaunchAfterConfiguration /\ ~EntryPath
    BY <1>12 DEF LaunchAfterConfiguration, EntryPath, IsGDB
  <2> QED
    BY <1>1, <1>2, <1>3, <1>4, <1>6, <1>12, <2>1, <2>2, <2>3, AdapterMove
<1> QED
  BY <1>9, <1>10, <1>11, <1>12

LEMMA ContinueServed ==
    ASSUME StopInv, TypeInv, ServesContinue
    PROVE  StopInv'
<1>1. /\ Serves("continue") /\ Says(<<Response("continue", target = "stopped")>>)
      /\ target' = (IF target = "stopped" THEN "running" ELSE target)
      /\ UNCHANGED <<launch, stops>>
  BY DEF ServesContinue
<1>2. /\ WireFewer /\ ~Free(wire, {"continue"}) /\ (Once(wire, {"continue"}) => Free(wire', {"continue"}))
      /\ UNCHANGED <<config, pc, seen, outcome, inbox>>
  BY <1>1, Served
<1>3. /\ target \in {"stopped", "ended"} /\ NoneComes(StopMessages) /\ seen.stop = NoStop
      /\ Free(wire', {"continue"})
  BY <1>2 DEF StopInv, OneStop
<1>4. ~EntryPath
  BY <1>2 DEF StopInv, EntryStop
<1>5. Free(wire', {Starter}) /\ pc \notin Unstarted /\ launch = "accepted"
  BY <1>2, <1>3 DEF StopInv, StartedOnce, LaunchedFirst, WireFewer
<1>6. Free(wire', {"launch"}) /\ pc \notin {"spawn", "initialize"}
  BY <1>2, <1>5 DEF StopInv, LaunchedFirst, WireFewer
<1>7. \A M : M \in SUBSET StopMessages => Keeps(M)
  BY <1>1, Kinds, SaidKeeps DEF Requests
<1>8. target' # "none"
  BY <1>1, <1>3
<1> QED
  BY <1>1, <1>2, <1>3, <1>4, <1>5, <1>6, <1>7, <1>8, AdapterMove

\* A stop is reported.
LEMMA StopComes ==
    ASSUME StopInv, UNCHANGED <<config, pc, seen, outcome, inbox, launch>>, WireFewer,
           NoneComes(StopMessages), seen.stop = NoStop, Free(wire', {"continue"}),
           target' = "stopped", launch = "accepted", pc \notin Unstarted, Free(wire', {Starter}),
           Once(stream', StopMessages),
           \A i \in 1..Len(stream') : stream'[i] \in StopMessages =>
             /\ stream'[i].stop = stops'
             /\ ToBreakpoint => stream'[i].reason \in {"entry", "breakpoint", "attach"}
             /\ stream'[i].reason = "attach" => config.mode = "attach",
           EntryPath => /\ StopFirst(stream') /\ Free(inbox, Done) /\ Once(stream', Done)
                        /\ Free(wire', {"configurationDone"})
                        /\ pc \notin {"launch", "take", "stackTrace"} /\ outcome # "entry"
    PROVE  StopInv'
<1>1. /\ EntryPath' = EntryPath /\ ToBreakpoint' = ToBreakpoint /\ Starter' = Starter
      /\ Unstarted' = Unstarted /\ LaunchAfterConfiguration' = LaunchAfterConfiguration
  BY CalledWith
<1>2. StartedOnce'
  BY <1>1 DEF StopInv, StartedOnce, WireFewer
<1>3. LaunchedFirst'
  BY <1>1 DEF StopInv, LaunchedFirst, WireFewer, Unstarted
<1>4. OneStop'
  BY DEF StopInv, OneStop, OneComes, NoneComes, WireFewer
<1>5. Latest'
  BY <1>1 DEF Latest, NoneComes, Free
<1>6. Reported'
  BY <1>1 DEF StopInv, Reported
<1>7. EntryStop'
  BY <1>1 DEF StopInv, EntryStop, OneComes, NoneComes, WireFewer
<1> QED
  BY <1>2, <1>3, <1>4, <1>5, <1>6, <1>7 DEF StopInv

LEMMA ConfigurationServed ==
    ASSUME StopInv, TypeInv, ServesConfigurationDone
    PROVE  StopInv'
<1> DEFINE done == Response("configurationDone", TRUE)
<1>1. Serves("configurationDone")
  BY DEF ServesConfigurationDone
<1>2. /\ WireFewer /\ ~Free(wire, {"configurationDone"})
      /\ Once(wire, {"configurationDone"}) => Free(wire', {"configurationDone"})
      /\ UNCHANGED <<config, pc, seen, outcome, inbox>>
  BY <1>1, Served
<1>3. done \in Messages /\ done \notin StopMessages /\ done \notin Initialized
  BY Kinds DEF Requests
<1> HIDE DEF done
<1>4. CASE config.adapter = "gdb14"
  <2>1. Says(<<done>>) /\ UNCHANGED <<launch, target, stops>>
    BY <1>4 DEF ServesConfigurationDone, done
  <2>2. \A M : M \in SUBSET StopMessages => Keeps(M)
    BY <1>3, <2>1, SaidKeeps
  <2>3. ~EntryPath /\ config.adapter # "delve"
    BY <1>4 DEF EntryPath, IsGDB
  <2> QED
    BY <1>1, <2>1, <2>2, <2>3, QuietMove DEF Requests
<1>5. ASSUME config.adapter # "gdb14"
      PROVE  /\ ~LaunchAfterConfiguration /\ Starter = "configurationDone"
             /\ target = "none" /\ stops = 0 /\ pc \notin Unstarted
             /\ Free(wire', {"configurationDone"}) /\ Free(wire', {Starter})
             /\ NoneComes(StopMessages) /\ seen.stop = NoStop /\ Free(wire', {"continue"})
  <2>1. ~LaunchAfterConfiguration /\ Starter = "configurationDone"
    BY <1>5 DEF LaunchAfterConfiguration, Starter
  <2>2. target = "none" /\ stops = 0 /\ pc \notin Unstarted
    BY <1>2, <2>1 DEF StopInv, StartedOnce
  <2>3. Free(wire', {"configurationDone"})
    BY <1>2, <2>1 DEF StopInv, StartedOnce
  <2> QED
    BY <1>2, <2>1, <2>2, <2>3 DEF StopInv, OneStop, WireFewer
<1>6. CASE config.adapter = "delve"
  <2>1. launch = "accepted"
    BY <1>2, <1>6 DEF StopInv, LaunchedFirst
  <2>2. Free(wire', {"launch"}) /\ pc \notin {"spawn", "initialize"}
    BY <1>2, <1>5, <1>6, <2>1 DEF StopInv, LaunchedFirst, WireFewer, Unstarted
  <2>3. CASE ~StopAtEntry /\ Says(<<done>>) /\ target' = "running" /\ UNCHANGED <<launch, stops>>
    <3>1. \A M : M \in SUBSET StopMessages => Keeps(M)
      BY <1>3, <2>3, SaidKeeps
    <3>2. ~EntryPath
      BY <2>3 DEF EntryPath
    <3> QED
      BY <1>2, <1>5, <1>6, <2>1, <2>2, <2>3, <3>1, <3>2, AdapterMove
  <2>4. CASE Says(<<Stopped(1, "entry"), done>>) /\ target' = "stopped" /\ stops' = 1 /\ launch' = launch
    <3> DEFINE stop == Stopped(1, "entry")
               s == Append(stream, stop)
    <3>1. /\ stop \in StopMessages /\ stop \notin Done
          /\ stop.stop = 1 /\ stop.reason = "entry"
      <4>1. stop \in Messages
        <5>1. 1 \in 0..MaxStops /\ "entry" \in Reasons
          BY MaxStopsAssumption DEF Reasons
        <5> QED
          BY <5>1, MessageTypes
      <4> QED
        BY <4>1 DEF Stopped, StopMessages, Done
    <3> HIDE DEF stop
    <3>2. stream \in Seq(Messages) /\ stop \in Messages /\ stream' = Append(s, done)
      BY <1>3, <2>4, <3>1, Saying DEF TypeInv, LinkType, StopMessages, stop
    <3>3. /\ s \in Seq(Messages) /\ Len(stream) \in Nat /\ Len(s) = Len(stream) + 1
          /\ \A i \in 1..Len(stream) : s[i] = stream[i]
          /\ s[Len(stream) + 1] = stop
      BY <3>2, AppendProperties, LenProperties
    <3>4. /\ Len(stream') = Len(s) + 1
          /\ \A i \in 1..Len(s) : stream'[i] = s[i]
          /\ stream'[Len(s) + 1] = done
      BY <1>3, <3>2, <3>3, AppendProperties
    <3>5. Once(s, StopMessages) /\ (Free(stream, Done) => Free(s, Done))
      <4>1. Free(stream, StopMessages) /\ Once(stream, StopMessages)
        BY <1>5, <1>6 DEF NoneComes, Free, Once
      <4> QED
        BY <3>1, <3>2, <4>1, Adding
    <3> HIDE DEF s
    <3>6. Once(stream', StopMessages)
      BY <1>3, <3>2, <3>3, <3>5, Adding
    <3>7. \A i \in 1..Len(stream') : stream'[i] \in StopMessages => stream'[i] = stop
      <4>1. \A i \in 1..Len(stream') : i \in 1..Len(stream) \/ i = Len(stream) + 1 \/ i = Len(s) + 1
        BY <3>3, <3>4
      <4>2. Len(stream) + 1 \in 1..Len(s) /\ \A i \in 1..Len(stream) : i \in 1..Len(s)
        BY <3>3
      <4> QED
        BY <1>3, <1>5, <1>6, <3>3, <3>4, <4>1, <4>2 DEF NoneComes, Free
    <3>8. ASSUME EntryPath
          PROVE  /\ StopFirst(stream') /\ Free(inbox, Done) /\ Once(stream', Done)
                 /\ pc \notin {"launch", "take", "stackTrace"} /\ outcome # "entry"
      <4>1. /\ NoneComes(Done) /\ StopFirst(stream)
            /\ pc \notin {"launch", "take", "stackTrace"} /\ outcome # "entry"
        BY <1>2, <3>8 DEF StopInv, EntryStop
      <4>2. Free(s, Done) /\ Free(stream, Done)
        BY <3>5, <4>1 DEF NoneComes
      <4>3. StopFirst(s)
        BY <3>2, <4>1, <4>2, InOrder DEF s
      <4>4. StopFirst(stream')
        BY <1>3, <3>2, <3>3, <4>3, InOrder
      <4>5. Once(s, Done)
        BY <4>2 DEF Free, Once
      <4>6. Once(stream', Done)
        BY <1>3, <3>2, <3>3, <4>2, <4>5, Adding
      <4> QED
        BY <4>1, <4>4, <4>6 DEF NoneComes
    <3> QED
      BY <1>2, <1>5, <1>6, <2>1, <2>4, <3>1, <3>6, <3>7, <3>8, StopComes
  <2> QED
    BY <1>6, <2>3, <2>4 DEF ServesConfigurationDone, done
<1>7. CASE config.adapter \notin {"delve", "gdb14"}
  <2>1. PICK ok \in BOOLEAN :
          /\ launch = "pending" /\ EitherOrder(done, Response("launch", ok))
          /\ launch' = IF ok THEN "accepted" ELSE "refused"
          /\ target' = IF ok THEN "running" ELSE "none"
          /\ stops' = stops
    BY <1>7 DEF ServesConfigurationDone, done
  <2>2. Response("launch", ok) \in Messages /\ Response("launch", ok) \notin StopMessages
    BY Kinds DEF Requests
  <2>3. \A M : M \in SUBSET StopMessages => Keeps(M)
    BY <1>3, <2>1, <2>2, BothKeep
  <2>4. Free(wire', {"launch"}) /\ pc \notin {"spawn", "initialize"}
    BY <1>2, <2>1 DEF StopInv, LaunchedFirst, WireFewer
  <2>5. ~EntryPath
    BY <1>7 DEF EntryPath, IsGDB
  <2> QED
    BY <1>2, <1>5, <1>7, <2>1, <2>3, <2>4, <2>5, AdapterMove
<1> QED
  BY <1>4, <1>6, <1>7

\* The program stops, ends, or is gone with its adapter.
LEMMA TargetSteps ==
    ASSUME StopInv, TypeInv, TargetStops \/ TargetTerminates \/ AdapterExits
    PROVE  StopInv'
<1>1. UNCHANGED <<config, pc, seen, outcome, inbox, launch>>
  BY DEF TargetStops, TargetTerminates, AdapterExits, callVars, loopVars
<1>2. WireFewer
  <2>1. \A M : Free(<<>>, M) /\ Once(<<>>, M)
    BY DEF Free, Once
  <2> QED
    BY <2>1 DEF TargetStops, TargetTerminates, AdapterExits, WireFewer
<1>3. target # "none" => /\ launch = "accepted" /\ pc \notin Unstarted
                         /\ Free(wire, {Starter}) /\ Free(wire', {Starter})
  BY <1>2 DEF StopInv, StartedOnce, LaunchedFirst, WireFewer
<1>4. \A M : ~Free(wire', M) => ~Free(wire, M)
  BY <1>2 DEF WireFewer
<1>5. /\ ~Free(wire', {"launch"}) => launch = "no"
      /\ pc \in {"spawn", "initialize"} => launch = "no"
      /\ LaunchAfterConfiguration /\ pc \in Unstarted => launch = "no"
  BY <1>4 DEF StopInv, LaunchedFirst
<1>6. CASE TargetStops
  <2>1. /\ target = "running" /\ stops < MaxStops /\ stops' = stops + 1 /\ target' = "stopped"
        /\ \E why \in IF stops = 0 THEN FirstReasons ELSE {"breakpoint"} : Says(<<Stopped(stops', why)>>)
    BY <1>6 DEF TargetStops
  <2>2. PICK why \in FirstReasons \union {"breakpoint"} : Says(<<Stopped(stops', why)>>)
    BY <2>1
  <2>3. /\ NoneComes(StopMessages) /\ seen.stop = NoStop /\ Free(wire', {"continue"})
        /\ ~EntryPath
    BY <1>2, <2>1 DEF StopInv, OneStop, EntryStop, WireFewer
  <2>4. /\ ToBreakpoint => why \in {"entry", "breakpoint", "attach"}
        /\ why = "attach" => config.mode = "attach"
    BY <2>2 DEF FirstReasons, ToBreakpoint
  <2> DEFINE stop == Stopped(stops', why)
  <2>5. stop \in Messages /\ stop.stop = stops' /\ stop.reason = why
    <3>1. stops' \in 0..MaxStops /\ why \in Reasons
      <4>1. stops \in 0..MaxStops
        BY DEF TypeInv, AdapterType
      <4>2. stops' \in 0..MaxStops
        BY <2>1, <4>1, MaxStopsAssumption
      <4> QED
        BY <2>2, <4>2 DEF FirstReasons, Reasons
    <3>2. stop \in Messages
      BY <3>1, MessageTypes
    <3> QED
      BY <3>2 DEF Stopped
  <2> HIDE DEF stop
  <2>6. stream' = Append(stream, stop) /\ stream \in Seq(Messages)
    BY <2>2, <2>5, Saying DEF stop, TypeInv, LinkType
  <2>7. Once(stream', StopMessages)
    <3>1. Free(stream, StopMessages) /\ Once(stream, StopMessages)
      BY <2>3 DEF NoneComes, Free, Once
    <3> QED
      BY <2>5, <2>6, <3>1, Adding
  <2>8. \A i \in 1..Len(stream') : stream'[i] \in StopMessages => stream'[i] = stop
    <3>1. /\ Len(stream) \in Nat /\ Len(stream') = Len(stream) + 1
          /\ \A i \in 1..Len(stream) : stream'[i] = stream[i]
          /\ stream'[Len(stream) + 1] = stop
      BY <2>5, <2>6, AppendProperties, LenProperties
    <3>2. \A i \in 1..Len(stream') : i \in 1..Len(stream) \/ i = Len(stream) + 1
      BY <3>1
    <3> QED
      BY <2>3, <3>1, <3>2 DEF NoneComes, Free
  <2> QED
    BY <1>1, <1>2, <1>3, <2>1, <2>3, <2>4, <2>5, <2>7, <2>8, StopComes
<1>7. CASE TargetTerminates
  <2>1. /\ target \in {"running", "stopped"} /\ target' = "ended" /\ stops' = stops
        /\ Says(<<Event("terminated")>>)
    BY <1>7 DEF TargetTerminates
  <2>2. /\ \A M : M \in SUBSET StopMessages \/ M = Done \/ M = Initialized => Keeps(M)
        /\ StopFirst(stream) => StopFirst(stream')
    BY <2>1, Kinds, SaidKeeps
  <2> QED
    BY <1>1, <1>2, <1>3, <1>5, <2>1, <2>2, AdapterMove
<1>8. CASE AdapterExits
  <2>1. /\ stream' = stream /\ stops' = stops
        /\ target' = IF target = "none" THEN "none" ELSE "ended"
    BY <1>8 DEF AdapterExits
  <2>2. \A M : Keeps(M)
    BY <2>1 DEF Keeps
  <2>3. config.adapter = "delve" /\ (\/ ~NoneComes(Initialized)' \/ ~Free(wire', {"configurationDone"})
                                     \/ pc \in {"breakpoints", "configure"})
          => launch = "accepted"
    BY <1>1, <1>4, <2>1 DEF StopInv, LaunchedFirst, NoneComes
  <2> QED
    BY <1>1, <1>2, <1>3, <1>5, <2>1, <2>2, <2>3, AdapterMove
<1> QED
  BY <1>6, <1>7, <1>8

\* The read loop delivers in order, or loses what is still to be read.
LEMMA LoopMoves ==
    ASSUME StopInv, TypeInv, Deliver \/ ReadFails
    PROVE  StopInv'
<1>1. UNCHANGED <<config, pc, seen, outcome, wire, launch, target, stops>>
  BY DEF Deliver, ReadFails, callVars, adapterVars
<1>2. stream \in Seq(Messages) /\ inbox \in Seq(Messages)
  BY DEF TypeInv, LinkType
<1>3. /\ \A M : /\ NoneComes(M) => Free(inbox', M) /\ Free(stream', M)
                /\ OneComes(M) => /\ Once(inbox', M) /\ Once(stream', M)
                                  /\ Free(inbox', M) \/ Free(stream', M)
                /\ Free(stream, M) => Free(stream', M)
      /\ StopFirst(stream) => StopFirst(stream')
      /\ StopFirst(stream) /\ (~Free(inbox, Done) => Free(stream, StopMessages))
           => (~Free(inbox', Done) => Free(stream', StopMessages))
  <2>1. CASE Deliver
    <3>1. /\ stream # <<>> /\ stream' = Tail(stream) /\ inbox' = Append(inbox, Head(stream))
      BY <2>1 DEF Deliver
    <3>2. Head(stream) = stream[1] /\ Head(stream) \in Messages
      BY <1>2, <3>1, Passing
    <3>3. ASSUME NEW M
          PROVE  /\ Free(stream, M) => Free(stream', M) /\ Head(stream) \notin M
                 /\ Once(stream, M) => Once(stream', M)
                 /\ Once(stream, M) /\ Head(stream) \in M => Free(stream', M)
                 /\ Free(inbox, M) /\ Head(stream) \notin M => Free(inbox', M)
                 /\ Once(inbox, M) /\ (Head(stream) \notin M \/ Free(inbox, M)) => Once(inbox', M)
                 /\ ~Free(inbox', M) => ~Free(inbox, M) \/ Head(stream) \in M
      BY <1>2, <3>1, <3>2, Passing, Adding
    <3>4. ASSUME NEW M, OneComes(M)
          PROVE  Once(inbox', M) /\ Once(stream', M) /\ (Free(inbox', M) \/ Free(stream', M))
      <4>1. Head(stream) \in M => ~Free(stream, M)
        BY <3>3
      <4> QED
        BY <3>3, <3>4, <4>1 DEF OneComes
    <3>5. /\ Len(stream) \in Nat /\ Len(stream') = Len(stream) - 1 /\ 1 \in 1..Len(stream)
          /\ \A i \in 1..Len(stream') : stream'[i] = stream[i + 1] /\ i + 1 \in 1..Len(stream)
      BY <1>2, <3>1, HeadTailProperties, LenProperties, EmptySeq
    <3>6. StopFirst(stream) => StopFirst(stream')
      <4>1. \A i, j \in 1..Len(stream') : i + 1 < j + 1 => i < j
        BY <3>5
      <4> QED
        BY <3>5, <4>1 DEF StopFirst
    <3>7. StopFirst(stream) /\ Head(stream) \in Done => Free(stream, StopMessages)
      <4>1. \A i \in 1..Len(stream) : ~(i < 1)
        BY <3>5
      <4> QED
        BY <3>2, <3>5, <4>1 DEF StopFirst, Free
    <3> QED
      BY <3>3, <3>4, <3>6, <3>7 DEF NoneComes
  <2>2. CASE ReadFails
    <3>1. inbox' = inbox /\ stream' = <<>>
      BY <2>2 DEF ReadFails
    <3>2. (\A M : Free(<<>>, M) /\ Once(<<>>, M)) /\ StopFirst(<<>>)
      BY DEF Free, Once, StopFirst
    <3> QED
      BY <3>1, <3>2 DEF NoneComes, OneComes
  <2> QED
    BY <2>1, <2>2
<1>4. /\ EntryPath' = EntryPath /\ ToBreakpoint' = ToBreakpoint /\ Starter' = Starter
      /\ Unstarted' = Unstarted /\ LaunchAfterConfiguration' = LaunchAfterConfiguration
  BY <1>1, CalledWith
<1>5. StartedOnce' /\ Reported'
  BY <1>1, <1>4 DEF StopInv, StartedOnce, Reported
<1>6. LaunchedFirst'
  BY <1>1, <1>3, <1>4 DEF StopInv, LaunchedFirst, NoneComes
<1>7. OneStop'
  BY <1>1, <1>3 DEF StopInv, OneStop, NoneComes, OneComes
<1>8. Latest'
  BY <1>1, <1>3, StillLatest DEF StopInv
<1>9. EntryStop'
  BY <1>1, <1>3, <1>4 DEF StopInv, EntryStop, NoneComes, OneComes
<1> QED
  BY <1>5, <1>6, <1>7, <1>8, <1>9 DEF StopInv

LEMMA StopStep == StopInv /\ TypeInv /\ [Next]_vars => StopInv'
<1> SUFFICES ASSUME StopInv, TypeInv, [Next]_vars PROVE StopInv'
  OBVIOUS
<1>1. CASE SpawnStep \/ ScanStep \/ ChildStep \/ ClientEnded \/ UNCHANGED vars
  <2>1. UNCHANGED <<config, adapterVars, stream, wire, inbox, pc, seen, outcome>>
    BY <1>1 DEF SpawnStep, ScanStep, ChildStep, NoHandshakeStep, ClientEnded, vars, callVars,
          loopVars, linkVars
  <2> QED
    BY <2>1, NothingMoves
<1>2. CASE Connect \/ InitializeAnswered \/ LaunchAnsweredFirst \/ InitializedEvent
           \/ BreakpointsSet \/ ConfigurationAnswered
  BY <1>2, HandshakeSteps
<1>3. CASE ResponseTaken \/ StopTaken \/ LaunchAnswered \/ AtEntryStop
  BY <1>3, ExecutionSteps
<1>4. CASE SpawnFailed \/ ConnectFails \/ WaitFails \/ Cancel \/ Refused
           \/ TerminatedTaken \/ StackRead \/ CleanUp
  BY <1>4, EndSteps
<1>5. CASE Deliver \/ ReadFails
  BY <1>5, LoopMoves
<1>6. CASE Serve
  BY <1>6, QuietSteps, LaunchServed, ContinueServed, ConfigurationServed DEF Serve
<1>7. CASE TargetStops \/ TargetTerminates \/ AdapterExits
  BY <1>7, TargetSteps
<1> QED
  BY <1>1, <1>2, <1>3, <1>4, <1>5, <1>6, <1>7 DEF Next, DebugStep, LoopStep

\* A stop that debug reports is the last one of a debuggee whose launch was accepted, and
\* a debug called to reach its breakpoints reports neither the entry stop nor the stop of
\* the attach (tools_execution.go:580-630).
THEOREM ReportsLatestStop == Spec => []ReportsItsStop
<1>1. StopInv /\ TypeInv => ReportsItsStop
  <2> SUFFICES ASSUME StopInv, TypeInv, outcome = "stopped"
               PROVE  /\ launch = "accepted" /\ seen.stop.stop = stops
                      /\ ToBreakpoint => seen.stop.reason = "breakpoint"
    BY DEF ReportsItsStop, ToBreakpoint
  <2>1. seen.stop # NoStop
    BY DEF StopInv, Reported
  <2>2. target # "none" /\ seen.stop.stop = stops
    BY <2>1 DEF StopInv, OneStop
  <2> QED
    BY <2>1, <2>2 DEF StopInv, LaunchedFirst, Reported
<1>2. Init => StopInv
  BY StopInit
<1> QED
  BY <1>1, <1>2, StopStep, TypeInit, TypeStep, PTL DEF Spec

\* debug leaves no stopped event behind that a later continue would take for its own stop,
\* although at Delve's entry it takes the stop without waiting for it
\* (tools_execution.go:635-671).
THEOREM LeavesNoStop == Spec => []NoStopLeftBehind
<1>1. StopInv /\ TypeInv => NoStopLeftBehind
  <2> SUFFICES ASSUME StopInv, TypeInv, outcome \in {"stopped", "entry"},
                      NEW i \in 1..Len(inbox \o stream)
               PROVE  (inbox \o stream)[i].type # "stopped"
    BY DEF NoStopLeftBehind
  <2>1. inbox \in Seq(Messages) /\ stream \in Seq(Messages)
    BY DEF TypeInv, LinkType
  <2>2. NoneComes(StopMessages)
    BY DEF StopInv, Reported, OneStop, EntryStop
  <2>3. (inbox \o stream)[i] \in Messages /\ (inbox \o stream)[i] \notin StopMessages
    <3>1. /\ Len(inbox) \in Nat /\ Len(stream) \in Nat
          /\ Len(inbox \o stream) = Len(inbox) + Len(stream)
          /\ (inbox \o stream)[i] = IF i <= Len(inbox) THEN inbox[i] ELSE stream[i - Len(inbox)]
      BY <2>1, ConcatProperties, LenProperties
    <3>2. CASE i <= Len(inbox)
      <4>1. i \in 1..Len(inbox) /\ (inbox \o stream)[i] = inbox[i]
        BY <3>1, <3>2
      <4> QED
        BY <2>1, <2>2, <4>1, ElementOfSeq DEF NoneComes, Free
    <3>3. CASE ~(i <= Len(inbox))
      <4>1. i - Len(inbox) \in 1..Len(stream) /\ (inbox \o stream)[i] = stream[i - Len(inbox)]
        BY <3>1, <3>3
      <4> QED
        BY <2>1, <2>2, <4>1, ElementOfSeq DEF NoneComes, Free
    <3> QED
      BY <3>2, <3>3
  <2> QED
    BY <2>3 DEF StopMessages
<1> QED
  BY <1>1, StopInit, StopStep, TypeInit, TypeStep, PTL DEF Spec
==============================================================================
