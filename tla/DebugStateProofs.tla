--------------------------- MODULE DebugStateProofs ---------------------------
(***************************************************************************)
(* Theorems about DebugState, for any number of sessions, stops, requests  *)
(* and concurrent resume calls.                                            *)
(***************************************************************************)
EXTENDS DebugState, SequenceTheorems, TLAPS

\* The control tools see the client of the session, whose number is the published
\* generation once there is one; the clients closed are those before it.
Lifetime ==
    /\ control = client
    /\ pub.gen \in {0, client}
    /\ phase \in {"none", "replaced"} => client = 0
    /\ phase \in {"connected", "adopted", "live"} => client \in Clients
    /\ phase \in {"none", "connected", "replaced"} => pub.gen = 0
    /\ phase \in {"adopted", "live"} => pub.gen = client
    /\ client # 0 => \A d \in Clients : closed[d] <=> d < client

\* A resume call that has passed its checks goes to the client whose generation it
\* was given.
Resuming ==
    \A r \in Resumers :
        resumer[r].pc = "checked" => /\ resumer[r].client \in Clients
                                     /\ resumer[r].asked \in {0, resumer[r].client}

TypeInv == TypeOK /\ Lifetime /\ Resuming

LEMMA TypeInit == Init => TypeInv
<1> SUFFICES ASSUME Init PROVE TypeInv
  OBVIOUS
<1> USE StateAssumption DEF StateAssumption, Init
<1>1. SessionType
  BY DEF SessionType
<1>2. pub \in PubType
  BY DEF PubType, NoSession, States
<1>3. ResumeType
  BY DEF ResumeType, Idle
<1>4. FeedType
  BY DEF FeedType
<1>5. AdapterType
  <2>1. wire \in [Clients -> Seq(Request)] /\ stream \in [Clients -> Seq(Message)]
    BY EmptySeq
  <2>2. stops \in [Clients -> 0..MaxStops]
    OBVIOUS
  <2>3. QED
    BY <2>1, <2>2 DEF AdapterType
<1>6. Lifetime
  BY DEF Lifetime, NoSession
<1>7. Resuming
  BY DEF Resuming, Idle
<1> QED
  BY <1>1, <1>2, <1>3, <1>4, <1>5, <1>6, <1>7 DEF TypeInv, TypeOK

\* What the messages, the requests and the published state are made of.
LEMMA EventType ==
    ASSUME NEW type \in {"stopped", "continued", "terminated"}, NEW n \in Nat
    PROVE  Event(type, n) \in Message
BY StateAssumption DEF StateAssumption, Event, Message

LEMMA CaptureType ==
    ASSUME TypeOK, NEW c \in Clients, NEW asked \in 0..MaxSessions
    PROVE  Capture(c, asked) \in Request /\ Capture(c, asked).asked = asked
BY StateAssumption
   DEF StateAssumption, TypeOK, PubType, Capture, Request, NoRequest, Clients

\* Changing the state, the sequence number and the stop keeps the generation.
Updated(st, e) == [pub EXCEPT !.seq = pub.seq + 1, !.state = st, !.episode = e]

LEMMA UpdatedType ==
    ASSUME pub \in PubType, NEW st \in States, NEW e \in Nat
    PROVE  /\ Updated(st, e) \in PubType
           /\ Updated(st, e).gen = pub.gen
           /\ Updated(st, e).seq = pub.seq + 1
<1> DEFINE n == pub.seq + 1
<1>1. n \in Nat
  BY DEF PubType
<1>2. Updated(st, e) = [pub EXCEPT !.seq = n, !.state = st, !.episode = e]
  BY DEF Updated
<1> HIDE DEF n
<1>3. Updated(st, e) \in PubType /\ Updated(st, e).gen = pub.gen /\ Updated(st, e).seq = n
  BY <1>1, <1>2 DEF PubType
<1>4. QED
  BY <1>3 DEF n

LEMMA FoldType ==
    ASSUME pub \in PubType, NEW m, m.type \in {"stopped", "continued", "terminated"}
    PROVE  Fold(m) \in PubType /\ Fold(m).gen = pub.gen /\ Fold(m).seq = pub.seq + 1
<1>1. pub.episode \in Nat /\ pub.episode + 1 \in Nat
  BY DEF PubType
<1>2. CASE m.type = "stopped"
  <2>1. Fold(m) = Updated("stopped", pub.episode + 1)
    BY <1>2 DEF Fold, PubType, Updated
  <2>2. "stopped" \in States
    BY DEF States
  <2>3. QED
    BY <1>1, <2>1, <2>2, UpdatedType
<1>3. CASE m.type = "continued"
  <2>1. Fold(m) = Updated("running", pub.episode)
    BY <1>3 DEF Fold, PubType, Updated
  <2>2. "running" \in States
    BY DEF States
  <2>3. QED
    BY <1>1, <2>1, <2>2, UpdatedType
<1>4. CASE m.type = "terminated"
  <2>1. Fold(m) = Updated("ended", pub.episode)
    BY <1>4 DEF Fold, PubType, Updated
  <2>2. "ended" \in States
    BY DEF States
  <2>3. QED
    BY <1>1, <2>1, <2>2, UpdatedType
<1> QED
  BY <1>2, <1>3, <1>4

LEMMA AcknowledgedType ==
    ASSUME pub \in PubType
    PROVE  /\ Acknowledged \in PubType
           /\ Acknowledged.gen = pub.gen
           /\ Acknowledged.seq = pub.seq + 1
<1>1. pub.episode \in Nat /\ "running" \in States
  BY DEF PubType, States
<1>2. Acknowledged = Updated("running", pub.episode)
  BY DEF Acknowledged, PubType, Updated
<1>3. QED
  BY <1>1, <1>2, UpdatedType

LEMMA SendType ==
    ASSUME TypeOK, NEW c \in Clients, NEW asked \in 0..MaxSessions, Send(c, asked)
    PROVE  sent' \in 0..MaxRequests /\ AdapterType'
<1>1. sent' \in 0..MaxRequests
  BY StateAssumption DEF StateAssumption, Send, TypeOK, ResumeType
<1>2. Append(wire[c], Capture(c, asked)) \in Seq(Request)
  BY CaptureType, AppendProperties DEF TypeOK, AdapterType
<1>3. wire' \in [Clients -> Seq(Request)]
  BY <1>2 DEF Send, TypeOK, AdapterType
<1> QED
  BY <1>1, <1>3 DEF Send, TypeOK, AdapterType

LEMMA TypeStep == TypeInv /\ [Next]_vars => TypeInv'
<1> SUFFICES ASSUME TypeInv, [Next]_vars PROVE TypeInv'
  OBVIOUS
<1> USE StateAssumption DEF StateAssumption, TypeInv, TypeOK, Resuming
<1>1. CASE Connect
  <2>1. SessionType'
    BY <1>1 DEF Connect, SessionType, Clients
  <2>2. Lifetime'
    BY <1>1 DEF Connect, Lifetime, SessionType, PubType
  <2>3. QED
    BY <1>1, <2>1, <2>2
       DEF Connect, ResumeType, FeedType, AdapterType, adapterVars
<1>2. CASE Adopt
  <2>1. SessionType'
    BY <1>2 DEF Adopt, SessionType
  <2>2. pub' \in PubType
    BY <1>2 DEF Adopt, PubType, States, SessionType
  <2>3. Lifetime'
    BY <1>2 DEF Adopt, Lifetime, SessionType, PubType
  <2>4. QED
    BY <1>2, <2>1, <2>2, <2>3
       DEF Adopt, ResumeType, FeedType, AdapterType, adapterVars
<1>3. CASE Install
  <2>1. SessionType'
    BY <1>3 DEF Install, SessionType
  <2>2. Lifetime'
    BY <1>3 DEF Install, Lifetime, SessionType, PubType
  <2>3. QED
    BY <1>3, <2>1, <2>2
       DEF Install, ResumeType, FeedType, AdapterType, adapterVars
<1>4. CASE ClearHandlers
  <2>1. SessionType'
    BY <1>4 DEF ClearHandlers, SessionType
  <2>2. Lifetime'
    BY <1>4 DEF ClearHandlers, Lifetime, SessionType, PubType
  <2>3. QED
    BY <1>4, <2>1, <2>2
       DEF ClearHandlers, ResumeType, FeedType, AdapterType, adapterVars
<1>5. CASE Replace
  <2>1. SessionType'
    BY <1>5 DEF Replace, SessionType
  <2>2. pub' \in PubType
    BY <1>5 DEF Replace, PubType, States, NoSession
  <2>3. Lifetime'
    BY <1>5 DEF Replace, Lifetime, NoSession
  <2>4. QED
    BY <1>5, <2>1, <2>2, <2>3
       DEF Replace, ResumeType, FeedType, AdapterType, adapterVars
<1>6. CASE Shutdown
  <2>1. SessionType'
    BY <1>6 DEF Shutdown, SessionType
  <2>2. Lifetime'
    BY <1>6 DEF Shutdown, Lifetime, SessionType, PubType
  <2>3. QED
    BY <1>6, <2>1, <2>2
       DEF Shutdown, ResumeType, FeedType, AdapterType, adapterVars
<1>7. CASE Execute
  <2>1. ResumeType'
    BY <1>7, SendType DEF Execute, ResumeType, Lifetime
  <2>2. AdapterType'
    BY <1>7, SendType DEF Execute, Lifetime
  <2>3. QED
    BY <1>7, <2>1, <2>2
       DEF Execute, Send, SessionType, FeedType, Lifetime, sessionVars
<1>8. ASSUME NEW r \in Resumers, NEW asked \in 0..MaxSessions, Snapshot(r, asked) PROVE TypeInv'
  <2>1. ResumeType'
    BY <1>8 DEF Snapshot, ResumeType, SessionType
  <2>2. control \in Clients /\ asked \in {0, control}
    BY <1>8 DEF Snapshot, SessionType, Lifetime, Clients
  <2>3. Resuming'
    BY <1>8, <2>2 DEF Snapshot, ResumeType
  <2>4. QED
    BY <1>8, <2>1, <2>3
       DEF Snapshot, SessionType, FeedType, AdapterType, Lifetime, adapterVars, sessionVars
<1>9. ASSUME NEW r \in Resumers, Resume(r) PROVE TypeInv'
  <2>1. /\ resumer[r].client \in Clients
        /\ resumer[r].asked \in 0..MaxSessions
    BY <1>9 DEF Resume, ResumeType
  <2>2. resumer' \in [Resumers -> [pc : {"idle", "checked"}, client : 0..MaxSessions,
                                   asked : 0..MaxSessions]]
    BY <1>9 DEF Resume, ResumeType, Idle
  <2>3. sent' \in 0..MaxRequests /\ AdapterType'
    <3>1. CASE UNCHANGED <<sent, adapterVars>>
      BY <3>1 DEF adapterVars, AdapterType, ResumeType
    <3>2. CASE Send(ResumedClient(r), resumer[r].asked)
      BY <2>1, <3>2, SendType DEF ResumedClient
    <3>3. QED
      BY <1>9, <3>1, <3>2 DEF Resume
  <2>4. Resuming'
    BY <1>9 DEF Resume, ResumeType, Idle
  <2>5. QED
    BY <1>9, <2>2, <2>3, <2>4 DEF Resume, SessionType, FeedType, ResumeType, Lifetime, sessionVars
<1>10. ASSUME NEW c \in Clients, Read(c) PROVE TypeInv'
  <2>1. FeedType'
    BY <1>10, HeadTailProperties DEF Read, FeedType, AdapterType
  <2>2. AdapterType'
    BY <1>10, HeadTailProperties DEF Read, AdapterType
  <2>3. QED
    BY <1>10, <2>1, <2>2
       DEF Read, SessionType, ResumeType, Lifetime, sessionVars
<1>11. ASSUME NEW c \in Clients, Observe(c) PROVE TypeInv'
  <2>1. pub' \in PubType
    BY <1>11, FoldType DEF Observe
  <2>2. FeedType'
    BY <1>11 DEF Observe, FeedType
  <2>3. Lifetime'
    BY <1>11, FoldType DEF Observe, Lifetime, sessionVars
  <2>4. QED
    BY <1>11, <2>1, <2>2, <2>3
       DEF Observe, SessionType, ResumeType, AdapterType, adapterVars, sessionVars
<1>12. ASSUME NEW c \in Clients, RunAck(c) PROVE TypeInv'
  <2>1. pub' \in PubType
    BY <1>12, AcknowledgedType DEF RunAck
  <2>2. FeedType'
    BY <1>12 DEF RunAck, FeedType
  <2>3. Lifetime'
    BY <1>12, AcknowledgedType DEF RunAck, Lifetime, sessionVars
  <2>4. QED
    BY <1>12, <2>1, <2>2, <2>3
       DEF RunAck, SessionType, ResumeType, AdapterType, adapterVars, sessionVars
<1>13. ASSUME NEW c \in Clients, Stop(c) PROVE TypeInv'
  <2>1. AdapterType'
    <3>1. stops[c] + 1 \in 0..MaxStops
      BY <1>13 DEF Stop, AdapterType
    <3>2. Append(stream[c], Event("stopped", stops[c] + 1)) \in Seq(Message)
      BY <3>1, EventType, AppendProperties DEF AdapterType
    <3>3. QED
      BY <1>13, <3>1, <3>2 DEF Stop, AdapterType
  <2>2. QED
    BY <1>13, <2>1
       DEF Stop, SessionType, ResumeType, FeedType, Lifetime, sessionVars
<1>14. ASSUME NEW c \in Clients, CarryOut(c) PROVE TypeInv'
  <2>1. AdapterType'
    <3>1. Append(stream[c], Event("continued", stops[c])) \in Seq(Message)
      BY EventType, AppendProperties DEF AdapterType
    <3>2. /\ stream' \in [Clients -> Seq(Message)]
          /\ target' \in [Clients -> {"running", "stopped", "ended"}]
          /\ stops' \in [Clients -> 0..MaxStops]
      BY <1>14, <3>1 DEF CarryOut, AdapterType
    <3>3. Head(wire[c]) \in Request /\ Tail(wire[c]) \in Seq(Request)
      BY <1>14, HeadTailProperties DEF CarryOut, AdapterType
    <3>4. wire' \in [Clients -> Seq(Request)]
      BY <1>14, <3>3 DEF CarryOut, AdapterType
    <3>5. [type |-> "response", stop |-> stops[c], gen |-> Head(wire[c]).gen,
           episode |-> Head(wire[c]).episode] \in Message
      BY <3>3 DEF Request, Message, AdapterType
    <3>6. owed' \in [Clients -> Message \union {NoMessage}]
      BY <1>14, <3>5 DEF CarryOut, AdapterType
    <3>7. overtaken' \in [Clients -> BOOLEAN]
      BY <1>14 DEF CarryOut, AdapterType
    <3>8. QED
      BY <3>2, <3>4, <3>6, <3>7 DEF AdapterType
  <2>2. QED
    BY <1>14, <2>1
       DEF CarryOut, SessionType, ResumeType, FeedType, Lifetime, sessionVars
<1>15. ASSUME NEW c \in Clients, Refuse(c) PROVE TypeInv'
  <2>1. AdapterType'
    BY <1>15, HeadTailProperties DEF Refuse, AdapterType
  <2>2. QED
    BY <1>15, <2>1
       DEF Refuse, SessionType, ResumeType, FeedType, Lifetime, sessionVars
<1>16. ASSUME NEW c \in Clients, Respond(c) PROVE TypeInv'
  <2>1. AdapterType'
    BY <1>16, AppendProperties DEF Respond, AdapterType
  <2>2. QED
    BY <1>16, <2>1
       DEF Respond, SessionType, ResumeType, FeedType, Lifetime, sessionVars
<1>17. ASSUME NEW c \in Clients, Terminate(c) PROVE TypeInv'
  <2>1. AdapterType'
    <3>1. Append(stream[c], Event("terminated", stops[c])) \in Seq(Message)
      BY EventType, AppendProperties DEF AdapterType
    <3>2. QED
      BY <1>17, <3>1 DEF Terminate, AdapterType
  <2>2. QED
    BY <1>17, <2>1
       DEF Terminate, SessionType, ResumeType, FeedType, Lifetime, sessionVars
<1>18. CASE UNCHANGED vars
  BY <1>18 DEF vars, sessionVars, adapterVars, SessionType, ResumeType, FeedType, AdapterType, Lifetime
<1> QED
  BY <1>1, <1>2, <1>3, <1>4, <1>5, <1>6, <1>7, <1>8, <1>9, <1>10, <1>11, <1>12,
     <1>13, <1>14, <1>15, <1>16, <1>17, <1>18
     DEF Next, Lifecycle, ReadLoop, Adapter

\* The published state and everything it is made from always have their types.
THEOREM TypeCorrect == Spec => []TypeOK
<1>1. TypeInv => TypeOK
  BY DEF TypeInv
<1>2. QED
  BY <1>1, TypeInit, TypeStep, PTL DEF Spec

LEMMA Typed == Spec => []TypeInv
BY TypeInit, TypeStep, PTL DEF Spec

------------------------------------------------------------------------------
(* The requests of resume.                                                  *)

LEMMA ResumeInit == Init => ResumeKeepsItsSession
BY DEF Init, ResumeKeepsItsSession

LEMMA ResumeStep ==
    TypeInv /\ ResumeKeepsItsSession /\ [Next]_vars => ResumeKeepsItsSession'
<1> SUFFICES ASSUME TypeInv, ResumeKeepsItsSession, [Next]_vars
             PROVE  ResumeKeepsItsSession'
  OBVIOUS
<1>0. wire \in [Clients -> Seq(Request)]
  BY DEF TypeInv, TypeOK, AdapterType
<1>1. ASSUME NEW c \in Clients, NEW asked \in {0, c}, asked \in 0..MaxSessions, Send(c, asked)
      PROVE  ResumeKeepsItsSession'
  <2>1. Capture(c, asked) \in Request /\ Capture(c, asked).asked = asked
    BY <1>1, CaptureType DEF TypeInv
  <2>2. wire' = [wire EXCEPT ![c] = Append(wire[c], Capture(c, asked))]
    BY <1>1 DEF Send
  <2>3. ASSUME NEW d \in Clients, NEW i \in 1..Len(wire'[d]) PROVE wire'[d][i].asked \in {0, d}
    <3>1. CASE d # c
      BY <1>0, <2>2, <3>1 DEF ResumeKeepsItsSession
    <3>2. CASE d = c
      <4>1. /\ wire'[c] = Append(wire[c], Capture(c, asked))
            /\ wire[c] \in Seq(Request) /\ Len(wire[c]) \in Nat
        BY <1>0, <2>2, LenProperties
      <4>2. /\ Len(wire'[c]) = Len(wire[c]) + 1
            /\ \A k \in 1..Len(wire[c]) : wire'[c][k] = wire[c][k]
            /\ wire'[c][Len(wire[c]) + 1] = Capture(c, asked)
        BY <2>1, <4>1, AppendProperties
      <4>3. i \in 1..Len(wire[c]) \/ i = Len(wire[c]) + 1
        BY <3>2, <4>1, <4>2
      <4>4. QED
        BY <2>1, <3>2, <4>2, <4>3 DEF ResumeKeepsItsSession
    <3>3. QED
      BY <3>1, <3>2
  <2>4. QED
    BY <2>3 DEF ResumeKeepsItsSession
<1>2. CASE Execute
  BY <1>1, <1>2, StateAssumption
     DEF Execute, StateAssumption, TypeInv, Lifetime
<1>3. ASSUME NEW r \in Resumers, Resume(r) PROVE ResumeKeepsItsSession'
  <2>1. CASE UNCHANGED <<sent, adapterVars>>
    BY <2>1 DEF adapterVars, ResumeKeepsItsSession
  <2>2. CASE Send(resumer[r].client, resumer[r].asked)
    <3>1. /\ resumer[r].client \in Clients
          /\ resumer[r].asked \in {0, resumer[r].client}
          /\ resumer[r].asked \in 0..MaxSessions
      BY <1>3 DEF Resume, TypeInv, TypeOK, Resuming, ResumeType
    <3>2. QED
      BY <1>1, <2>2, <3>1
  <2>3. QED
    BY <1>3, <2>1, <2>2 DEF Resume, ResumedClient
<1>4. ASSUME NEW c \in Clients, CarryOut(c) \/ Refuse(c) PROVE ResumeKeepsItsSession'
  <2>1. wire[c] # <<>> /\ wire' = [wire EXCEPT ![c] = Tail(wire[c])]
    BY <1>4 DEF CarryOut, Refuse
  <2>2. ASSUME NEW d \in Clients, NEW i \in 1..Len(wire'[d]) PROVE wire'[d][i].asked \in {0, d}
    <3>1. CASE d # c
      BY <1>0, <2>1, <3>1 DEF ResumeKeepsItsSession
    <3>2. CASE d = c
      <4>1. /\ wire[c] \in Seq(Request) /\ Len(wire[c]) \in Nat
            /\ wire'[c] = Tail(wire[c])
        BY <1>0, <2>1, LenProperties
      <4>2. /\ Len(wire'[c]) = Len(wire[c]) - 1
            /\ \A k \in 1..Len(wire'[c]) : wire'[c][k] = wire[c][k + 1]
        BY <2>1, <4>1, HeadTailProperties
      <4>3. i + 1 \in 1..Len(wire[c])
        BY <3>2, <4>1, <4>2
      <4>4. QED
        BY <3>2, <4>2, <4>3 DEF ResumeKeepsItsSession
    <3>3. QED
      BY <3>1, <3>2
  <2>3. QED
    BY <2>2 DEF ResumeKeepsItsSession
<1>5. CASE UNCHANGED wire
  BY <1>5 DEF ResumeKeepsItsSession
<1> QED
  BY <1>2, <1>3, <1>4, <1>5
     DEF Next, Lifecycle, ReadLoop, Adapter, Connect, Adopt, Install, ClearHandlers, Replace,
         Shutdown, Snapshot, Read, Observe, RunAck, Stop, Respond, Terminate, vars, adapterVars

\* What resume sends with a generation reaches the client of that generation and
\* no other, however the session is replaced after the snapshot.
THEOREM ResumeReachesItsSession == Spec => []ResumeKeepsItsSession
BY Typed, ResumeInit, ResumeStep, PTL DEF Spec

------------------------------------------------------------------------------
(* The order of the feed.                                                   *)

\* Within a generation every change of the published state takes a larger sequence
\* number, and a new generation is larger than every one before it.
THEOREM FeedIsOrdered == Spec => FeedOrder
<1> DEFINE Step == \/ pub' = NoSession
                   \/ pub.gen = 0 /\ pub'.gen > 0 /\ \A c \in Clients : closed[c] => pub'.gen > c
                   \/ pub'.gen = pub.gen /\ pub'.seq > pub.seq
<1>1. TypeInv /\ [Next]_vars => [Step]_pub
  <2> SUFFICES ASSUME TypeInv, [Next]_vars PROVE [Step]_pub
    OBVIOUS
  <2>0. pub \in PubType /\ pub.seq \in Nat
    BY DEF TypeInv, TypeOK, PubType
  <2>1. CASE Adopt
    <3>1. PICK mode \in {"source", "core"} :
            pub' = [pub EXCEPT !.gen = client, !.mode = mode, !.state = "unknown"]
      BY <2>1 DEF Adopt
    <3>2. pub'.gen = client /\ pub'.seq = pub.seq
      BY <2>0, <3>1 DEF PubType
    <3>3. client \in Clients /\ \A d \in Clients : closed[d] <=> d < client
      BY <2>1, StateAssumption DEF StateAssumption, Adopt, TypeInv, Lifetime, Clients
    <3>4. pub.gen = 0
      BY <2>1 DEF Adopt, TypeInv, Lifetime
    <3>5. QED
      BY <3>2, <3>3, <3>4, StateAssumption DEF StateAssumption, Clients
  <2>2. CASE Replace
    BY <2>2 DEF Replace
  <2>3. ASSUME NEW c \in Clients, Observe(c) PROVE [Step]_pub
    BY <2>0, <2>3, FoldType DEF Observe
  <2>4. ASSUME NEW c \in Clients, RunAck(c) PROVE [Step]_pub
    BY <2>0, <2>4, AcknowledgedType DEF RunAck
  <2>5. CASE UNCHANGED pub
    BY <2>5
  <2> QED
    BY <2>1, <2>2, <2>3, <2>4, <2>5
       DEF Next, Lifecycle, ReadLoop, Adapter, Connect, Install, ClearHandlers, Shutdown,
           Execute, Snapshot, Resume, Read, Stop, CarryOut, Refuse, Respond, Terminate, vars
<1>2. QED
  BY <1>1, Typed, PTL DEF Spec, FeedOrder

------------------------------------------------------------------------------
(* Running is never published for a stop already shown.                     *)

\* The stop the published state has reached, as far as it is about client c.
Shown(c) == IF pub.gen = c THEN pub.episode ELSE 0

\* What a message of client c under way may still do to the state: it is about a stop
\* that is not shown yet, or about a continuation of one that is over.
Ahead(c, m) ==
    /\ m.type = "stopped" => Shown(c) < m.stop /\ m.stop <= stops[c]
    /\ m.type = "continued" => /\ Shown(c) <= m.stop /\ m.stop <= stops[c]
                               /\ target[c] = "stopped" => m.stop < stops[c]
    /\ m.type = "response" /\ m.gen # 0 => /\ m.gen = c /\ m.episode <= stops[c]
                                           /\ target[c] = "stopped" => m.episode < stops[c]

\* m comes before n.
Apart(m, n) == m.type = "stopped" => /\ n.type = "stopped" => m.stop < n.stop
                                     /\ n.type = "continued" => m.stop <= n.stop

UnderWay(c) ==
    /\ Ahead(c, hand[c]) /\ Ahead(c, owed[c]) /\ owed[c].type \in {"response", "none"}
    /\ hand[c].type = "response" => hand[c].gen # 0
    /\ \A i \in 1..Len(stream[c]) : Ahead(c, stream[c][i]) /\ Apart(hand[c], stream[c][i])
    /\ \A i, j \in 1..Len(stream[c]) : i < j => Apart(stream[c][i], stream[c][j])
    /\ \A i \in 1..Len(wire[c]) :
          wire[c][i].gen # 0 => wire[c][i].gen = c /\ wire[c][i].episode <= stops[c]

Published(c) ==
    /\ Shown(c) <= stops[c]
    /\ pub.gen = c /\ pub.state = "running" /\ target[c] = "stopped" => Shown(c) < stops[c]

FeedInv ==
    /\ pub.gen = 0 => pub.episode = 0
    /\ \A c \in Clients : UnderWay(c) /\ Published(c)

LEMMA FeedTypes ==
    ASSUME TypeInv, NEW c \in Clients
    PROVE  /\ stream[c] \in Seq(Message) /\ Len(stream[c]) \in Nat
           /\ \A i \in 1..Len(stream[c]) :
                 /\ stream[c][i] \in Message
                 /\ stream[c][i].stop \in Nat /\ stream[c][i].episode \in Nat
           /\ wire[c] \in Seq(Request) /\ Len(wire[c]) \in Nat
           /\ \A i \in 1..Len(wire[c]) : wire[c][i] \in Request /\ wire[c][i].episode \in Nat
           /\ hand[c].stop \in Nat /\ hand[c].episode \in Nat
           /\ owed[c].stop \in Nat /\ owed[c].episode \in Nat
           /\ stops[c] \in Nat /\ Shown(c) \in Nat /\ pub.episode \in Nat
           /\ c # 0 /\ pub.gen \in Nat
<1>1. /\ stream[c] \in Seq(Message) /\ wire[c] \in Seq(Request)
      /\ hand[c] \in Message \union {NoMessage} /\ owed[c] \in Message \union {NoMessage}
      /\ stops[c] \in 0..MaxStops /\ pub \in PubType
  BY DEF TypeInv, TypeOK, FeedType, AdapterType
<1>2. \A m \in Message \union {NoMessage} : m.stop \in Nat /\ m.episode \in Nat
  BY DEF Message, NoMessage
<1>3. \A q \in Request : q.episode \in Nat
  BY DEF Request
<1>4. pub.episode \in Nat /\ pub.gen \in Nat
  BY <1>1, StateAssumption DEF StateAssumption, PubType
<1>5. /\ \A i \in 1..Len(stream[c]) : stream[c][i] \in Message
      /\ \A i \in 1..Len(wire[c]) : wire[c][i] \in Request
      /\ Len(stream[c]) \in Nat /\ Len(wire[c]) \in Nat
  BY <1>1, ElementOfSeq, LenProperties
<1>6. Shown(c) \in Nat
  BY <1>4 DEF Shown
<1>7. /\ \A i \in 1..Len(stream[c]) :
            /\ stream[c][i] \in Message
            /\ stream[c][i].stop \in Nat /\ stream[c][i].episode \in Nat
      /\ \A i \in 1..Len(wire[c]) : wire[c][i] \in Request /\ wire[c][i].episode \in Nat
  BY <1>2, <1>3, <1>5
<1>8. /\ hand[c].stop \in Nat /\ hand[c].episode \in Nat
      /\ owed[c].stop \in Nat /\ owed[c].episode \in Nat
  BY <1>1, <1>2
<1>9. stops[c] \in Nat /\ c # 0
  BY <1>1, StateAssumption DEF StateAssumption, Clients
<1> QED
  BY <1>1, <1>4, <1>5, <1>6, <1>7, <1>8, <1>9

LEMMA FeedInit == Init => FeedInv
<1> SUFFICES ASSUME Init PROVE FeedInv
  OBVIOUS
<1>1. \A c \in Clients : Len(stream[c]) = 0 /\ Len(wire[c]) = 0 /\ stops[c] = 0 /\ Shown(c) = 0
  BY DEF Init, Shown, NoSession
<1>2. \A c \in Clients : Ahead(c, NoMessage)
  BY DEF Ahead, NoMessage
<1> QED
  BY <1>1, <1>2 DEF Init, FeedInv, UnderWay, Published, NoSession, NoMessage

\* A client whose own part of the state stays, or which the published state leaves.
LEMMA Untouched ==
    ASSUME TypeInv, FeedInv, NEW c \in Clients,
           hand'[c] = hand[c], owed'[c] = owed[c], stream'[c] = stream[c], wire'[c] = wire[c],
           stops'[c] = stops[c], target'[c] = target[c],
           Shown(c)' \in Nat, Shown(c)' <= Shown(c),
           pub'.gen = c /\ pub'.state = "running" => pub' = pub
    PROVE  UnderWay(c)' /\ Published(c)'
<1>0. UnderWay(c) /\ Published(c)
  BY DEF FeedInv
<1>1. Shown(c) \in Nat /\ stops[c] \in Nat /\ hand[c].stop \in Nat /\ owed[c].stop \in Nat
      /\ \A i \in 1..Len(stream[c]) : stream[c][i].stop \in Nat
  BY FeedTypes
<1>2. \A m : m.stop \in Nat /\ Ahead(c, m) => Ahead(c, m)'
  BY <1>1 DEF Ahead
<1>3. Ahead(c, hand[c])' /\ Ahead(c, owed[c])'
  BY <1>0, <1>1, <1>2 DEF UnderWay, Ahead
<1>4. \A i \in 1..Len(stream[c]) : Ahead(c, stream[c][i])'
  BY <1>0, <1>1, <1>2 DEF UnderWay, Ahead
<1>5. UnderWay(c)'
  BY <1>0, <1>3, <1>4 DEF UnderWay, Ahead, Apart
<1>6. Published(c)'
  BY <1>0, <1>1 DEF Published, Shown
<1> QED
  BY <1>5, <1>6

\* An event appended to the stream: what it may do and what it comes after.
LEMMA Emits ==
    ASSUME TypeInv, FeedInv, NEW c \in Clients, NEW m \in Message,
           stream'[c] = Append(stream[c], m), hand'[c] = hand[c],
           Ahead(c, owed[c])', owed'[c].type \in {"response", "none"},
           \A i \in 1..Len(wire'[c]) : \E j \in 1..Len(wire[c]) : wire'[c][i] = wire[c][j],
           UNCHANGED pub,
           stops'[c] \in Nat, stops[c] <= stops'[c],
           target'[c] = "stopped" => stops[c] < stops'[c] \/ (target[c] = "stopped" /\ stops'[c] = stops[c]),
           Ahead(c, m)', m.type = "stopped" => m.stop > stops[c],
           m.type = "continued" => m.stop >= stops[c]
    PROVE  UnderWay(c)' /\ Published(c)'
<1>0. UnderWay(c) /\ Published(c)
  BY DEF FeedInv
<1>1. /\ stream[c] \in Seq(Message) /\ Len(stream[c]) \in Nat
      /\ \A i \in 1..Len(stream[c]) : stream[c][i].stop \in Nat /\ stream[c][i].episode \in Nat
      /\ hand[c].stop \in Nat /\ hand[c].episode \in Nat
      /\ owed[c].stop \in Nat /\ owed[c].episode \in Nat
      /\ stops[c] \in Nat /\ Shown(c) \in Nat /\ Shown(c)' = Shown(c)
  BY FeedTypes DEF Shown
<1>2. /\ Len(stream'[c]) = Len(stream[c]) + 1 /\ stream'[c][Len(stream[c]) + 1] = m
      /\ \A i \in 1..Len(stream[c]) : stream'[c][i] = stream[c][i]
      /\ \A i \in 1..Len(stream'[c]) : i \in 1..Len(stream[c]) \/ i = Len(stream[c]) + 1
  BY <1>1, AppendProperties
<1>3. \A n : n.stop \in Nat /\ n.episode \in Nat /\ Ahead(c, n)
               => Ahead(c, n)' /\ (n.type = "stopped" => n.stop <= stops[c])
  BY <1>1 DEF Ahead
<1>4. /\ m.stop \in Nat /\ Ahead(c, NoMessage)'
  BY DEF Message, Ahead, NoMessage
<1>5. Ahead(c, hand[c])'
  BY <1>0, <1>1, <1>3 DEF UnderWay, Ahead
<1>6. \A i \in 1..Len(stream[c]) :
         /\ Ahead(c, stream[c][i])' /\ Apart(hand[c], stream[c][i]) /\ Apart(stream[c][i], m)
  <2>1. ASSUME NEW i \in 1..Len(stream[c])
        PROVE  /\ Ahead(c, stream[c][i]) /\ stream[c][i].stop \in Nat
               /\ stream[c][i].episode \in Nat /\ stream'[c][i] = stream[c][i]
               /\ Apart(hand[c], stream[c][i])
    BY <1>0, <1>1, <1>2 DEF UnderWay
  <2>2. \A i \in 1..Len(stream[c]) : Ahead(c, stream[c][i])'
    BY <1>3, <2>1 DEF Ahead
  <2>3. \A i \in 1..Len(stream[c]) : Apart(stream[c][i], m)
    BY <1>1, <1>4, <2>1 DEF Apart, Ahead
  <2> QED
    BY <2>1, <2>2, <2>3
<1>7. Apart(hand[c], m)
  BY <1>0, <1>1, <1>3, <1>4 DEF UnderWay, Apart
<1>8. \A i \in 1..Len(stream'[c]) : Ahead(c, stream[c][i])' /\ Apart(hand'[c], stream'[c][i])
  <2>1. ASSUME NEW i \in 1..Len(stream'[c]), i = Len(stream[c]) + 1
        PROVE  Ahead(c, stream[c][i])' /\ Apart(hand'[c], stream'[c][i])
    <3>1. stream'[c][i] = m
      BY <1>2, <2>1
    <3> QED
      BY <1>7, <3>1 DEF Ahead
  <2>2. ASSUME NEW i \in 1..Len(stream[c]) PROVE Apart(hand'[c], stream'[c][i])
    BY <1>2, <1>6
  <2> QED
    BY <1>2, <1>6, <2>1, <2>2
<1>9. \A i, j \in 1..Len(stream'[c]) : i < j => Apart(stream'[c][i], stream'[c][j])
  <2>1. ASSUME NEW i \in 1..Len(stream'[c]), NEW j \in 1..Len(stream'[c]), i < j
        PROVE  Apart(stream'[c][i], stream'[c][j])
    <3>1. i \in 1..Len(stream[c])
      BY <1>1, <1>2, <2>1
    <3>2. CASE j \in 1..Len(stream[c])
      BY <1>0, <1>2, <2>1, <3>1, <3>2 DEF UnderWay
    <3>3. CASE j = Len(stream[c]) + 1
      BY <1>2, <1>6, <3>1, <3>3
    <3> QED
      BY <1>2, <3>2, <3>3
  <2> QED
    BY <2>1
<1>10. \A i \in 1..Len(wire'[c]) : wire'[c][i].gen # 0 => /\ wire'[c][i].gen = c
                                                        /\ wire'[c][i].episode <= stops'[c]
  <2>1. \A j \in 1..Len(wire[c]) : wire[c][j].gen # 0 => /\ wire[c][j].gen = c
                                                        /\ wire[c][j].episode <= stops'[c]
    BY <1>0, <1>1, FeedTypes DEF UnderWay
  <2> QED
    BY <2>1
<1>11. UnderWay(c)'
  <2>2. \A i \in 1..Len(stream'[c]) : Ahead(c, stream[c][i])' /\ Apart(hand[c], stream[c][i])'
    BY <1>8 DEF Apart
  <2>3. \A i, j \in 1..Len(stream'[c]) : i < j => Apart(stream[c][i], stream[c][j])'
    BY <1>9 DEF Apart
  <2> QED
    BY <1>0, <1>5, <1>10, <2>2, <2>3 DEF UnderWay
<1>12. Published(c)'
  BY <1>0, <1>1 DEF Published, Shown
<1> QED
  BY <1>11, <1>12

\* The requests of a client lose their first or get one more.
LEMMA Requests ==
    ASSUME TypeInv, FeedInv, NEW c \in Clients, NEW asked \in 0..MaxSessions,
           wire'[c] = Append(wire[c], Capture(c, asked)),
           UNCHANGED <<pub, hand, owed, stream, stops, target>>
    PROVE  UnderWay(c)' /\ Published(c)'
<1>0. UnderWay(c) /\ Published(c)
  BY DEF FeedInv
<1>1. /\ Len(wire[c]) \in Nat /\ Len(wire'[c]) = Len(wire[c]) + 1
      /\ \A i \in 1..Len(wire[c]) : wire'[c][i] = wire[c][i]
      /\ wire'[c][Len(wire[c]) + 1] = Capture(c, asked)
      /\ \A i \in 1..Len(wire'[c]) : i \in 1..Len(wire[c]) \/ i = Len(wire[c]) + 1
  BY FeedTypes, CaptureType, AppendProperties DEF TypeInv
<1>2. LET q == Capture(c, asked) IN q.gen # 0 => q.gen = c /\ q.episode <= stops[c]
  BY <1>0 DEF Capture, NoRequest, Published, Shown
<1>3. \A i \in 1..Len(wire'[c]) :
         wire'[c][i].gen # 0 => wire'[c][i].gen = c /\ wire'[c][i].episode <= stops[c]
  BY <1>0, <1>1, <1>2 DEF UnderWay
<1> QED
  BY <1>0, <1>3 DEF UnderWay, Published, Ahead, Shown

\* The state after a message has been folded, as the clients see it.
LEMMA Folds ==
    ASSUME TypeInv, NEW c \in Clients, pub.gen = c,
           NEW m, m.type \in {"stopped", "continued", "terminated"}, pub' = Fold(m)
    PROVE  /\ pub'.gen = c
           /\ Shown(c)' = IF m.type = "stopped" THEN Shown(c) + 1 ELSE Shown(c)
           /\ pub'.state = "running" => m.type = "continued"
BY DEF Fold, Shown, TypeInv, TypeOK, PubType

\* The read loop of c has applied, or dropped, the message it held.
LEMMA Applied ==
    ASSUME TypeInv, FeedInv, NEW c \in Clients,
           hand' = [hand EXCEPT ![c] = NoMessage],
           UNCHANGED <<owed, stream, wire, stops, target>>, pub' \in PubType,
           \/ pub' = pub
           \/ pub.gen = c /\ hand[c].type \in {"stopped", "continued", "terminated"}
              /\ pub' = Fold(hand[c])
           \/ hand[c].type = "response" /\ AckApplies(hand[c]) /\ hand[c].gen # 0
              /\ pub' = Acknowledged
    PROVE  FeedInv'
<1>0. pub \in PubType /\ hand'[c] = NoMessage /\ c # 0
      /\ \A d \in Clients \ {c} : hand'[d] = hand[d]
  BY FeedTypes DEF TypeInv, TypeOK, FeedType
<1>1. \A n : Apart(NoMessage, n)
  BY DEF Apart, NoMessage
<1>2. ASSUME pub' = pub PROVE FeedInv'
  <2>1. ASSUME NEW d \in Clients PROVE UnderWay(d)' /\ Published(d)'
    <3>1. UnderWay(d) /\ Published(d)
      BY DEF FeedInv
    <3>2. Published(d)'
      BY <1>2, <3>1 DEF Published, Shown
    <3>3. UnderWay(d)'
      BY <1>0, <1>1, <1>2, <3>1 DEF UnderWay, Ahead, Shown, NoMessage
    <3> QED
      BY <3>2, <3>3
  <2> QED
    BY <1>2, <2>1 DEF FeedInv
<1>3. ASSUME pub'.gen = c, pub.gen = c, Shown(c)' \in Nat,
             \A i \in 1..Len(stream[c]) : Ahead(c, stream[c][i])', Ahead(c, owed[c])',
             Published(c)'
      PROVE  FeedInv'
  <2>1. UnderWay(c)'
    <3>1. UnderWay(c)
      BY DEF FeedInv
    <3>2. Ahead(c, hand[c])'
      BY <1>0 DEF Ahead, NoMessage
    <3> QED
      BY <1>0, <1>1, <1>3, <3>1, <3>2 DEF UnderWay, NoMessage
  <2>2. ASSUME NEW d \in Clients \ {c} PROVE UnderWay(d)' /\ Published(d)'
    <3>1. Shown(d)' = 0 /\ Shown(d) = 0
      BY <1>3 DEF Shown
    <3> QED
      BY <1>0, <1>3, <2>2, <3>1, Untouched
  <2> QED
    BY <1>0, <1>3, <2>1, <2>2 DEF FeedInv
<1>4. CASE pub.gen = c /\ hand[c].type \in {"stopped", "continued", "terminated"}
           /\ pub' = Fold(hand[c])
  <2>1. UnderWay(c) /\ Published(c)
    BY DEF FeedInv
  <2>2. /\ pub'.gen = c /\ pub'.state = "running" => hand[c].type = "continued"
        /\ Shown(c)' = IF hand[c].type = "stopped" THEN Shown(c) + 1 ELSE Shown(c)
        /\ pub'.gen = c
    BY <1>4, Folds
  <2>3. /\ stops[c] \in Nat /\ Shown(c) \in Nat /\ Shown(c)' \in Nat
        /\ hand[c].stop \in Nat
        /\ \A i \in 1..Len(stream[c]) : stream[c][i].stop \in Nat
    BY <2>2, FeedTypes
  <2>4. ASSUME NEW i \in 1..Len(stream[c]) PROVE Ahead(c, stream[c][i])'
    <3>1. Ahead(c, stream[c][i]) /\ Apart(hand[c], stream[c][i]) /\ Ahead(c, hand[c])
      BY <2>1 DEF UnderWay
    <3> QED
      BY <2>2, <2>3, <3>1 DEF Ahead, Apart
  <2>5. Ahead(c, owed[c])'
    BY <2>1, <2>2 DEF UnderWay, Ahead
  <2>6. Published(c)'
    BY <2>1, <2>2, <2>3 DEF UnderWay, Ahead, Published
  <2> QED
    BY <1>3, <1>4, <2>2, <2>3, <2>4, <2>5, <2>6
<1>5. CASE hand[c].type = "response" /\ AckApplies(hand[c]) /\ hand[c].gen # 0
           /\ pub' = Acknowledged
  <2>1. UnderWay(c) /\ Published(c)
    BY DEF FeedInv
  <2>2. hand[c].gen = c /\ pub.gen = c /\ pub.episode = hand[c].episode
    BY <1>5, <2>1 DEF UnderWay, Ahead, AckApplies
  <2>3. pub'.gen = c /\ pub'.episode = pub.episode
    BY <1>0, <1>5, <2>2 DEF Acknowledged, PubType
  <2>4. Shown(c)' = Shown(c) /\ Shown(c) \in Nat /\ Shown(c) = hand[c].episode
    BY <2>2, <2>3, FeedTypes DEF Shown
  <2>5. /\ \A i \in 1..Len(stream[c]) : Ahead(c, stream[c][i])'
        /\ Ahead(c, owed[c])'
    BY <2>1, <2>4 DEF UnderWay, Ahead
  <2>6. Published(c)'
    BY <1>5, <2>1, <2>4 DEF UnderWay, Ahead, Published
  <2> QED
    BY <1>3, <2>2, <2>3, <2>4, <2>5, <2>6
<1> QED
  BY <1>2, <1>4, <1>5

\* A request leaves the wire, carried out or refused, and nothing is said yet.
LEMMA Taken ==
    ASSUME TypeInv, FeedInv, NEW c \in Clients,
           target'[c] \in {target[c], "running"},
           Ahead(c, owed[c])', owed'[c].type \in {"response", "none"},
           \A i \in 1..Len(wire'[c]) : \E j \in 1..Len(wire[c]) : wire'[c][i] = wire[c][j],
           UNCHANGED <<pub, hand, stream, stops>>
    PROVE  UnderWay(c)' /\ Published(c)'
<1>0. UnderWay(c) /\ Published(c)
  BY DEF FeedInv
<1>1. Ahead(c, hand[c])' /\ \A i \in 1..Len(stream[c]) : Ahead(c, stream[c][i])'
  BY <1>0 DEF UnderWay, Ahead, Shown
<1>2. \A i \in 1..Len(wire'[c]) : wire'[c][i].gen # 0 => /\ wire'[c][i].gen = c
                                                        /\ wire'[c][i].episode <= stops[c]
  BY <1>0 DEF UnderWay
<1>3. UnderWay(c)'
  BY <1>0, <1>1, <1>2 DEF UnderWay
<1>4. Published(c)'
  BY <1>0 DEF Published, Shown
<1> QED
  BY <1>3, <1>4

LEMMA TailOfWire ==
    ASSUME TypeInv, NEW c \in Clients, wire[c] # <<>>, wire'[c] = Tail(wire[c])
    PROVE  /\ Head(wire[c]) \in Request /\ Head(wire[c]) = wire[c][1] /\ 1 \in 1..Len(wire[c])
           /\ \A i \in 1..Len(wire'[c]) : \E j \in 1..Len(wire[c]) : wire'[c][i] = wire[c][j]
<1>1. wire[c] \in Seq(Request) /\ Len(wire[c]) \in Nat
  BY FeedTypes
<1>2. /\ Len(wire'[c]) = Len(wire[c]) - 1 /\ 1 \in 1..Len(wire[c])
      /\ \A i \in 1..Len(wire'[c]) : wire'[c][i] = wire[c][i + 1] /\ i + 1 \in 1..Len(wire[c])
  BY <1>1, HeadTailProperties, EmptySeq
<1> QED
  BY <1>1, <1>2, HeadTailProperties

\* One step of the adapter of c.
LEMMA AdapterFeed ==
    ASSUME TypeInv, FeedInv, NEW c \in Clients, Adapter(c)
    PROVE  UnderWay(c)' /\ Published(c)'
<1> USE DEF sessionVars
<1>0. /\ UnderWay(c) /\ Published(c) /\ stops[c] \in Nat /\ stops[c] <= stops[c]
      /\ Shown(c) \in Nat
  BY FeedTypes DEF FeedInv
<1>t. /\ stops \in [Clients -> 0..MaxStops] /\ wire \in [Clients -> Seq(Request)]
      /\ target \in [Clients -> {"running", "stopped", "ended"}]
      /\ stream \in [Clients -> Seq(Message)] /\ owed \in [Clients -> Message \union {NoMessage}]
  BY DEF TypeInv, TypeOK, AdapterType
<1>w. UNCHANGED wire =>
        \A i \in 1..Len(wire'[c]) : \E j \in 1..Len(wire[c]) : wire'[c][i] = wire[c][j]
  OBVIOUS
<1>o. UNCHANGED <<owed, pub, stops>> /\ target'[c] # "stopped" => Ahead(c, owed[c])'
  BY <1>0 DEF UnderWay, Ahead, Shown
<1>1. CASE Stop(c)
  <2>m. PICK m \in Message :
          m = Event("stopped", stops[c] + 1) /\ m.type = "stopped" /\ m.stop = stops[c] + 1
    <3>1. stops[c] + 1 \in Nat
      BY <1>0
    <3>2. Event("stopped", stops[c] + 1) \in Message
      BY <3>1, EventType
    <3> QED
      BY <3>2 DEF Event
  <2>1. /\ target[c] = "running" /\ target'[c] = "stopped" /\ stops'[c] = stops[c] + 1
        /\ stream'[c] = Append(stream[c], m) /\ UNCHANGED <<pub, hand, wire, owed>>
    BY <1>1, <1>t, <2>m DEF Stop
  <2>2. Ahead(c, m)'
    BY <1>0, <2>1, <2>m DEF Ahead, Shown, Published
  <2>3. Ahead(c, owed[c])'
    <3>1. owed[c].episode \in Nat
      BY FeedTypes
    <3> QED
      BY <1>0, <2>1, <3>1 DEF Ahead, UnderWay
  <2>4. stops[c] <= stops'[c] /\ stops'[c] \in Nat /\ stops[c] < stops'[c] /\ m.stop > stops[c]
    BY <1>0, <2>1, <2>m
  <2>5. owed'[c].type \in {"response", "none"}
    BY <1>0, <2>1 DEF UnderWay
  <2> QED
    BY <1>0, <1>w, <2>m, <2>1, <2>2, <2>3, <2>4, <2>5, Emits
<1>2. CASE CarryOut(c)
  <2> DEFINE q == Head(wire[c])
  <2>m. PICK m \in Message :
          m = Event("continued", stops[c]) /\ m.type = "continued" /\ m.stop = stops[c]
    BY <1>0, EventType DEF Event
  <2>1. /\ wire[c] # <<>> /\ target[c] = "stopped" /\ target'[c] = "running"
        /\ wire'[c] = Tail(wire[c])
        /\ owed'[c] = [type |-> "response", stop |-> stops[c], gen |-> q.gen,
                       episode |-> q.episode]
        /\ UNCHANGED <<pub, hand, stops>>
        /\ stream'[c] = Append(stream[c], m) \/ UNCHANGED stream
    BY <1>2, <1>t, <2>m DEF CarryOut
  <2>2. /\ q = wire[c][1] /\ 1 \in 1..Len(wire[c])
        /\ \A i \in 1..Len(wire'[c]) : \E j \in 1..Len(wire[c]) : wire'[c][i] = wire[c][j]
    BY <2>1, TailOfWire
  <2>3. q.gen # 0 => q.gen = c /\ q.episode <= stops[c]
    BY <1>0, <2>2 DEF UnderWay
  <2>4. Ahead(c, owed[c])' /\ owed'[c].type \in {"response", "none"}
    BY <2>1, <2>3 DEF Ahead
  <2>6. Ahead(c, m)'
    BY <1>0, <2>1, <2>m DEF Ahead, Shown, Published
  <2> HIDE DEF q
  <2>7. CASE UNCHANGED stream
    BY <2>1, <2>2, <2>4, <2>7, Taken
  <2>8. CASE stream'[c] = Append(stream[c], m)
    BY <1>0, <2>m, <2>1, <2>2, <2>4, <2>6, <2>8, Emits
  <2> QED
    BY <2>1, <2>7, <2>8
<1>3. CASE Refuse(c)
  <2>1. /\ wire[c] # <<>> /\ wire'[c] = Tail(wire[c])
        /\ UNCHANGED <<pub, hand, owed, stream, target, stops>>
    BY <1>3, <1>t DEF Refuse
  <2>2. Ahead(c, owed[c])' /\ owed'[c].type \in {"response", "none"}
    BY <1>0, <2>1 DEF UnderWay, Ahead, Shown
  <2> QED
    BY <2>1, <2>2, TailOfWire, Taken
<1>4. CASE Respond(c)
  <2>m. PICK m \in Message : m = owed[c]
    BY <1>4, <1>t DEF Respond
  <2>1. /\ owed'[c] = NoMessage /\ stream'[c] = Append(stream[c], m)
        /\ UNCHANGED <<pub, hand, wire, target, stops>>
    BY <1>4, <1>t, <2>m DEF Respond
  <2>2. m.type = "response"
    BY <1>0, <2>m DEF UnderWay, Message
  <2>3. owed'[c].type = "none"
    BY <2>1 DEF NoMessage
  <2>4. Ahead(c, owed[c])'
    BY <2>3 DEF Ahead
  <2>5. m.gen # 0 => /\ m.gen = c /\ m.episode <= stops[c]
                     /\ target[c] = "stopped" => m.episode < stops[c]
    BY <1>0, <2>m, <2>2 DEF UnderWay, Ahead
  <2>6. Ahead(c, m)'
    BY <2>1, <2>2, <2>5 DEF Ahead
  <2>7. m.type # "stopped" /\ m.type # "continued"
    BY <2>2
  <2> QED
    BY <1>0, <1>w, <2>1, <2>2, <2>3, <2>4, <2>6, <2>7, Emits
<1>5. CASE Terminate(c)
  <2>m. PICK m \in Message : m = Event("terminated", stops[c]) /\ m.type = "terminated"
    BY <1>0, EventType DEF Event
  <2>1. /\ target'[c] = "ended" /\ stream'[c] = Append(stream[c], m)
        /\ UNCHANGED <<pub, hand, wire, owed, stops>>
    BY <1>5, <1>t, <2>m DEF Terminate
  <2>3. Ahead(c, m)' /\ Ahead(c, owed[c])' /\ owed'[c].type \in {"response", "none"}
    BY <1>0, <1>o, <2>1, <2>m DEF Ahead, UnderWay
  <2>4. m.type # "stopped" /\ m.type # "continued"
    BY <2>m
  <2> QED
    BY <1>0, <1>w, <2>1, <2>3, <2>4, Emits
<1> QED
  BY <1>1, <1>2, <1>3, <1>4, <1>5 DEF Adapter

LEMMA FeedStep == TypeInv /\ TypeInv' /\ FeedInv /\ [Next]_vars => FeedInv'
<1> SUFFICES ASSUME TypeInv, TypeInv', FeedInv, [Next]_vars PROVE FeedInv'
  OBVIOUS
<1>0. pub \in PubType /\ pub' \in PubType /\ pub'.gen \in Nat /\ \A c \in Clients : c # 0
  BY StateAssumption DEF StateAssumption, TypeInv, TypeOK, PubType, Clients
<1> DEFINE Same(c) == /\ hand'[c] = hand[c] /\ owed'[c] = owed[c] /\ stream'[c] = stream[c]
                      /\ wire'[c] = wire[c] /\ stops'[c] = stops[c] /\ target'[c] = target[c]
\* A client that a step with the published state unchanged does not touch.
<1>1. ASSUME NEW c \in Clients, Same(c), pub' = pub PROVE UnderWay(c)' /\ Published(c)'
  <2>1. Shown(c)' = Shown(c) /\ Shown(c) \in Nat /\ Shown(c) <= Shown(c)
    BY <1>1, FeedTypes DEF Shown
  <2> QED
    BY <1>1, <2>1, Untouched
\* The state starts over or gets its generation.
<1>2. ASSUME \A c \in Clients : Same(c), pub'.episode = 0, pub'.state # "running"
      PROVE  FeedInv'
  <2>1. ASSUME NEW c \in Clients PROVE UnderWay(c)' /\ Published(c)'
    <3>1. Shown(c)' = 0 /\ Shown(c) \in Nat
      BY <1>2, FeedTypes DEF Shown
    <3> QED
      BY <1>2, <3>1, Untouched
  <2> QED
    BY <1>2, <2>1 DEF FeedInv
<1>3. ASSUME NEW c \in Clients, pub' = pub, UnderWay(c)' /\ Published(c)',
             \A d \in Clients \ {c} : Same(d)
      PROVE  FeedInv'
  <2>1. pub'.gen = 0 => pub'.episode = 0
    BY <1>3 DEF FeedInv
  <2>2. \A d \in Clients \ {c} : UnderWay(d)' /\ Published(d)'
    BY <1>1, <1>3
  <2> QED
    BY <1>3, <2>1, <2>2 DEF FeedInv
<1>4. CASE Adopt
  <2>1. pub'.state = "unknown" /\ pub'.episode = pub.episode
    BY <1>0, <1>4 DEF Adopt, PubType
  <2>2. pub.episode = 0
    BY <1>4 DEF Adopt, TypeInv, Lifetime, FeedInv
  <2> QED
    BY <1>2, <1>4, <2>1, <2>2 DEF Adopt, adapterVars
<1>5. CASE Replace
  BY <1>2, <1>5 DEF Replace, adapterVars, NoSession
<1>6. ASSUME NEW c \in Clients, NEW asked \in 0..MaxSessions, Send(c, asked),
             UNCHANGED <<pub, hand>>
      PROVE  FeedInv'
  <2>1. wire' = [wire EXCEPT ![c] = Append(wire[c], Capture(c, asked))]
        /\ UNCHANGED <<owed, stream, stops, target>>
    BY <1>6 DEF Send
  <2>2. wire'[c] = Append(wire[c], Capture(c, asked)) /\ \A d \in Clients \ {c} : Same(d)
    BY <1>6, <2>1 DEF TypeInv, TypeOK, AdapterType
  <2>3. UnderWay(c)' /\ Published(c)'
    BY <1>6, <2>1, <2>2, Requests
  <2> QED
    BY <1>3, <1>6, <2>2, <2>3
<1>7. CASE Execute
  <2>1. client \in Clients /\ 0 \in 0..MaxSessions
    BY <1>7, StateAssumption DEF StateAssumption, Execute, TypeInv, Lifetime
  <2> QED
    BY <1>6, <1>7, <2>1 DEF Execute
<1>8. ASSUME NEW r \in Resumers, Resume(r) PROVE FeedInv'
  <2>1. CASE UNCHANGED <<sent, adapterVars>>
    <3>1. \A c \in Clients : Same(c)
      BY <1>8, <2>1 DEF Resume, adapterVars
    <3> QED
      BY <1>1, <1>8, <3>1 DEF Resume, FeedInv
  <2>2. CASE Send(resumer[r].client, resumer[r].asked)
    <3>1. resumer[r].client \in Clients /\ resumer[r].asked \in 0..MaxSessions
      BY <1>8 DEF Resume, TypeInv, TypeOK, Resuming, ResumeType
    <3> QED
      BY <1>6, <1>8, <2>2, <3>1 DEF Resume
  <2> QED
    BY <1>8, <2>1, <2>2 DEF Resume, ResumedClient
<1>9. ASSUME NEW c \in Clients, Read(c) PROVE FeedInv'
  <2>1. /\ hand[c] = NoMessage /\ stream[c] # <<>> /\ pub' = pub
        /\ stream' = [stream EXCEPT ![c] = Tail(stream[c])]
        /\ hand' = [hand EXCEPT ![c] = Head(stream[c])] \/ hand' = [hand EXCEPT ![c] = NoMessage]
        /\ UNCHANGED <<owed, wire, stops, target>>
    BY <1>9 DEF Read
  <2>2. /\ stream'[c] = Tail(stream[c]) /\ \A d \in Clients \ {c} : Same(d)
        /\ hand'[c] = Head(stream[c]) \/ hand'[c] = NoMessage
    BY <2>1 DEF TypeInv, TypeOK, FeedType, AdapterType
  <2>3. /\ Head(stream[c]) = stream[c][1] /\ 1 \in 1..Len(stream[c])
        /\ Len(stream'[c]) = Len(stream[c]) - 1
        /\ \A i \in 1..Len(stream'[c]) :
              stream'[c][i] = stream[c][i + 1] /\ i + 1 \in 1..Len(stream[c]) /\ 1 < i + 1
    <3>1. stream[c] \in Seq(Message) /\ Len(stream[c]) \in Nat
      BY FeedTypes
    <3>2. Head(stream[c]) = stream[c][1] /\ Len(stream[c]) > 0
      BY <2>1, <3>1, EmptySeq
    <3>3. /\ Len(stream'[c]) = Len(stream[c]) - 1
          /\ \A i \in 1..Len(stream'[c]) : stream'[c][i] = stream[c][i + 1]
      <4>1. stream'[c] = Tail(stream[c]) /\ stream[c] # <<>>
        BY <2>1, <2>2
      <4>2. /\ Len(Tail(stream[c])) = Len(stream[c]) - 1
            /\ \A i \in 1..(Len(stream[c]) - 1) : Tail(stream[c])[i] = stream[c][i + 1]
        BY <3>1, <4>1, HeadTailProperties
      <4> QED
        BY <4>1, <4>2
    <3> QED
      BY <3>1, <3>2, <3>3
  <2>4. UnderWay(c) /\ Published(c)
    BY DEF FeedInv
  <2>5. ASSUME NEW i \in 1..Len(stream[c]) PROVE \A m : m = stream[c][i] => Ahead(c, m)'
    BY <2>1, <2>4 DEF UnderWay, Ahead, Shown
  <2>6. Ahead(c, hand[c])' /\ (hand'[c].type = "response" => hand'[c].gen # 0)
    <3>1. Ahead(c, hand[c])'
      BY <2>2, <2>3, <2>5 DEF Ahead, NoMessage
    <3>2. hand'[c].type = "response" => hand'[c].gen # 0
      BY <1>9 DEF Read, NoMessage, TypeInv, TypeOK, FeedType
    <3> QED
      BY <3>1, <3>2
  <2>7. ASSUME NEW i \in 1..Len(stream'[c])
        PROVE  Ahead(c, stream[c][i])' /\ Apart(hand'[c], stream'[c][i])
    <3>1. i + 1 \in 1..Len(stream[c]) /\ stream'[c][i] = stream[c][i + 1] /\ 1 < i + 1
      BY <2>3
    <3>2. Apart(stream[c][1], stream[c][i + 1])
      BY <2>3, <2>4, <3>1 DEF UnderWay
    <3>3. Apart(hand'[c], stream'[c][i])
      BY <2>2, <2>3, <3>1, <3>2 DEF Apart, NoMessage
    <3>4. Ahead(c, stream[c][i])'
      BY <2>5, <3>1
    <3> QED
      BY <3>3, <3>4
  <2>8. ASSUME NEW i \in 1..Len(stream'[c]), NEW j \in 1..Len(stream'[c]), i < j
        PROVE  Apart(stream'[c][i], stream'[c][j])
    <3>1. i + 1 \in 1..Len(stream[c]) /\ j + 1 \in 1..Len(stream[c]) /\ i + 1 < j + 1
      BY <2>3, <2>8
    <3> QED
      BY <2>3, <2>4, <3>1 DEF UnderWay
  <2>9. UnderWay(c)'
    BY <2>1, <2>4, <2>6, <2>7, <2>8 DEF UnderWay, Ahead, Shown
  <2>10. Published(c)'
    BY <2>1, <2>4 DEF Published, Shown
  <2> QED
    BY <1>3, <2>1, <2>2, <2>9, <2>10
<1>10. ASSUME NEW c \in Clients, Observe(c) \/ RunAck(c) PROVE FeedInv'
  <2>1. /\ hand' = [hand EXCEPT ![c] = NoMessage]
        /\ UNCHANGED <<owed, stream, wire, stops, target>>
    BY <1>10 DEF Observe, RunAck, adapterVars
  <2>2. hand[c].type = "response" => hand[c].gen # 0
    BY DEF FeedInv, UnderWay
  <2> QED
    BY <1>0, <1>10, <2>1, <2>2, Applied DEF Observe, RunAck, Current
<1>11. ASSUME NEW c \in Clients, Adapter(c) PROVE FeedInv'
  <2>1. pub' = pub /\ \A d \in Clients \ {c} : Same(d)
    BY <1>11 DEF Adapter, Stop, CarryOut, Refuse, Respond, Terminate, TypeInv, TypeOK,
                 FeedType, AdapterType
  <2> QED
    BY <1>3, <1>11, <2>1, AdapterFeed
<1>12. CASE UNCHANGED <<pub, hand, owed, stream, wire, stops, target>>
  BY <1>1, <1>12 DEF FeedInv
<1> QED
  BY <1>4, <1>5, <1>7, <1>8, <1>9, <1>10, <1>11, <1>12
     DEF Next, Lifecycle, ReadLoop, Connect, Install, ClearHandlers, Shutdown, Snapshot,
         vars, adapterVars

\* However requests, responses, stops, continuations and replaced sessions interleave,
\* the feed never says running of a target in a stop it has already shown.
THEOREM RunningIsTrue == Spec => []NoFalseRunning
<1>1. TypeInv /\ FeedInv => NoFalseRunning
  <2> SUFFICES ASSUME TypeInv, FeedInv, pub.gen # 0, pub.state = "running",
                      target[pub.gen] = "stopped"
               PROVE  pub.episode < stops[pub.gen]
    BY DEF NoFalseRunning
  <2>1. pub.gen \in Clients
    BY StateAssumption DEF StateAssumption, TypeInv, TypeOK, PubType, Clients
  <2> QED
    BY <2>1 DEF FeedInv, Published, Shown
<1> QED
  BY <1>1, Typed, FeedInit, FeedStep, PTL DEF Spec

------------------------------------------------------------------------------
(* The published state catches up with the target.  The argument looks at *)
(* what is still on its way from the adapter of the live session: Told     *)
(* says that it accounts for every difference between the two.             *)

\* A session starts with a client nothing has ever been said on.
Fresh ==
    /\ \A c \in Clients :
          \/ handlers[c] = "none" \/ closed[c]
          \/ phase = "live" /\ c = client
          \/ phase \in {"clearing", "replaced"} /\ \A d \in Clients : closed[d] <=> d < c
    /\ phase \in {"connected", "adopted"} => handlers[client] = "none"
    /\ phase = "live" => handlers[client] = "on"
    /\ phase = "adopted" => pub.state = "unknown"
    /\ \A c \in Clients : handlers[c] = "none" =>
          /\ hand[c] = NoMessage /\ owed[c] = NoMessage /\ stream[c] = <<>>
          /\ target[c] = "running" /\ stops[c] = 0
    /\ \A c \in Clients : \A i \in 1..Len(wire[c]) :
          wire[c][i].gen = 0 => wire[c][i].episode = 0

\* m comes before n: nothing but answers follows the end, and the answer to a request
\* dispatched in one stop comes before the news of a later stop only.
Then(m, n) ==
    /\ m.type = "terminated" => n.type = "response"
    /\ m.type = "response" /\ m.gen # 0 /\ n.type = "stopped" => m.episode < n.stop

Sorted(c) ==
    /\ \A i \in 1..Len(stream[c]) : Then(hand[c], stream[c][i])
    /\ \A i, j \in 1..Len(stream[c]) : i < j => Then(stream[c][i], stream[c][j])

Coming(c) == {hand[c]} \union {stream[c][i] : i \in 1..Len(stream[c])}

Answering(c, m) == m.type = "response" /\ m.gen = c /\ m.episode = stops[c]

\* Every stop that is not shown yet is on its way, and the end; a target that runs is
\* shown to, or the answer that will show it is on its way or owed.
Told(c) ==
    /\ \A k \in (pub.episode + 1)..stops[c] :
          \E m \in Coming(c) : m.type = "stopped" /\ m.stop = k
    /\ target[c] = "stopped" =>
          stops[c] > 0 /\ (pub.episode = stops[c] => pub.state = "stopped")
    /\ target[c] = "ended" =>
          pub.state = "ended" \/ \E m \in Coming(c) : m.type = "terminated"
    /\ pub.state = "ended" =>
          target[c] = "ended" /\ \A m \in Coming(c) : m.type \in {"none", "response"}
    /\ (\E m \in Coming(c) : m.type = "terminated") => target[c] = "ended"
    /\ stops[c] = 0 => pub.state # "stopped"
    /\ target[c] = "running" /\ ~overtaken[c] /\ stops[c] > 0 =>
          \/ pub.episode = stops[c] /\ pub.state = "running"
          \/ \E m \in Coming(c) \union {owed[c]} : Answering(c, m)

Live(c) == phase = "live" /\ client = c

CatchUp == \A c \in Clients : Live(c) => Sorted(c) /\ Told(c)

LEMMA FreshInit == Init => Fresh
BY DEF Init, Fresh, NoSession

LEMMA CatchUpInit == Init => CatchUp
BY DEF Init, CatchUp, Live

LEMMA FreshStep == TypeInv /\ TypeInv' /\ FeedInv /\ Fresh /\ [Next]_vars => Fresh'
<1> SUFFICES ASSUME TypeInv, TypeInv', FeedInv, Fresh, [Next]_vars PROVE Fresh'
  OBVIOUS
<1> DEFINE Blank(c) == /\ hand[c] = NoMessage /\ owed[c] = NoMessage /\ stream[c] = <<>>
                       /\ target[c] = "running" /\ stops[c] = 0
           Nought(c) == \A i \in 1..Len(wire[c]) : wire[c][i].gen = 0 => wire[c][i].episode = 0
           Places == /\ \A c \in Clients :
                           \/ handlers[c] = "none" \/ closed[c]
                           \/ phase = "live" /\ c = client
                           \/ phase \in {"clearing", "replaced"}
                              /\ \A d \in Clients : closed[d] <=> d < c
                     /\ phase \in {"connected", "adopted"} => handlers[client] = "none"
                     /\ phase = "live" => handlers[client] = "on"
<1>0. Places /\ \A c \in Clients : Nought(c) /\ (handlers[c] = "none" => Blank(c))
  BY DEF Fresh
<1>t. /\ handlers \in [Clients -> {"none", "on", "off"}] /\ closed \in [Clients -> BOOLEAN]
      /\ client \in 0..MaxSessions /\ pub \in PubType
      /\ hand \in [Clients -> Message \union {NoMessage}]
      /\ owed \in [Clients -> Message \union {NoMessage}]
      /\ stream \in [Clients -> Seq(Message)] /\ wire \in [Clients -> Seq(Request)]
      /\ target \in [Clients -> {"running", "stopped", "ended"}]
      /\ stops \in [Clients -> 0..MaxStops]
  BY DEF TypeInv, TypeOK, SessionType, FeedType, AdapterType
<1>l. /\ phase \in {"connected", "adopted", "live"} => client \in Clients
      /\ client # 0 => \A d \in Clients : closed[d] <=> d < client
      /\ \A c \in Clients : c # 0
  BY StateAssumption DEF StateAssumption, TypeInv, Lifetime, Clients
<1>1. ASSUME UNCHANGED <<hand, adapterVars>>, \A c \in Clients : handlers'[c] = "none" => handlers[c] = "none",
             Places', phase' = "adopted" => pub'.state = "unknown"
      PROVE  Fresh'
  BY <1>0, <1>1 DEF Fresh, adapterVars
<1>2. ASSUME UNCHANGED <<phase, client, closed, handlers>>,
             phase = "adopted" => pub'.state = pub.state,
             \A c \in Clients : Nought(c)' /\ (handlers[c] = "none" => Blank(c)')
      PROVE  Fresh'
  BY <1>0, <1>2 DEF Fresh
<1>3. CASE Connect
  <2>1. handlers'[client'] = "none"
    BY <1>3, <1>0, <1>l DEF Connect, Clients
  <2>2. \A c \in Clients : handlers'[c] = "none" \/ closed'[c]
    BY <1>3, <1>0 DEF Connect
  <2> QED
    BY <1>1, <1>3, <2>1, <2>2 DEF Connect
<1>4. CASE Adopt
  <2>1. pub'.state = "unknown"
    BY <1>t, <1>4 DEF Adopt, PubType
  <2> QED
    BY <1>0, <1>1, <1>4, <2>1 DEF Adopt
<1>5. CASE Install
  <2>1. client \in Clients /\ handlers' = [handlers EXCEPT ![client] = "on"]
        /\ phase = "adopted" /\ phase' = "live" /\ UNCHANGED <<client, closed, hand, adapterVars>>
    BY <1>5, <1>l DEF Install
  <2>2. handlers'[client] = "on" /\ \A c \in Clients \ {client} : handlers'[c] = handlers[c]
    BY <1>t, <2>1
  <2>3. \A c \in Clients \ {client} : handlers[c] = "none" \/ closed[c]
    BY <1>0, <2>1
  <2>4. Places'
    BY <2>1, <2>2, <2>3
  <2> QED
    BY <1>1, <2>1, <2>2, <2>4
<1>6. CASE ClearHandlers
  <2>1. /\ client \in Clients /\ phase' = "clearing" /\ UNCHANGED <<client, closed, hand, adapterVars>>
        /\ handlers' = [handlers EXCEPT ![client] = IF @ = "on" THEN "off" ELSE @]
    BY <1>6, <1>l DEF ClearHandlers
  <2>2. /\ handlers'[client] = IF handlers[client] = "on" THEN "off" ELSE handlers[client]
        /\ \A c \in Clients \ {client} : handlers'[c] = handlers[c]
    BY <1>t, <2>1
  <2>3. \A d \in Clients : closed'[d] <=> d < client
    BY <1>l, <2>1
  <2>4. \A c \in Clients \ {client} : handlers[c] = "none" \/ closed[c]
    BY <1>0, <1>6 DEF ClearHandlers
  <2> QED
    BY <1>1, <2>1, <2>2, <2>3, <2>4
<1>7. CASE Replace
  BY <1>0, <1>1, <1>7 DEF Replace
<1>8. CASE Shutdown
  <2>1. PICK c \in Clients : /\ \A d \in Clients : closed[d] <=> d < c
                             /\ closed' = [closed EXCEPT ![c] = TRUE]
    BY <1>8 DEF Shutdown
  <2>2. closed'[c] /\ \A d \in Clients \ {c} : closed'[d] = closed[d]
    BY <1>t, <2>1
  <2>3. \A d \in Clients : (\A e \in Clients : closed[e] <=> e < d) => d = c
    BY <2>1 DEF Clients
  <2>4. \A d \in Clients : handlers[d] = "none" \/ closed'[d]
    BY <1>0, <1>8, <2>2, <2>3 DEF Shutdown
  <2> QED
    BY <1>1, <1>8, <2>4 DEF Shutdown
<1>9. ASSUME NEW c \in Clients, NEW asked \in 0..MaxSessions, Send(c, asked),
             UNCHANGED <<sessionVars, pub, hand>>
      PROVE  Fresh'
  <2>1. /\ wire' = [wire EXCEPT ![c] = Append(wire[c], Capture(c, asked))]
        /\ UNCHANGED <<owed, stream, target, stops>>
    BY <1>9 DEF Send
  <2>2. Capture(c, asked).gen = 0 => Capture(c, asked).episode = 0
    BY <1>l DEF Capture, NoRequest
  <2>3. /\ wire'[c] = Append(wire[c], Capture(c, asked))
        /\ \A d \in Clients \ {c} : wire'[d] = wire[d]
    BY <1>t, <2>1
  <2>4. /\ Len(wire[c]) \in Nat /\ Len(wire'[c]) = Len(wire[c]) + 1
        /\ \A i \in 1..Len(wire[c]) : wire'[c][i] = wire[c][i]
        /\ wire'[c][Len(wire[c]) + 1] = Capture(c, asked)
        /\ \A i \in 1..Len(wire'[c]) : i \in 1..Len(wire[c]) \/ i = Len(wire[c]) + 1
    BY <2>3, FeedTypes, CaptureType, AppendProperties DEF TypeInv
  <2>5. Nought(c)'
    <3>0. Nought(c)
      BY <1>0
    <3>1. \A i \in 1..Len(wire[c]) : wire'[c][i].gen = 0 => wire'[c][i].episode = 0
      BY <2>4, <3>0
    <3>2. wire'[c][Len(wire[c]) + 1].gen = 0 => wire'[c][Len(wire[c]) + 1].episode = 0
      BY <2>2, <2>4
    <3> QED
      BY <2>4, <3>1, <3>2
  <2> QED
    BY <1>0, <1>2, <1>9, <2>1, <2>3, <2>5 DEF sessionVars
<1>10. CASE Execute
  <2>1. client \in Clients /\ 0 \in 0..MaxSessions
    BY <1>10, <1>l, StateAssumption DEF StateAssumption, Execute
  <2> QED
    BY <1>9, <1>10, <2>1 DEF Execute
<1>11. ASSUME NEW r \in Resumers, Resume(r) PROVE Fresh'
  <2>1. CASE UNCHANGED <<sent, adapterVars>>
    BY <1>0, <1>2, <1>11, <2>1 DEF Resume, sessionVars, adapterVars
  <2>2. CASE Send(resumer[r].client, resumer[r].asked)
    <3>1. resumer[r].client \in Clients /\ resumer[r].asked \in 0..MaxSessions
      BY <1>11 DEF Resume, TypeInv, TypeOK, Resuming, ResumeType
    <3> QED
      BY <1>9, <1>11, <2>2, <3>1 DEF Resume
  <2> QED
    BY <1>11, <2>1, <2>2 DEF Resume, ResumedClient
<1>12. ASSUME NEW c \in Clients, ReadLoop(c) PROVE Fresh'
  <2>1. handlers[c] # "none"
    BY <1>0, <1>12 DEF ReadLoop, Read, Observe, RunAck, NoMessage
  <2>2. /\ UNCHANGED <<sessionVars, wire, owed, target, stops>>
        /\ \A d \in Clients \ {c} : hand'[d] = hand[d] /\ stream'[d] = stream[d]
    BY <1>t, <1>12 DEF ReadLoop, Read, Observe, RunAck, adapterVars
  <2>3. phase = "adopted" => pub' = pub
    <3>1. phase = "adopted" => pub.gen # c
      BY <1>0, <2>1 DEF TypeInv, Lifetime
    <3>2. hand[c].type = "response" => hand[c].gen = c
      BY DEF FeedInv, UnderWay, Ahead
    <3> QED
      BY <1>12, <3>1, <3>2 DEF ReadLoop, Read, Observe, RunAck, Current, AckApplies
  <2> QED
    BY <1>0, <1>2, <2>1, <2>2, <2>3 DEF sessionVars
<1>13. ASSUME NEW c \in Clients, Adapter(c) PROVE Fresh'
  <2>1. handlers[c] # "none"
    BY <1>13 DEF Adapter, Started, Stop, CarryOut, Refuse, Respond, Terminate
  <2>2. /\ UNCHANGED <<sessionVars, pub, hand>>
        /\ \A d \in Clients \ {c} : /\ owed'[d] = owed[d] /\ stream'[d] = stream[d]
                                    /\ wire'[d] = wire[d] /\ target'[d] = target[d]
                                    /\ stops'[d] = stops[d]
    BY <1>t, <1>13 DEF Adapter, Stop, CarryOut, Refuse, Respond, Terminate
  <2>3. Nought(c)'
    <3>1. CASE wire'[c] = wire[c]
      BY <1>0, <3>1
    <3>2. CASE wire[c] # <<>> /\ wire'[c] = Tail(wire[c])
      BY <1>0, <3>2, TailOfWire
    <3> QED
      BY <1>t, <1>13, <3>1, <3>2 DEF Adapter, Stop, CarryOut, Refuse, Respond, Terminate
  <2> QED
    BY <1>0, <1>2, <2>1, <2>2, <2>3 DEF sessionVars
<1>14. CASE UNCHANGED <<sessionVars, pub, hand, adapterVars>>
  BY <1>0, <1>2, <1>14 DEF sessionVars, adapterVars
<1> QED
  BY <1>3, <1>4, <1>5, <1>6, <1>7, <1>8, <1>10, <1>11, <1>12, <1>13, <1>14
     DEF Next, Lifecycle, Snapshot, vars

\* What a client sees of a step that is not about it.
LEMMA Kept ==
    ASSUME NEW c \in Clients, Sorted(c), Told(c),
           UNCHANGED pub, hand'[c] = hand[c], owed'[c] = owed[c], stream'[c] = stream[c],
           target'[c] = target[c], stops'[c] = stops[c], overtaken'[c] = overtaken[c]
    PROVE  Sorted(c)' /\ Told(c)'
<1>1. Coming(c)' = Coming(c)
  BY DEF Coming
<1>2. \A m : Answering(c, m)' <=> Answering(c, m)
  BY DEF Answering
<1>3. Sorted(c)'
  BY DEF Sorted
<1>4. Told(c)'
  BY <1>1 DEF Told, Answering
<1> QED
  BY <1>3, <1>4

\* What is on its way obeys Ahead, and the stops in it come in order.
LEMMA OnItsWay ==
    ASSUME TypeInv, FeedInv, NEW c \in Clients
    PROVE  /\ \A m \in Coming(c) \union {owed[c]} :
                 Ahead(c, m) /\ m.stop \in Nat /\ m.episode \in Nat
           /\ owed[c].type \in {"response", "none"}
           /\ hand[c].type = "response" => hand[c].gen = c
           /\ stops[c] \in Nat /\ c # 0 /\ pub.episode \in Nat
           /\ pub.gen = c => Shown(c) = pub.episode /\ pub.episode <= stops[c]
           /\ \A m \in Coming(c) \ {hand[c]} : Apart(hand[c], m)
<1>1. /\ stream[c] \in Seq(Message) /\ hand[c].stop \in Nat /\ hand[c].episode \in Nat
      /\ owed[c].stop \in Nat /\ owed[c].episode \in Nat /\ stops[c] \in Nat
      /\ \A i \in 1..Len(stream[c]) : stream[c][i].stop \in Nat /\ stream[c][i].episode \in Nat
  BY FeedTypes
<1>2. UnderWay(c) /\ Published(c)
  BY DEF FeedInv
<1>3. \A m \in Coming(c) \union {owed[c]} :
         Ahead(c, m) /\ m.stop \in Nat /\ m.episode \in Nat
  BY <1>1, <1>2 DEF UnderWay, Coming
<1>4. /\ owed[c].type \in {"response", "none"}
      /\ \A m \in Coming(c) \ {hand[c]} : Apart(hand[c], m)
  BY <1>2 DEF UnderWay, Coming
<1>5. hand[c].type = "response" => hand[c].gen = c
  BY <1>2 DEF UnderWay, Ahead
<1>6. /\ c # 0 /\ pub.episode \in Nat
      /\ pub.gen = c => Shown(c) = pub.episode /\ pub.episode <= stops[c]
  BY <1>2, FeedTypes DEF Published, Shown
<1> QED
  BY <1>1, <1>3, <1>4, <1>5, <1>6

LEMMA Appends ==
    ASSUME TypeInv, NEW c \in Clients, NEW m \in Message, Sorted(c),
           stream'[c] = Append(stream[c], m), hand'[c] = hand[c],
           \A n \in Coming(c) : Then(n, m)
    PROVE  Sorted(c)' /\ Coming(c)' = Coming(c) \union {m}
<1>1. /\ Len(stream[c]) \in Nat /\ Len(stream'[c]) = Len(stream[c]) + 1
      /\ \A i \in 1..Len(stream[c]) : stream'[c][i] = stream[c][i]
      /\ stream'[c][Len(stream[c]) + 1] = m
      /\ \A i \in 1..Len(stream'[c]) : i \in 1..Len(stream[c]) \/ i = Len(stream[c]) + 1
      /\ Len(stream[c]) + 1 \in 1..Len(stream'[c])
      /\ \A i \in 1..Len(stream[c]) : i \in 1..Len(stream'[c])
  BY FeedTypes, AppendProperties
<1>2. Coming(c)' = Coming(c) \union {m}
  BY <1>1 DEF Coming
<1>3. \A i \in 1..Len(stream[c]) : Then(hand[c], stream[c][i]) /\ Then(stream[c][i], m)
  BY DEF Sorted, Coming
<1>4. Then(hand[c], m)
  BY DEF Coming
<1>5. \A i \in 1..Len(stream'[c]) : Then(hand[c], stream'[c][i])
  BY <1>1, <1>3, <1>4
<1>6. ASSUME NEW i \in 1..Len(stream'[c]), NEW j \in 1..Len(stream'[c]), i < j
      PROVE  Then(stream'[c][i], stream'[c][j])
  <2>1. i \in 1..Len(stream[c])
    BY <1>1, <1>6
  <2>2. CASE j \in 1..Len(stream[c])
    BY <1>1, <1>6, <2>1, <2>2 DEF Sorted
  <2>3. CASE j = Len(stream[c]) + 1
    BY <1>1, <1>3, <2>1, <2>3
  <2> QED
    BY <1>1, <2>2, <2>3
<1>7. Sorted(c)'
  BY <1>5, <1>6 DEF Sorted, Then
<1> QED
  BY <1>2, <1>7

\* One step of the live session's adapter.
LEMMA AdapterTells ==
    ASSUME TypeInv, FeedInv, Fresh, NEW c \in Clients, Live(c), Sorted(c), Told(c), Adapter(c)
    PROVE  Sorted(c)' /\ Told(c)'
<1>t. /\ stops \in [Clients -> 0..MaxStops] /\ wire \in [Clients -> Seq(Request)]
      /\ target \in [Clients -> {"running", "stopped", "ended"}]
      /\ stream \in [Clients -> Seq(Message)] /\ owed \in [Clients -> Message \union {NoMessage}]
      /\ overtaken \in [Clients -> BOOLEAN]
  BY DEF TypeInv, TypeOK, AdapterType
<1>0. /\ pub.gen = c /\ stops[c] \in Nat /\ pub.episode \in Nat /\ pub.episode <= stops[c]
      /\ \A m \in Coming(c) : Ahead(c, m) /\ m.stop \in Nat /\ m.episode \in Nat
      /\ owed[c].type \in {"response", "none"}
  BY OnItsWay DEF TypeInv, Lifetime, Live
<1>1. CASE Stop(c)
  <2>m. PICK m \in Message :
          m = Event("stopped", stops[c] + 1) /\ m.type = "stopped" /\ m.stop = stops[c] + 1
    <3>1. stops[c] + 1 \in Nat
      BY <1>0
    <3>2. Event("stopped", stops[c] + 1) \in Message
      BY <3>1, EventType
    <3> QED
      BY <3>2 DEF Event
  <2>1. /\ target[c] = "running" /\ target'[c] = "stopped" /\ stops'[c] = stops[c] + 1
        /\ stream'[c] = Append(stream[c], m) /\ UNCHANGED <<pub, hand, owed>>
    BY <1>1, <1>t, <2>m DEF Stop
  <2>2. \A n \in Coming(c) : Then(n, m)
    BY <1>0, <2>m, <2>1 DEF Then, Told, Ahead
  <2>3. Sorted(c)' /\ Coming(c)' = Coming(c) \union {m}
    BY <2>1, <2>2, Appends
  <2>4. ASSUME NEW k \in (pub'.episode + 1)..stops'[c]
        PROVE  \E n \in Coming(c)' : n.type = "stopped" /\ n.stop = k
    <3>1. k \in (pub.episode + 1)..stops[c] \/ k = stops[c] + 1
      BY <1>0, <2>1
    <3> QED
      BY <2>m, <2>3, <3>1 DEF Told
  <2>5. Told(c)'
    BY <1>0, <2>1, <2>3, <2>4, <2>m DEF Told
  <2> QED
    BY <2>3, <2>5
<1>2. CASE CarryOut(c)
  <2> DEFINE q == Head(wire[c])
  <2>m. PICK m \in Message : m = Event("continued", stops[c]) /\ m.type = "continued"
    BY <1>0, EventType DEF Event
  <2>1. /\ wire[c] # <<>> /\ target[c] = "stopped" /\ target'[c] = "running"
        /\ wire'[c] = Tail(wire[c])
        /\ owed'[c] = [type |-> "response", stop |-> stops[c], gen |-> q.gen,
                       episode |-> q.episode]
        /\ overtaken'[c] = (overtaken[c] \/ q.episode # stops[c])
        /\ UNCHANGED <<pub, hand, stops>>
        /\ stream'[c] = Append(stream[c], m) \/ UNCHANGED stream
    BY <1>2, <1>t, <2>m DEF CarryOut
  <2>2. q = wire[c][1] /\ 1 \in 1..Len(wire[c])
    BY <2>1, TailOfWire
  <2>3. (q.gen = 0 => q.episode = 0) /\ (q.gen # 0 => q.gen = c)
    BY <2>2 DEF FeedInv, UnderWay, Fresh
  <2>4. ~overtaken'[c] => Answering(c, owed[c])'
    <3>1. stops[c] > 0
      BY <2>1 DEF Told
    <3>2. ~overtaken'[c] => q.episode = stops[c]
      BY <2>1
    <3>3. q.episode = stops[c] => q.gen = c
      BY <2>3, <3>1
    <3>4. /\ owed'[c].type = "response" /\ owed'[c].gen = q.gen /\ owed'[c].episode = q.episode
          /\ stops'[c] = stops[c]
      BY <2>1
    <3> HIDE DEF q
    <3> QED
      BY <3>2, <3>3, <3>4 DEF Answering
  <2> HIDE DEF q
  <2>5. Sorted(c)' /\ (Coming(c)' = Coming(c) \/ Coming(c)' = Coming(c) \union {m})
    <3>1. CASE UNCHANGED stream
      BY <2>1, <3>1 DEF Sorted, Coming
    <3>2. CASE stream'[c] = Append(stream[c], m)
      <4>1. \A n \in Coming(c) : Then(n, m)
        BY <2>m, <2>1 DEF Then, Told
      <4> QED
        BY <2>1, <3>2, <4>1, Appends
    <3> QED
      BY <2>1, <3>1, <3>2
  <2>6. Told(c)'
    BY <2>1, <2>4, <2>5, <2>m DEF Told
  <2> QED
    BY <2>5, <2>6
<1>3. CASE Refuse(c)
  BY <1>3, <1>t, Kept DEF Refuse
<1>4. CASE Respond(c)
  <2>m. PICK m \in Message : m = owed[c]
    BY <1>4, <1>t DEF Respond
  <2>1. /\ stream'[c] = Append(stream[c], m)
        /\ UNCHANGED <<pub, hand, target, stops, overtaken>>
    BY <1>4, <1>t, <2>m DEF Respond
  <2>2. m.type = "response"
    BY <1>0, <2>m DEF Message
  <2>3. Sorted(c)' /\ Coming(c)' = Coming(c) \union {m}
    BY <2>1, <2>2, Appends DEF Then
  <2>4. Told(c)'
    BY <2>m, <2>1, <2>2, <2>3 DEF Told, Answering
  <2> QED
    BY <2>3, <2>4
<1>5. CASE Terminate(c)
  <2>m. PICK m \in Message : m = Event("terminated", stops[c]) /\ m.type = "terminated"
    BY <1>0, EventType DEF Event
  <2>1. /\ target[c] # "ended" /\ target'[c] = "ended" /\ stream'[c] = Append(stream[c], m)
        /\ UNCHANGED <<pub, hand, owed, stops>>
    BY <1>5, <1>t, <2>m DEF Terminate
  <2>2. \A n \in Coming(c) : Then(n, m)
    BY <2>m, <2>1 DEF Then, Told
  <2>3. Sorted(c)' /\ Coming(c)' = Coming(c) \union {m}
    BY <2>1, <2>2, Appends
  <2>4. Told(c)'
    BY <2>m, <2>1, <2>3 DEF Told
  <2> QED
    BY <2>3, <2>4
<1> QED
  BY <1>1, <1>2, <1>3, <1>4, <1>5 DEF Adapter

\* The read loop reads what it will fold, or an answer nobody wants to know of.
LEMMA ReadTells ==
    ASSUME TypeInv, FeedInv, Fresh, NEW c \in Clients, Live(c), Sorted(c), Told(c), Read(c)
    PROVE  Sorted(c)' /\ Told(c)'
<1>1. /\ hand[c] = NoMessage /\ stream[c] # <<>> /\ handlers[c] = "on"
      /\ stream'[c] = Tail(stream[c])
      /\ hand'[c] = IF Head(stream[c]).type = "response" => Head(stream[c]).gen # 0
                    THEN Head(stream[c]) ELSE NoMessage
      /\ UNCHANGED <<pub, owed, target, stops, overtaken>>
  BY DEF Read, Fresh, Live, TypeInv, TypeOK, FeedType, AdapterType
<1>2. /\ Head(stream[c]) = stream[c][1] /\ 1 \in 1..Len(stream[c])
      /\ Len(stream'[c]) = Len(stream[c]) - 1
      /\ \A i \in 1..Len(stream'[c]) :
            stream'[c][i] = stream[c][i + 1] /\ i + 1 \in 1..Len(stream[c]) /\ 1 < i + 1
  <2>1. stream[c] \in Seq(Message) /\ Len(stream[c]) \in Nat
    BY FeedTypes
  <2>2. Head(stream[c]) = stream[c][1] /\ Len(stream[c]) > 0
    BY <1>1, <2>1, EmptySeq
  <2>3. /\ Len(Tail(stream[c])) = Len(stream[c]) - 1
        /\ \A i \in 1..(Len(stream[c]) - 1) : Tail(stream[c])[i] = stream[c][i + 1]
    BY <1>1, <2>1, HeadTailProperties
  <2> QED
    BY <1>1, <2>1, <2>2, <2>3
<1>3. \A n : Then(NoMessage, n)
  BY DEF Then, NoMessage
<1>4. Sorted(c)'
  <2>1. ASSUME NEW i \in 1..Len(stream'[c]) PROVE Then(hand'[c], stream'[c][i])
    <3>1. Then(stream[c][1], stream[c][i + 1])
      BY <1>2 DEF Sorted
    <3> QED
      BY <1>1, <1>2, <1>3, <3>1
  <2>2. ASSUME NEW i \in 1..Len(stream'[c]), NEW j \in 1..Len(stream'[c]), i < j
        PROVE  Then(stream'[c][i], stream'[c][j])
    <3>1. i + 1 \in 1..Len(stream[c]) /\ j + 1 \in 1..Len(stream[c]) /\ i + 1 < j + 1
      BY <1>2, <2>2
    <3> QED
      BY <1>2, <3>1 DEF Sorted
  <2> QED
    BY <2>1, <2>2 DEF Sorted, Then
<1>5. Coming(c)' \subseteq Coming(c)
  BY <1>1, <1>2 DEF Coming
<1>6. ASSUME NEW m \in Coming(c), m.type # "none", m.type = "response" => m.gen # 0
      PROVE  m \in Coming(c)'
  <2>1. m # NoMessage
    BY <1>6 DEF NoMessage
  <2>2. PICK i \in 1..Len(stream[c]) : m = stream[c][i]
    BY <1>1, <2>1 DEF Coming
  <2>3. CASE i = 1
    BY <1>1, <1>2, <1>6, <2>2, <2>3 DEF Coming
  <2>4. CASE i # 1
    <3>1. i - 1 \in 1..Len(stream'[c]) /\ (i - 1) + 1 = i
      BY <1>2, <2>2, <2>4, FeedTypes
    <3> QED
      BY <1>2, <2>2, <3>1 DEF Coming
  <2> QED
    BY <2>3, <2>4
<1>7. c # 0 /\ \A m : Answering(c, m) => m.type = "response" /\ m.gen # 0
  BY FeedTypes DEF Answering
<1>8. Told(c)'
  BY <1>1, <1>5, <1>6, <1>7 DEF Told, Answering
<1> QED
  BY <1>4, <1>8

\* The read loop applies what it holds.
LEMMA ApplyTells ==
    ASSUME TypeInv, FeedInv, NEW c \in Clients, Live(c), Sorted(c), Told(c),
           Observe(c) \/ RunAck(c)
    PROVE  Sorted(c)' /\ Told(c)'
<1>1. /\ hand'[c] = NoMessage /\ UNCHANGED <<owed, stream, target, stops, overtaken>>
      /\ pub \in PubType /\ pub.gen = c /\ hand[c].type # "none"
  BY DEF Observe, RunAck, adapterVars, Live, TypeInv, TypeOK, FeedType, Lifetime
<1>2. \A n : Then(NoMessage, n)
  BY DEF Then, NoMessage
<1>3. Sorted(c)'
  BY <1>1, <1>2 DEF Sorted, Then
<1>4. /\ Coming(c)' \subseteq Coming(c) \union {NoMessage}
      /\ \A m \in Coming(c) : m = hand[c] \/ m \in Coming(c)'
      /\ \A m \in Coming(c)' : m = NoMessage \/ Then(hand[c], m)
      /\ \A m \in Coming(c) : m = hand[c] \/ Then(hand[c], m)
      /\ hand[c] \in Coming(c) /\ NoMessage.type = "none"
  BY <1>1 DEF Coming, Sorted, NoMessage
<1>5. /\ Ahead(c, hand[c]) /\ stops[c] \in Nat /\ hand[c].stop \in Nat /\ hand[c].episode \in Nat
      /\ c # 0 /\ pub.episode \in Nat /\ Shown(c) = pub.episode /\ pub.episode <= stops[c]
      /\ hand[c].type = "response" => hand[c].gen = c
      /\ \A m \in Coming(c) \ {hand[c]} : Apart(hand[c], m)
  BY <1>1, <1>4, OnItsWay
<1>6. CASE hand[c].type = "stopped" /\ pub' = Fold(hand[c])
  <2>1. /\ pub'.state = "stopped" /\ pub'.episode = pub.episode + 1
        /\ hand[c].stop > pub.episode /\ hand[c].stop <= stops[c]
        /\ pub.state # "ended"
    BY <1>1, <1>4, <1>5, <1>6 DEF Fold, PubType, Ahead, Told
  <2>2. hand[c].stop = pub.episode + 1
    <3>1. pub.episode + 1 \in (pub.episode + 1)..stops[c]
      BY <1>5, <2>1
    <3>2. PICK m \in Coming(c) : m.type = "stopped" /\ m.stop = pub.episode + 1
      BY <3>1 DEF Told
    <3> QED
      BY <1>5, <1>6, <2>1, <3>2 DEF Apart
  <2>3. ASSUME NEW k \in (pub'.episode + 1)..stops'[c]
        PROVE  \E m \in Coming(c)' : m.type = "stopped" /\ m.stop = k
    <3>1. k \in (pub.episode + 1)..stops[c] /\ k # hand[c].stop
      BY <1>1, <1>5, <2>1, <2>2
    <3> QED
      BY <1>4, <3>1 DEF Told
  <2>4. ASSUME target'[c] = "running", ~overtaken'[c]
        PROVE  \E m \in Coming(c)' \union {owed'[c]} : Answering(c, m)'
    <3>1. PICK m \in Coming(c) \union {owed[c]} : Answering(c, m)
      BY <1>1, <1>5, <2>1, <2>4 DEF Told
    <3> QED
      BY <1>1, <1>4, <1>6, <3>1 DEF Answering
  <2>5. target[c] = "ended" => \E m \in Coming(c)' : m.type = "terminated"
    BY <1>4, <1>6, <2>1 DEF Told
  <2>6. (\E m \in Coming(c)' : m.type = "terminated") => target[c] = "ended"
    BY <1>4 DEF Told
  <2>7. target[c] = "stopped" \/ stops[c] = 0 => stops[c] > 0
    BY <1>5, <2>1
  <2> QED
    BY <1>1, <1>3, <2>1, <2>3, <2>4, <2>5, <2>6, <2>7 DEF Told
<1>7. CASE hand[c].type = "continued" /\ pub' = Fold(hand[c])
  <2>1. /\ pub'.state = "running" /\ pub'.episode = pub.episode /\ pub.state # "ended"
        /\ target[c] = "stopped" => pub.episode < stops[c]
    <3>1. pub'.state = "running" /\ pub'.episode = pub.episode
      BY <1>1, <1>7 DEF Fold, PubType
    <3>2. pub.state # "ended"
      BY <1>4, <1>7 DEF Told
    <3>3. target[c] = "stopped" => pub.episode < stops[c]
      BY <1>5, <1>7 DEF Ahead
    <3> QED
      BY <3>1, <3>2, <3>3
  <2>2. ASSUME target'[c] = "running", ~overtaken'[c], stops'[c] > 0, pub.episode # stops[c]
        PROVE  \E m \in Coming(c)' \union {owed'[c]} : Answering(c, m)'
    BY <1>1, <1>4, <1>7, <2>2 DEF Told, Answering
  <2>3. \A k \in (pub'.episode + 1)..stops'[c] :
           \E m \in Coming(c)' : m.type = "stopped" /\ m.stop = k
    BY <1>1, <1>4, <1>7, <2>1 DEF Told
  <2>4. target[c] = "ended" => \E m \in Coming(c)' : m.type = "terminated"
    BY <1>4, <1>7, <2>1 DEF Told
  <2>5. (\E m \in Coming(c)' : m.type = "terminated") => target[c] = "ended"
    BY <1>4 DEF Told
  <2>6. target[c] = "stopped" => stops[c] > 0
    BY DEF Told
  <2> QED
    BY <1>1, <1>3, <1>5, <2>1, <2>2, <2>3, <2>4, <2>5, <2>6 DEF Told
<1>8. CASE hand[c].type = "terminated" /\ pub' = Fold(hand[c])
  <2>1. pub'.state = "ended" /\ pub'.episode = pub.episode /\ target[c] = "ended"
    BY <1>1, <1>4, <1>8 DEF Fold, PubType, Told
  <2>2. \A m \in Coming(c)' : m.type \in {"none", "response"}
    BY <1>4, <1>8 DEF Then
  <2>3. \A k \in (pub'.episode + 1)..stops'[c] :
           \E m \in Coming(c)' : m.type = "stopped" /\ m.stop = k
    BY <1>1, <1>4, <1>8, <2>1 DEF Told
  <2> QED
    BY <1>1, <1>3, <2>1, <2>2, <2>3 DEF Told
<1>9. CASE hand[c].type = "response"
  <2>1. /\ \/ pub' = pub /\ ~AckApplies(hand[c])
           \/ pub'.state = "running" /\ pub'.episode = pub.episode
              /\ pub.episode = hand[c].episode /\ pub.state # "ended"
    BY <1>1, <1>9 DEF Observe, RunAck, Acknowledged, AckApplies, PubType
  <2>2. target[c] = "stopped" => hand[c].episode < stops[c]
    BY <1>5, <1>9 DEF Ahead
  <2>3. \A k \in (pub.episode + 1)..stops[c] :
           \E m \in Coming(c)' : m.type = "stopped" /\ m.stop = k
    BY <1>4, <1>9 DEF Told
  <2>4. ASSUME target[c] = "running", ~overtaken[c], stops[c] > 0
        PROVE  \/ pub'.episode = stops[c] /\ pub'.state = "running"
               \/ \E m \in Coming(c)' \union {owed[c]} : Answering(c, m)
    <3>1. CASE hand[c].episode = stops[c]
      <4>1. pub.episode = stops[c]
        <5>1. SUFFICES ASSUME pub.episode # stops[c] PROVE FALSE
          OBVIOUS
        <5>2. stops[c] \in (pub.episode + 1)..stops[c]
          BY <1>5, <5>1
        <5>3. PICK m \in Coming(c) : m.type = "stopped" /\ m.stop = stops[c]
          BY <5>2 DEF Told
        <5> QED
          BY <1>4, <1>5, <1>9, <3>1, <5>3 DEF Then
      <4>2. pub.state # "ended"
        BY <2>4 DEF Told
      <4> QED
        BY <1>1, <1>5, <1>9, <2>1, <3>1, <4>1, <4>2 DEF AckApplies
    <3>2. CASE hand[c].episode # stops[c]
      <4>1. \A m \in Coming(c) \union {owed[c]} :
               Answering(c, m) => m \in Coming(c)' \union {owed[c]}
        BY <1>4, <3>2 DEF Answering
      <4>2. \/ pub.episode = stops[c] /\ pub.state = "running"
            \/ \E m \in Coming(c) \union {owed[c]} : Answering(c, m)
        BY <2>4 DEF Told
      <4> QED
        BY <2>1, <4>1, <4>2
    <3> QED
      BY <3>1, <3>2
  <2>5. target[c] = "ended" => pub.state = "ended" \/ \E m \in Coming(c)' : m.type = "terminated"
    BY <1>4, <1>9 DEF Told
  <2>6. (\E m \in Coming(c)' : m.type = "terminated") => target[c] = "ended"
    BY <1>4 DEF Told
  <2>7. pub.state = "ended" => \A m \in Coming(c)' : m.type \in {"none", "response"}
    BY <1>4 DEF Told
  <2>8. CASE pub' = pub
    BY <1>1, <1>3, <2>3, <2>4, <2>5, <2>6, <2>7, <2>8 DEF Told, Answering
  <2>9. CASE pub'.state = "running" /\ pub'.episode = pub.episode
             /\ pub.episode = hand[c].episode /\ pub.state # "ended"
    <3>1. target[c] = "stopped" => pub'.episode # stops[c] /\ stops[c] > 0
      BY <1>5, <2>2, <2>9
    <3> QED
      BY <1>1, <1>3, <2>3, <2>4, <2>5, <2>6, <2>9, <3>1 DEF Told, Answering
  <2> QED
    BY <2>1, <2>8, <2>9
<1> QED
  BY <1>1, <1>6, <1>7, <1>8, <1>9 DEF Observe, RunAck, Current

LEMMA CatchUpStep ==
    TypeInv /\ TypeInv' /\ FeedInv /\ Fresh /\ CatchUp /\ [Next]_vars => CatchUp'
<1> SUFFICES ASSUME TypeInv, TypeInv', FeedInv, Fresh, CatchUp, [Next]_vars,
                    NEW c \in Clients, Live(c)'
             PROVE  Sorted(c)' /\ Told(c)'
  BY DEF CatchUp
<1>t. /\ hand \in [Clients -> Message \union {NoMessage}]
      /\ owed \in [Clients -> Message \union {NoMessage}]
      /\ stream \in [Clients -> Seq(Message)]
      /\ target \in [Clients -> {"running", "stopped", "ended"}]
      /\ stops \in [Clients -> 0..MaxStops] /\ overtaken \in [Clients -> BOOLEAN]
  BY DEF TypeInv, TypeOK, FeedType, AdapterType
\* A step within the live session.
<1>1. CASE UNCHANGED <<phase, client>>
  <2>1. Live(c) /\ Sorted(c) /\ Told(c) /\ pub.gen = c
    BY <1>1 DEF Live, CatchUp, TypeInv, Lifetime
  <2>2. ASSUME UNCHANGED <<pub, hand, owed, stream, target, stops, overtaken>>
        PROVE  Sorted(c)' /\ Told(c)'
    BY <2>1, <2>2, Kept
  <2>3. ASSUME NEW d \in Clients, ReadLoop(d) PROVE Sorted(c)' /\ Told(c)'
    <3>1. CASE d = c
      BY <2>1, <2>3, <3>1, ReadTells, ApplyTells DEF ReadLoop
    <3>2. CASE d # c
      <4>1. hand[d].type = "response" => hand[d].gen = d
        BY OnItsWay
      <4>2. UNCHANGED pub
        BY <2>1, <2>3, <3>2, <4>1 DEF ReadLoop, Read, Observe, RunAck, Current, AckApplies
      <4>3. /\ hand'[c] = hand[c] /\ stream'[c] = stream[c]
            /\ UNCHANGED <<owed, target, stops, overtaken>>
        BY <1>t, <2>3, <3>2 DEF ReadLoop, Read, Observe, RunAck, adapterVars
      <4> QED
        BY <2>1, <4>2, <4>3, Kept
    <3> QED
      BY <3>1, <3>2
  <2>4. ASSUME NEW d \in Clients, Adapter(d) PROVE Sorted(c)' /\ Told(c)'
    <3>1. CASE d = c
      BY <2>1, <2>4, <3>1, AdapterTells
    <3>2. CASE d # c
      <4>1. /\ owed'[c] = owed[c] /\ stream'[c] = stream[c] /\ target'[c] = target[c]
            /\ stops'[c] = stops[c] /\ overtaken'[c] = overtaken[c] /\ UNCHANGED <<pub, hand>>
        BY <1>t, <2>4, <3>2 DEF Adapter, Stop, CarryOut, Refuse, Respond, Terminate
      <4> QED
        BY <2>1, <4>1, Kept
    <3> QED
      BY <3>1, <3>2
  <2>5. ASSUME NEW r \in Resumers, Resume(r) PROVE Sorted(c)' /\ Told(c)'
    BY <2>2, <2>5 DEF Resume, Send, adapterVars
  <2>6. CASE Execute
    BY <2>2, <2>6 DEF Execute, Send
  <2>7. CASE Lifecycle
    BY <1>1, <2>7 DEF Lifecycle, Connect, Adopt, Install, ClearHandlers, Replace, Shutdown
  <2>8. CASE UNCHANGED <<pub, hand, adapterVars>>
    BY <2>2, <2>8 DEF adapterVars
  <2> QED
    BY <2>3, <2>4, <2>5, <2>6, <2>7, <2>8 DEF Next, Snapshot, vars
\* A session becomes live: nothing has been said.
<1>2. CASE Install
  <2>1. /\ c = client /\ phase = "adopted" /\ UNCHANGED <<pub, hand, adapterVars>>
    BY <1>2 DEF Install, Live
  <2>2. /\ hand[c] = NoMessage /\ stream[c] = <<>> /\ target[c] = "running" /\ stops[c] = 0
        /\ pub.state = "unknown" /\ pub.episode \in Nat
    BY <2>1, FeedTypes DEF Fresh
  <2>3. Len(stream[c]) = 0 /\ Coming(c) = {NoMessage}
    BY <2>2 DEF Coming
  <2>4. Sorted(c)
    BY <2>3 DEF Sorted
  <2>5. Told(c)
    BY <2>2, <2>3 DEF Told, NoMessage
  <2> QED
    BY <2>1, <2>4, <2>5, Kept DEF adapterVars
<1> QED
  BY <1>1, <1>2 DEF Next, Lifecycle, Connect, Adopt, ClearHandlers, Replace, Shutdown, Live,
     Execute, Snapshot, Resume, ReadLoop, Adapter, Read, Observe, RunAck, Stop, CarryOut, Refuse,
     Respond, Terminate, sessionVars, vars

\* Once everything the adapter said has been folded, the published state is what the
\* target does: events and acknowledgements are never lost, overtaken or applied twice.
THEOREM CatchesUp == Spec => []FeedCatchesUp
<1>1. TypeInv /\ FeedInv /\ CatchUp => FeedCatchesUp
  <2> SUFFICES ASSUME TypeInv, FeedInv, CatchUp, phase = "live", Quiet(client), ~overtaken[client]
               PROVE  /\ target[client] \in {"stopped", "ended"} => pub.state = target[client]
                      /\ target[client] = "running" => pub.state \in {"running", "unknown"}
                      /\ pub.episode = stops[client]
    BY DEF FeedCatchesUp
  <2>1. client \in Clients /\ pub.gen = client
    BY DEF TypeInv, Lifetime
  <2>2. Told(client)
    BY <2>1 DEF CatchUp, Live
  <2>3. Coming(client) = {NoMessage} /\ owed[client] = NoMessage /\ NoMessage.type = "none"
    BY DEF Coming, Quiet, NoMessage
  <2>4. pub.episode \in Nat /\ stops[client] \in Nat /\ pub.episode <= stops[client]
    BY <2>1, OnItsWay
  <2>5. pub.episode = stops[client]
    <3>1. SUFFICES ASSUME pub.episode # stops[client] PROVE FALSE
      OBVIOUS
    <3>2. stops[client] \in (pub.episode + 1)..stops[client]
      BY <2>4, <3>1
    <3> QED
      BY <2>2, <2>3, <3>2 DEF Told
  <2>6. pub.state \in States /\ target[client] \in {"running", "stopped", "ended"}
    BY <2>1 DEF TypeInv, TypeOK, PubType, AdapterType
  <2>7. target[client] \in {"stopped", "ended"} => pub.state = target[client]
    BY <2>2, <2>3, <2>5 DEF Told
  <2>8. target[client] = "running" => pub.state \in {"running", "unknown"}
    <3>1. CASE stops[client] > 0
      BY <2>2, <2>3, <2>5, <3>1 DEF Told, Answering
    <3>2. CASE stops[client] = 0
      BY <2>2, <2>6, <3>2 DEF Told, States
    <3> QED
      BY <2>4, <3>1, <3>2
  <2> QED
    BY <2>5, <2>7, <2>8
<1> QED
  BY <1>1, Typed, FeedInit, FeedStep, FreshInit, FreshStep, CatchUpInit, CatchUpStep, PTL DEF Spec
==============================================================================
