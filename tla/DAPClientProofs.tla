---------------------------- MODULE DAPClientProofs ----------------------------
(***************************************************************************)
(* Theorems about DAPClient, for every number of callers, every inbox      *)
(* limit, every transport size and every adapter.                          *)
(***************************************************************************)
EXTENDS DAPClient, SequenceLemmas

\* The holder of sendMu is the caller that is writing, and its request is the last
\* one numbered.
Locking ==
    /\ \A c \in Callers : pc[c] = "write" <=> sendMu = c
    /\ \A c \in Callers : pc[c] = "write" => call[c] = seq - 1 /\ call[c] > 0

\* The transport is open until closeOnce runs, and then one of its two users ran it.
Closing ==
    /\ ~closed => ends = 0 /\ ~shut
    /\ closed => (ends = 0 <=> shut)
    /\ shut => owner = "shut"

TypeInv == TypeOK /\ Locking /\ Closing

LEMMA TypeInit == Init => TypeInv
<1> SUFFICES ASSUME Init PROVE TypeInv
  OBVIOUS
<1> USE ClientAssumption DEF ClientAssumption, Init
<1>1. RequestType
  BY DEF RequestType
<1>2. InboxType
  BY EmptySeq DEF InboxType
<1>3. EndType
  <2>1. closed \in BOOLEAN /\ shut \in BOOLEAN
    OBVIOUS
  <2>2. ends \in 0..1
    OBVIOUS
  <2>3. QED
    BY <2>1, <2>2 DEF EndType
<1>4. OwnerType
  BY DEF OwnerType
<1>5. LoopType
  BY DEF LoopType
<1>6. AdapterType
  BY EmptySeq DEF AdapterType
<1>7. Locking
  BY DEF Locking
<1>8. Closing
  BY DEF Closing
<1> QED
  BY <1>1, <1>2, <1>3, <1>4, <1>5, <1>6, <1>7, <1>8 DEF TypeInv, TypeOK

LEMMA TypeStep == TypeInv /\ [Next]_vars => TypeInv'
<1> SUFFICES ASSUME TypeInv, [Next]_vars PROVE TypeInv'
  OBVIOUS
<1> USE ClientAssumption DEF ClientAssumption, TypeInv, TypeOK
<1>1. ASSUME NEW c \in Callers, NEW e \in BOOLEAN, Begin(c, e) PROVE TypeInv'
  <2>1. RequestType'
    BY <1>1 DEF Begin, LockSendMu, RequestType, Seqs
  <2>2. InboxType'
    BY <1>1 DEF Begin, LockSendMu, InboxType
  <2>3. Locking'
    BY <1>1 DEF Begin, LockSendMu, Locking, RequestType, InboxType
  <2>4. QED
    BY <1>1, <2>1, <2>2, <2>3
       DEF Begin, LockSendMu, EndType, OwnerType, LoopType, AdapterType, Closing,
           adapterVars, endVars, loopVars, ownerVars
<1>2. ASSUME NEW c \in Callers, Write(c) PROVE TypeInv'
  <2>1. RequestType'
    BY <1>2 DEF Write, RequestType
  <2>2. InboxType'
    BY <1>2 DEF Write, InboxType
  <2>3. AdapterType'
    <3>1. call[c] \in Seqs
      BY <1>2 DEF Write, RequestType, InboxType, Locking, Seqs
    <3>2. wire' \in Seq(Seqs)
      <4>1. Append(wire, call[c]) \in Seq(Seqs)
        BY <3>1, AppendProperties DEF AdapterType
      <4>2. QED
        BY <1>2, <4>1 DEF Write
    <3>3. QED
      BY <1>2, <3>2 DEF Write, AdapterType, adapterVars
  <2>4. Locking'
    BY <1>2 DEF Write, Locking, RequestType, InboxType
  <2>5. QED
    BY <1>2, <2>1, <2>2, <2>3, <2>4
       DEF Write, EndType, OwnerType, LoopType, Closing,
           endVars, loopVars, ownerVars
<1>3. ASSUME NEW c \in Callers, WriteFails(c) PROVE TypeInv'
  <2>1. RequestType'
    BY <1>3 DEF WriteFails, RequestType
  <2>2. InboxType'
    BY <1>3 DEF WriteFails, InboxType
  <2>3. Locking'
    BY <1>3 DEF WriteFails, Locking, RequestType, InboxType
  <2>4. QED
    BY <1>3, <2>1, <2>2, <2>3
       DEF WriteFails, EndType, OwnerType, LoopType, AdapterType, Closing,
           adapterVars, endVars, loopVars, ownerVars
<1>4. ASSUME NEW c \in Callers, Take(c) PROVE TypeInv'
  <2>1. RequestType'
    BY <1>4 DEF Take, RequestType
  <2>2. InboxType'
    <3>1. PICK i \in 1..Len(inbox) :
            /\ inbox' = RemoveAt(inbox, i)
            /\ result' = IF inbox[i].type = "response"
                         THEN [result EXCEPT ![c] = inbox[i].id]
                         ELSE result
      BY <1>4 DEF Take, Queued
    <3>2. inbox' \in Seq(Message)
      BY <3>1, RemoveAtFacts DEF InboxType
    <3>3. result' \in [Callers -> Nat]
      <4>1. inbox[i] \in Message
        BY <3>1, ElementOfSeq DEF InboxType
      <4>2. QED
        BY <3>1, <4>1 DEF InboxType, Message
    <3>4. QED
      BY <1>4, <3>2, <3>3 DEF Take, InboxType
  <2>3. Locking'
    BY <1>4 DEF Take, Locking, RequestType, InboxType
  <2>4. QED
    BY <1>4, <2>1, <2>2, <2>3
       DEF Take, EndType, OwnerType, LoopType, AdapterType, Closing,
           adapterVars, endVars, loopVars, ownerVars
<1>5. ASSUME NEW c \in Callers, WaitFails(c) PROVE TypeInv'
  <2>1. RequestType'
    BY <1>5 DEF WaitFails, RequestType
  <2>2. InboxType'
    BY <1>5 DEF WaitFails, InboxType
  <2>3. Locking'
    BY <1>5 DEF WaitFails, Locking, RequestType, InboxType
  <2>4. QED
    BY <1>5, <2>1, <2>2, <2>3
       DEF WaitFails, EndType, OwnerType, LoopType, AdapterType, Closing,
           adapterVars, endVars, loopVars, ownerVars
<1>6. ASSUME NEW c \in Callers, Park(c) PROVE TypeInv'
  <2>1. InboxType'
    BY <1>6 DEF Park, InboxType
  <2>2. Locking'
    BY <1>6 DEF Park, Locking, RequestType, InboxType, requestVars
  <2>3. QED
    BY <1>6, <2>1, <2>2
       DEF Park, RequestType, EndType, OwnerType, LoopType, AdapterType, Closing,
           adapterVars, endVars, loopVars, ownerVars, requestVars
<1>7. ASSUME NEW c \in Callers, GiveUp(c) PROVE TypeInv'
  <2>1. RequestType'
    BY <1>7 DEF GiveUp, RequestType
  <2>2. InboxType'
    BY <1>7 DEF GiveUp, InboxType
  <2>3. Locking'
    BY <1>7 DEF GiveUp, Locking, RequestType, InboxType
  <2>4. QED
    BY <1>7, <2>1, <2>2, <2>3
       DEF GiveUp, EndType, OwnerType, LoopType, AdapterType, Closing,
           adapterVars, endVars, loopVars, ownerVars
<1>8. CASE ReadMessage
  <2>1. LoopType'
    BY <1>8, HeadTailProperties DEF ReadMessage, LoopType, AdapterType
  <2>2. AdapterType'
    BY <1>8, HeadTailProperties DEF ReadMessage, AdapterType, adapterVars
  <2>3. QED
    BY <1>8, <2>1, <2>2
       DEF ReadMessage, RequestType, InboxType, EndType, OwnerType, Locking, Closing,
           endVars, inboxVars, ownerVars, requestVars
<1>9. CASE ReadFails
  <2>1. LoopType'
    BY <1>9 DEF ReadFails, LoopType
  <2>2. QED
    BY <1>9, <2>1
       DEF ReadFails, RequestType, InboxType, EndType, OwnerType, AdapterType, Locking, Closing,
           adapterVars, endVars, inboxVars, ownerVars, requestVars
<1>10. CASE Dispatch
  <2>1. RequestType'
    BY <1>10 DEF Dispatch, RequestType
  <2>2. LoopType'
    <3>1. hand.id \in Nat
      BY DEF LoopType, Message, Nothing
    <3>2. observed' \in Nat
      BY <1>10, <3>1 DEF Dispatch, ObservedIfHandled, LoopType
    <3>3. acked' \subseteq Seqs
      BY <1>10 DEF Dispatch, AckedBySuccess, LoopType, RequestType
    <3>4. QED
      BY <1>10, <3>2, <3>3 DEF Dispatch, LoopType
  <2>3. QED
    BY <1>10, <2>1, <2>2
       DEF Dispatch, InboxType, EndType, OwnerType, AdapterType, Locking, Closing,
           adapterVars, endVars, inboxVars, ownerVars, requestVars
<1>11. CASE Publish
  <2>1. InboxType'
    <3>1. inbox' \in Seq(Message)
      <4>1. hand # Nothing => Append(inbox, hand) \in Seq(Message)
        BY AppendProperties DEF InboxType, LoopType
      <4>2. QED
        BY <1>11, <4>1 DEF Publish, InboxType
    <3>2. pc' \in [Callers -> {"idle", "write", "scan", "parked"}]
      BY <1>11 DEF Publish, Notified, InboxType
    <3>3. QED
      BY <1>11, <3>1, <3>2 DEF Publish, InboxType
  <2>2. LoopType'
    BY <1>11 DEF Publish, LoopType
  <2>3. Locking'
    BY <1>11 DEF Publish, Notified, Locking, InboxType, requestVars
  <2>4. QED
    BY <1>11, <2>1, <2>2, <2>3
       DEF Publish, RequestType, EndType, OwnerType, AdapterType, Closing,
           adapterVars, endVars, ownerVars, requestVars
<1>12. CASE EndLoop
  <2>1. EndType'
    <3>1. ends' \in 0..1
      BY <1>12 DEF EndLoop, EndTransport, EndType, Closing
    <3>2. QED
      BY <1>12, <3>1 DEF EndLoop, EndTransport, EndType
  <2>2. LoopType'
    BY <1>12 DEF EndLoop, EndTransport, LoopType
  <2>3. Closing'
    BY <1>12 DEF EndLoop, EndTransport, Closing, EndType, ownerVars
  <2>4. QED
    BY <1>12, <2>1, <2>2, <2>3
       DEF EndLoop, RequestType, InboxType, OwnerType, AdapterType, Locking,
           adapterVars, inboxVars, ownerVars, requestVars
<1>13. CASE CallbackReturns
  <2>1. LoopType'
    BY <1>13 DEF CallbackReturns, LoopType
  <2>2. QED
    BY <1>13, <2>1
       DEF CallbackReturns, RequestType, InboxType, EndType, OwnerType, AdapterType, Locking, Closing,
           adapterVars, endVars, inboxVars, ownerVars, requestVars
<1>14. CASE ClearHandlers
  <2>1. OwnerType'
    BY <1>14 DEF ClearHandlers, OwnerType
  <2>2. QED
    BY <1>14, <2>1
       DEF ClearHandlers, RequestType, InboxType, EndType, LoopType, AdapterType, Locking, Closing,
           adapterVars, endVars, inboxVars, loopVars, requestVars
<1>15. CASE Shutdown
  <2>1. EndType'
    BY <1>15 DEF Shutdown, EndType
  <2>2. OwnerType'
    BY <1>15 DEF Shutdown, OwnerType
  <2>3. Closing'
    <3>1. CASE closed
      BY <1>15, <3>1 DEF Shutdown, Closing, EndType
    <3>2. CASE ~closed
      BY <1>15, <3>2 DEF Shutdown, Closing, EndType
    <3>3. QED
      BY <3>1, <3>2
  <2>4. QED
    BY <1>15, <2>1, <2>2, <2>3
       DEF Shutdown, RequestType, InboxType, LoopType, AdapterType, Locking,
           adapterVars, inboxVars, loopVars, requestVars
<1>16. CASE Close
  <2>1. EndType'
    <3>1. ends' \in 0..1
      BY <1>16 DEF Close, EndTransport, EndType, Closing
    <3>2. QED
      BY <1>16, <3>1 DEF Close, EndTransport, EndType
  <2>2. Closing'
    BY <1>16 DEF Close, EndTransport, Closing, EndType, ownerVars
  <2>3. QED
    BY <1>16, <2>1, <2>2
       DEF Close, EndTransport, RequestType, InboxType, OwnerType, LoopType, AdapterType, Locking,
           adapterVars, inboxVars, loopVars, ownerVars, requestVars
<1>17. CASE AdapterReads
  <2>1. AdapterType'
    BY <1>17 DEF AdapterReads, AdapterType
  <2>2. QED
    BY <1>17, <2>1
       DEF AdapterReads, RequestType, InboxType, EndType, OwnerType, LoopType, Locking, Closing,
           endVars, inboxVars, loopVars, ownerVars, requestVars
<1>18. CASE AdapterExits
  <2>1. AdapterType'
    BY <1>18 DEF AdapterExits, AdapterType
  <2>2. QED
    BY <1>18, <2>1
       DEF AdapterExits, RequestType, InboxType, EndType, OwnerType, LoopType, Locking, Closing,
           endVars, inboxVars, loopVars, ownerVars, requestVars
<1>19. ASSUME NEW s \in Seqs, NEW ok \in BOOLEAN, Respond(s, ok) PROVE TypeInv'
  <2>1. AdapterType'
    BY <1>19, AppendProperties DEF Respond, AdapterType, Message, Seqs
  <2>2. QED
    BY <1>19, <2>1
       DEF Respond, RequestType, InboxType, EndType, OwnerType, LoopType, Locking, Closing,
           endVars, inboxVars, loopVars, ownerVars, requestVars
<1>20. ASSUME NEW type \in EventTypes, Emit(type) PROVE TypeInv'
  <2>1. AdapterType'
    BY <1>20, AppendProperties DEF Emit, AdapterType, Message
  <2>2. QED
    BY <1>20, <2>1
       DEF Emit, RequestType, InboxType, EndType, OwnerType, LoopType, Locking, Closing,
           endVars, inboxVars, loopVars, ownerVars, requestVars
<1>21. CASE UNCHANGED vars
  BY <1>21 DEF vars, adapterVars, endVars, inboxVars, loopVars, ownerVars, requestVars,
     RequestType, InboxType, EndType, OwnerType, LoopType, AdapterType, Locking, Closing
<1>22. ASSUME NEW c \in Callers, NEW e \in BOOLEAN,
               Begin(c, e) \/ Write(c) \/ WriteFails(c) \/ WaitStep(c) \/ GiveUp(c)
       PROVE  TypeInv'
  BY <1>1, <1>2, <1>3, <1>4, <1>5, <1>6, <1>7, <1>22 DEF WaitStep
<1>23. CASE LoopStep \/ CleanupStep \/ Close
  BY <1>8, <1>9, <1>10, <1>11, <1>12, <1>13, <1>14, <1>15, <1>16, <1>23 DEF LoopStep, CleanupStep
<1>24. CASE AdapterStep
  BY <1>17, <1>18, <1>19, <1>20, <1>24 DEF AdapterStep
<1> QED
  BY <1>21, <1>22, <1>23, <1>24 DEF Next

\* The state of the client always has its declared type.
THEOREM TypeCorrect == Spec => []TypeOK
<1>1. TypeInv => TypeOK
  BY DEF TypeInv
<1>2. QED
  BY <1>1, TypeInit, TypeStep, PTL DEF Spec

LEMMA Typed == Spec => []TypeInv
BY TypeInit, TypeStep, PTL DEF Spec

------------------------------------------------------------------------------
(* The end of the connection and the limit of the inbox.                    *)

\* Only the read loop, Close, Shutdown and the waiters that take a message touch
\* the end of the connection and the inbox.
LEMMA OtherSteps ==
    [Next]_vars => \/ LoopStep \/ Shutdown \/ Close \/ \E c \in Callers : Take(c)
                   \/ UNCHANGED <<rl, closed, readErr, inbox>>
BY DEF Next, WaitStep, CleanupStep, AdapterStep, Begin, Write, WriteFails, WaitFails, Park,
       GiveUp, ClearHandlers, AdapterReads, AdapterExits, Respond, Emit,
       vars, endVars, inboxVars, loopVars

LoopEnded == rl \in {"done", "lastCallback"} => closed

EndInv == LoopEnded /\ InboxBounded

LEMMA EndInit == Init => EndInv
BY ClientAssumption DEF ClientAssumption, Init, EndInv, LoopEnded, InboxBounded

LEMMA EndStep == TypeInv /\ TypeInv' /\ EndInv /\ [Next]_vars => EndInv'
<1> SUFFICES ASSUME TypeInv, TypeInv', EndInv, [Next]_vars PROVE EndInv'
  OBVIOUS
<1> USE ClientAssumption DEF ClientAssumption, EndInv, LoopEnded, InboxBounded
<1>0. /\ inbox \in Seq(Message)
      /\ readErr \in BOOLEAN
      /\ closed \in BOOLEAN
      /\ hand # Nothing => hand \in Message
  BY DEF TypeInv, TypeOK, InboxType, EndType, LoopType
<1>1. CASE ReadMessage
  BY <1>1 DEF ReadMessage, inboxVars, endVars
<1>2. CASE ReadFails
  BY <1>2 DEF ReadFails, inboxVars, endVars
<1>3. CASE Dispatch
  BY <1>3 DEF Dispatch, inboxVars, endVars
<1>4. CASE Publish
  <2>1. CASE hand = Nothing \/ Overflow
    BY <1>4, <2>1 DEF Publish
  <2>2. CASE ~(hand = Nothing \/ Overflow)
    <3>1. Len(Append(inbox, hand)) = Len(inbox) + 1
      BY <1>0, <2>2, AppendProperties
    <3>2. Len(inbox) < Limit
      BY <1>0, <2>2, LenProperties DEF Overflow
    <3>3. QED
      BY <1>0, <1>4, <2>2, <3>1, <3>2, LenProperties DEF Publish
  <2>3. QED
    BY <2>1, <2>2
<1>5. CASE EndLoop
  BY <1>5 DEF EndLoop, EndTransport, inboxVars
<1>6. CASE CallbackReturns
  BY <1>6 DEF CallbackReturns, inboxVars, endVars
<1>7. CASE Shutdown
  BY <1>7 DEF Shutdown, inboxVars, loopVars
<1>8. CASE Close
  BY <1>8 DEF Close, EndTransport, inboxVars, loopVars
<1>9. ASSUME NEW c \in Callers, Take(c) PROVE EndInv'
  <2>1. PICK i \in 1..Len(inbox) : inbox' = RemoveAt(inbox, i)
    BY <1>9 DEF Take, Queued
  <2>2. Len(inbox') <= Limit
    BY <1>0, <2>1, RemoveAtFacts, LenProperties
  <2>3. QED
    BY <1>9, <2>2 DEF Take, endVars, loopVars
<1>10. CASE UNCHANGED <<rl, closed, readErr, inbox>>
  BY <1>10
<1> QED
  BY <1>1, <1>2, <1>3, <1>4, <1>5, <1>6, <1>7, <1>8, <1>9, <1>10, OtherSteps DEF LoopStep

\* The inbox never holds more than maxDAPInboxMessages messages, and a read loop
\* that met the limit or a read error never reads another message.
THEOREM InboxStaysBounded == Spec => []InboxBounded
<1>1. EndInv => InboxBounded
  BY DEF EndInv
<1>2. QED
  BY <1>1, Typed, EndInit, EndStep, PTL DEF Spec

\* The transport is closed once, and the session's callback runs exactly for the
\* closes the session did not ask for.
THEOREM EndsOnce == Spec => []EndOnce
<1>1. TypeInv /\ EndInv => EndOnce
  <2> SUFFICES ASSUME TypeInv, EndInv PROVE EndOnce
    OBVIOUS
  <2>1. closed \in BOOLEAN /\ shut \in BOOLEAN /\ ends \in {0, 1}
    BY DEF TypeInv, TypeOK, EndType
  <2>2. closed <=> ends + (IF shut THEN 1 ELSE 0) = 1
    <3>1. CASE closed
      BY <2>1, <3>1 DEF TypeInv, Closing
    <3>2. CASE ~closed
      BY <2>1, <3>2 DEF TypeInv, Closing
    <3>3. QED
      BY <3>1, <3>2
  <2>3. QED
    BY <2>2 DEF EndInv, LoopEnded, EndOnce
<1>2. QED
  BY <1>1, Typed, EndInit, EndStep, PTL DEF Spec

------------------------------------------------------------------------------
(* No lost wakeup.                                                          *)

\* A number is used for one request.
Numbered == \A c \in Callers : call[c] < seq

WakeInv == NoLostWakeup /\ Numbered

LEMMA WakeInit == Init => WakeInv
BY DEF Init, WakeInv, NoLostWakeup, Numbered

\* The steps after which nobody has more to wake up for.
LEMMA QuietSteps ==
    [Next]_vars => \/ \E c \in Callers : \/ \E e \in BOOLEAN : Begin(c, e)
                                         \/ Write(c) \/ WriteFails(c) \/ WaitStep(c) \/ GiveUp(c)
                   \/ Publish
                   \/ UNCHANGED <<pc, call, exec, seq, readErr, inbox>>
BY DEF Next, LoopStep, CleanupStep, AdapterStep, ReadMessage, ReadFails, Dispatch, EndLoop,
       CallbackReturns, Close, ClearHandlers, Shutdown, AdapterReads, AdapterExits, Respond, Emit,
       vars, requestVars, inboxVars

LEMMA WakeStep == TypeInv /\ WakeInv /\ [Next]_vars => WakeInv'
<1> SUFFICES ASSUME TypeInv, WakeInv, [Next]_vars PROVE WakeInv'
  OBVIOUS
<1>0. /\ seq \in Nat
      /\ call \in [Callers -> Nat]
      /\ pc \in [Callers -> {"idle", "write", "scan", "parked"}]
      /\ inbox \in Seq(Message)
  BY ClientAssumption DEF ClientAssumption, TypeInv, TypeOK, RequestType, InboxType
\* The callers other than c stay asleep when the inbox, the read error and what
\* they wait for stay as they are.
<1>1. ASSUME NEW c \in Callers,
             pc'[c] # "parked",
             \A d \in Callers \ {c} : pc'[d] = pc[d] /\ call'[d] = call[d]
                                      /\ (call[d] \in exec' <=> call[d] \in exec),
             inbox' = inbox,
             readErr' = readErr
      PROVE  NoLostWakeup'
  BY <1>1 DEF WakeInv, NoLostWakeup, Queued, Wants
<1>2. ASSUME NEW c \in Callers, NEW e \in BOOLEAN, Begin(c, e) PROVE WakeInv'
  <2>1. /\ pc' = [pc EXCEPT ![c] = "write"]
        /\ call' = [call EXCEPT ![c] = seq]
        /\ exec' \in {exec, exec \union {seq}}
        /\ seq' = seq + 1
        /\ inbox' = inbox /\ readErr' = readErr
    BY <1>2 DEF Begin
  <2>2. \A d \in Callers : call[d] # seq
    BY <1>0 DEF WakeInv, Numbered
  <2>3. NoLostWakeup'
    BY <1>0, <1>1, <2>1, <2>2
  <2>4. Numbered'
    BY <1>0, <2>1 DEF WakeInv, Numbered
  <2>5. QED
    BY <2>3, <2>4 DEF WakeInv
<1>3. ASSUME NEW c \in Callers, Write(c) PROVE WakeInv'
  BY <1>0, <1>1, <1>3 DEF Write, WakeInv, Numbered
<1>4. ASSUME NEW c \in Callers, WriteFails(c) \/ WaitFails(c) \/ GiveUp(c) PROVE WakeInv'
  <2>1. /\ pc' = [pc EXCEPT ![c] = "idle"]
        /\ call' = [call EXCEPT ![c] = 0]
        /\ UNCHANGED <<exec, seq, inbox, readErr>>
    BY <1>4 DEF WriteFails, WaitFails, GiveUp
  <2>2. NoLostWakeup'
    BY <1>0, <1>1, <2>1
  <2>3. Numbered'
    BY <1>0, <2>1, ClientAssumption DEF WakeInv, Numbered, TypeInv, TypeOK, RequestType
  <2>4. QED
    BY <2>2, <2>3 DEF WakeInv
<1>5. ASSUME NEW c \in Callers, Take(c) PROVE WakeInv'
  <2>1. PICK i \in 1..Len(inbox) : inbox' = RemoveAt(inbox, i)
    BY <1>5 DEF Take, Queued
  <2>2. /\ pc[c] = "scan"
        /\ \/ pc' = pc /\ call' = call
           \/ pc' = [pc EXCEPT ![c] = "idle"] /\ call' = [call EXCEPT ![c] = 0]
    BY <1>5 DEF Take
  <2>3. UNCHANGED <<exec, seq, readErr>>
    BY <1>5 DEF Take
  <2>4. ASSUME NEW d \in Callers, pc'[d] = "parked" PROVE ~readErr' /\ Queued(d)' = {}
    <3>1. d # c /\ pc[d] = "parked" /\ call'[d] = call[d]
      BY <1>0, <2>2, <2>4
    <3>2. ~readErr /\ Queued(d) = {}
      BY <3>1 DEF WakeInv, NoLostWakeup
    <3>3. ASSUME NEW j \in 1..Len(inbox') PROVE ~Wants(d, inbox[j])'
      <4>1. /\ Len(inbox) \in Nat
            /\ Len(inbox') = Len(inbox) - 1
            /\ \A k \in 1..(Len(inbox) - 1) : inbox'[k] = inbox[IF k < i THEN k ELSE k + 1]
        BY <1>0, <2>1, RemoveAtFacts, LenProperties
      <4>2. PICK k \in 1..Len(inbox) : inbox'[j] = inbox[k]
        <5>1. (IF j < i THEN j ELSE j + 1) \in 1..Len(inbox)
          BY <4>1
        <5>2. QED
          BY <4>1, <5>1
      <4>3. ~Wants(d, inbox[k])
        BY <3>2 DEF Queued
      <4>4. QED
        BY <2>3, <3>1, <4>2, <4>3 DEF Wants
    <3>4. QED
      BY <2>3, <3>2, <3>3 DEF Queued
  <2>5. Numbered'
    BY <1>0, <2>2, <2>3, ClientAssumption DEF WakeInv, Numbered, TypeInv, TypeOK, RequestType
  <2>6. QED
    BY <2>4, <2>5 DEF WakeInv, NoLostWakeup
<1>6. ASSUME NEW c \in Callers, Park(c) PROVE WakeInv'
  BY <1>0, <1>6 DEF Park, WakeInv, NoLostWakeup, Numbered, Queued, Wants, requestVars
<1>7. CASE Publish
  BY <1>0, <1>7 DEF Publish, Notified, WakeInv, NoLostWakeup, Numbered, requestVars
<1>8. CASE UNCHANGED <<pc, call, exec, seq, readErr, inbox>>
  BY <1>8 DEF WakeInv, NoLostWakeup, Numbered, Queued, Wants
<1> QED
  BY <1>2, <1>3, <1>4, <1>5, <1>6, <1>7, <1>8, QuietSteps DEF WaitStep

\* A caller asleep on the notify channel never has a message for it in the inbox
\* nor a read error to return.
THEOREM NoWakeupLost == Spec => []NoLostWakeup
<1>1. WakeInv => NoLostWakeup
  BY DEF WakeInv
<1>2. QED
  BY <1>1, Typed, WakeInit, WakeStep, PTL DEF Spec

------------------------------------------------------------------------------
(* The order of the requests on the wire.                                   *)

\* Whatever has been written is smaller than the next number and than the number
\* of the request being written.
Below(s) == s < seq /\ \A c \in Callers : pc[c] = "write" => s < call[c]

OrderInv ==
    /\ WireOrder
    /\ \A i \in 1..Len(wire) : Below(wire[i])
    /\ \A s \in todo \union answered : Below(s)

LEMMA OrderInit == Init => OrderInv
BY DEF Init, OrderInv, WireOrder, Below

\* The steps that write, read or answer a request or change who is writing.
LEMMA OrderSteps ==
    [Next]_vars => \/ \E c \in Callers : \/ \E e \in BOOLEAN : Begin(c, e)
                                         \/ Write(c) \/ WriteFails(c) \/ WaitStep(c) \/ GiveUp(c)
                   \/ Publish \/ AdapterReads
                   \/ \E s \in Seqs, ok \in BOOLEAN : Respond(s, ok)
                   \/ UNCHANGED <<pc, call, seq, wire, todo, answered>>
BY DEF Next, LoopStep, CleanupStep, AdapterStep, ReadMessage, ReadFails, Dispatch, EndLoop,
       CallbackReturns, Close, ClearHandlers, Shutdown, AdapterExits, Emit,
       vars, requestVars, inboxVars, adapterVars

LEMMA OrderStep == TypeInv /\ OrderInv /\ [Next]_vars => OrderInv'
<1> SUFFICES ASSUME TypeInv, OrderInv, [Next]_vars PROVE OrderInv'
  OBVIOUS
<1>0. /\ seq \in Nat
      /\ call \in [Callers -> Nat]
      /\ pc \in [Callers -> {"idle", "write", "scan", "parked"}]
      /\ wire \in Seq(Nat) /\ Len(wire) \in Nat
      /\ \A i \in 1..Len(wire) : wire[i] \in Nat
      /\ todo \subseteq Nat /\ answered \subseteq Nat
  <2>1. wire \in Seq(Seqs) /\ Seqs \subseteq Nat
    BY DEF TypeInv, TypeOK, AdapterType, Seqs
  <2>2. wire \in Seq(Nat)
    BY <2>1, SeqMonotonic
  <2>3. Len(wire) \in Nat /\ \A i \in 1..Len(wire) : wire[i] \in Nat
    BY <2>2, LenProperties, ElementOfSeq
  <2>4. QED
    BY <2>1, <2>2, <2>3, ClientAssumption
       DEF ClientAssumption, TypeInv, TypeOK, RequestType, InboxType, AdapterType
\* When the requests stay where they are and nobody starts to write, so does the
\* order.
<1>1. ASSUME UNCHANGED <<seq, wire, todo, answered>>,
             \A c \in Callers : pc'[c] = "write" => pc[c] = "write" /\ call'[c] = call[c]
      PROVE  OrderInv'
  BY <1>1 DEF OrderInv, WireOrder, Below
<1>2. ASSUME NEW c \in Callers, NEW e \in BOOLEAN, Begin(c, e) PROVE OrderInv'
  <2>1. /\ pc' = [pc EXCEPT ![c] = "write"]
        /\ call' = [call EXCEPT ![c] = seq]
        /\ seq' = seq + 1
        /\ UNCHANGED <<wire, todo, answered>>
    BY <1>2 DEF Begin, adapterVars
  <2>2. ASSUME NEW s \in Nat, Below(s) PROVE Below(s)'
    BY <1>0, <2>1, <2>2 DEF Below
  <2>3. QED
    BY <1>0, <2>1, <2>2 DEF OrderInv, WireOrder
<1>3. ASSUME NEW c \in Callers, Write(c) PROVE OrderInv'
  <2>1. /\ pc[c] = "write" /\ pc' = [pc EXCEPT ![c] = "scan"]
        /\ wire' = Append(wire, call[c])
        /\ UNCHANGED <<seq, call, todo, answered>>
    BY <1>3 DEF Write, adapterVars
  <2>2. call[c] < seq /\ \A d \in Callers : pc'[d] # "write"
    BY <1>0, <2>1 DEF TypeInv, Locking
  <2>3. /\ Len(wire') = Len(wire) + 1
        /\ \A i \in 1..Len(wire) : wire'[i] = wire[i]
        /\ wire'[Len(wire) + 1] = call[c]
    BY <1>0, <2>1, AppendProperties
  <2>4. \A i \in 1..Len(wire) : wire[i] < call[c]
    BY <2>1 DEF OrderInv, Below
  <2>5. \A s \in todo \union answered : s < call[c]
    BY <2>1 DEF OrderInv, Below
  <2>6. \A i \in 1..Len(wire') : i \in 1..Len(wire) \/ i = Len(wire) + 1
    BY <1>0, <2>3
  <2>7. WireOrder'
    <3>1. ASSUME NEW i \in 1..Len(wire'), NEW j \in 1..Len(wire'), i < j
          PROVE  wire'[i] < wire'[j]
      <4>1. i \in 1..Len(wire)
        BY <1>0, <2>3, <3>1
      <4>2. CASE j \in 1..Len(wire)
        BY <2>3, <3>1, <4>1, <4>2 DEF OrderInv, WireOrder
      <4>3. CASE j = Len(wire) + 1
        BY <2>3, <2>4, <4>1, <4>3
      <4>4. QED
        BY <2>6, <4>2, <4>3
    <3>2. ASSUME NEW i \in 1..Len(wire'), NEW s \in (todo \union answered)'
          PROVE  s < wire'[i]
      BY <2>1, <2>3, <2>5, <2>6 DEF OrderInv, WireOrder
    <3>3. QED
      BY <3>1, <3>2 DEF WireOrder
  <2>8. \A i \in 1..Len(wire') : Below(wire[i])'
    BY <2>1, <2>2, <2>3, <2>6 DEF OrderInv, Below
  <2>9. \A s \in (todo \union answered)' : Below(s)'
    BY <2>1, <2>2 DEF OrderInv, Below
  <2>10. QED
    BY <2>7, <2>8, <2>9 DEF OrderInv
<1>4. ASSUME NEW c \in Callers, WriteFails(c) \/ WaitStep(c) \/ GiveUp(c) PROVE OrderInv'
  <2>1. /\ UNCHANGED <<seq, wire, todo, answered>>
        /\ \/ pc' \in {[pc EXCEPT ![c] = "idle"], [pc EXCEPT ![c] = "parked"]}
              /\ call' \in {call, [call EXCEPT ![c] = 0]}
           \/ pc' = pc /\ call' = call
    BY <1>4 DEF WriteFails, WaitStep, Take, WaitFails, Park, GiveUp, adapterVars, requestVars
  <2>2. QED
    BY <1>0, <1>1, <2>1
<1>5. CASE Publish
  <2>1. UNCHANGED <<seq, call, wire, todo, answered>> /\ pc' = Notified
    BY <1>5 DEF Publish, adapterVars, requestVars
  <2>2. QED
    BY <1>0, <1>1, <2>1 DEF Notified
<1>6. CASE AdapterReads
  <2>1. /\ wire # <<>> /\ wire' = Tail(wire) /\ todo' = todo \union {Head(wire)}
        /\ UNCHANGED <<seq, call, pc, answered>>
    BY <1>6 DEF AdapterReads, requestVars, inboxVars
  <2>2. /\ Len(wire) > 0 /\ Len(wire') = Len(wire) - 1
        /\ Head(wire) = wire[1]
        /\ \A i \in 1..Len(wire') : wire'[i] = wire[i + 1]
    BY <1>0, <2>1, HeadTailProperties, EmptySeq
  <2>3. \A i \in 1..Len(wire') : i + 1 \in 1..Len(wire) /\ 1 < i + 1
    BY <1>0, <2>2
  <2>4. 1 \in 1..Len(wire)
    BY <1>0, <2>2
  <2>5. \A s \in (todo \union answered)' : s \in todo \union answered \/ s = wire[1]
    BY <2>1, <2>2
  <2>6. WireOrder'
    <3>1. ASSUME NEW i \in 1..Len(wire'), NEW j \in 1..Len(wire'), i < j
          PROVE  wire'[i] < wire'[j]
      <4>1. i + 1 < j + 1 /\ i + 1 \in 1..Len(wire) /\ j + 1 \in 1..Len(wire)
        BY <1>0, <2>2, <2>3, <3>1
      <4>2. wire[i + 1] < wire[j + 1]
        BY <4>1 DEF OrderInv, WireOrder
      <4>3. QED
        BY <2>2, <4>2
    <3>2. ASSUME NEW i \in 1..Len(wire'), NEW s \in (todo \union answered)'
          PROVE  s < wire'[i]
      BY <2>2, <2>3, <2>4, <2>5 DEF OrderInv, WireOrder
    <3>3. QED
      BY <3>1, <3>2 DEF WireOrder
  <2>7. \A i \in 1..Len(wire') : Below(wire[i])'
    BY <2>1, <2>2, <2>3 DEF OrderInv, Below
  <2>8. \A s \in (todo \union answered)' : Below(s)'
    BY <2>1, <2>4, <2>5 DEF OrderInv, Below
  <2>9. QED
    BY <2>6, <2>7, <2>8 DEF OrderInv
<1>7. ASSUME NEW s \in Seqs, NEW ok \in BOOLEAN, Respond(s, ok) PROVE OrderInv'
  <2>1. /\ (todo \union answered)' = todo \union answered
        /\ UNCHANGED <<seq, call, pc, wire>>
    BY <1>7 DEF Respond, requestVars, inboxVars
  <2>2. QED
    BY <2>1 DEF OrderInv, WireOrder, Below
<1>8. CASE UNCHANGED <<pc, call, seq, wire, todo, answered>>
  BY <1>1, <1>8
<1> QED
  BY <1>2, <1>3, <1>4, <1>5, <1>6, <1>7, <1>8, OrderSteps

\* Requests issued concurrently reach the wire, and the adapter, in the order of
\* their sequence numbers.
THEOREM RequestsInOrder == Spec => []WireOrder
<1>1. OrderInv => WireOrder
  BY DEF OrderInv
<1>2. QED
  BY <1>1, Typed, OrderInit, OrderStep, PTL DEF Spec

------------------------------------------------------------------------------
(* Events reach the handler before the waiters.                             *)

IsEvent(m) == m \in Message /\ m.type # "response"

\* Events keep their order on the way from the adapter through the read loop's hand to the
\* inbox, and only one that the handler has seen gets there.
Ascending ==
    /\ \A i \in 1..Len(stream) : IsEvent(stream[i]) => stream[i].id <= events
    /\ \A i, j \in 1..Len(stream) :
          i < j /\ IsEvent(stream[i]) /\ IsEvent(stream[j]) => stream[i].id < stream[j].id
    /\ IsEvent(hand) =>
          /\ hand.id <= events
          /\ \A j \in 1..Len(stream) : IsEvent(stream[j]) => hand.id < stream[j].id

Behind ==
    \A i \in 1..Len(inbox) : IsEvent(inbox[i]) =>
        /\ inbox[i].id <= events
        /\ IsEvent(hand) => inbox[i].id < hand.id
        /\ \A j \in 1..Len(stream) : IsEvent(stream[j]) => inbox[i].id < stream[j].id
        /\ onEvent => inbox[i].id <= observed
        /\ \A j \in 1..Len(inbox) : i < j /\ IsEvent(inbox[j]) => inbox[i].id < inbox[j].id

Seen ==
    /\ rl = "dispatch" => hand \in Message
    /\ rl = "publish" /\ IsEvent(hand) /\ onEvent => hand.id <= observed

EventInv == Ascending /\ Behind /\ Seen

LEMMA EventInit == Init => EventInv
<1>1. Init => Len(stream) = 0 /\ Len(inbox) = 0 /\ hand = Nothing /\ rl = "read"
  BY DEF Init
<1>2. ~IsEvent(Nothing)
  BY ClientAssumption DEF ClientAssumption, IsEvent, Nothing, Message
<1> QED
  BY <1>1, <1>2 DEF EventInv, Ascending, Behind, Seen

\* The steps that move an event or see one.
LEMMA EventSteps ==
    [Next]_vars => \/ ReadMessage \/ ReadFails \/ Dispatch \/ Publish
                   \/ \E c \in Callers : Take(c)
                   \/ \E s \in Seqs, ok \in BOOLEAN : Respond(s, ok)
                   \/ \E type \in EventTypes : Emit(type)
                   \/ /\ UNCHANGED <<hand, stream, inbox, observed, events>>
                      /\ onEvent' => onEvent
                      /\ rl' \in {"dispatch", "publish"} => rl' = rl
BY DEF Next, LoopStep, CleanupStep, AdapterStep, WaitStep, Begin, Write, WriteFails, WaitFails,
       Park, GiveUp, EndLoop, CallbackReturns, Close, ClearHandlers, Shutdown, AdapterReads,
       AdapterExits, vars, requestVars, inboxVars, loopVars, ownerVars, adapterVars

LEMMA EventStep == TypeInv /\ EventInv /\ [Next]_vars => EventInv'
<1> SUFFICES ASSUME TypeInv, EventInv, [Next]_vars PROVE EventInv'
  OBVIOUS
<1> USE DEF EventInv, Ascending, Behind, Seen
<1>0. /\ inbox \in Seq(Message) /\ Len(inbox) \in Nat
      /\ \A i \in 1..Len(inbox) : inbox[i] \in Message /\ inbox[i].id \in Nat
      /\ stream \in Seq(Message) /\ Len(stream) \in Nat
      /\ \A i \in 1..Len(stream) : stream[i] \in Message /\ stream[i].id \in Nat
      /\ events \in Nat /\ observed \in Nat /\ onEvent \in BOOLEAN
      /\ hand # Nothing => hand \in Message /\ hand.id \in Nat
  <2>1. /\ inbox \in Seq(Message) /\ stream \in Seq(Message) /\ events \in Nat
        /\ observed \in Nat /\ onEvent \in BOOLEAN /\ hand \in Message \union {Nothing}
    BY DEF TypeInv, TypeOK, InboxType, AdapterType, LoopType, OwnerType
  <2>2. \A m \in Message : m.id \in Nat
    BY DEF Message
  <2>3. /\ Len(inbox) \in Nat /\ Len(stream) \in Nat
        /\ \A i \in 1..Len(inbox) : inbox[i] \in Message
        /\ \A i \in 1..Len(stream) : stream[i] \in Message
    BY <2>1, LenProperties, ElementOfSeq
  <2> QED
    BY <2>1, <2>2, <2>3
<1>1. ~IsEvent(Nothing)
  BY ClientAssumption DEF ClientAssumption, IsEvent, Nothing, Message
<1>2. \A m : IsEvent(m) => m.id \in Nat
  BY DEF IsEvent, Message
<1>3. CASE ReadMessage
  <2>1. /\ stream # <<>> /\ hand' = Head(stream) /\ stream' = Tail(stream) /\ rl' = "dispatch"
        /\ UNCHANGED <<inbox, observed, events, onEvent>>
    BY <1>3 DEF ReadMessage, inboxVars, ownerVars, adapterVars
  <2>2. /\ 1 \in 1..Len(stream) /\ hand' = stream[1] /\ hand' \in Message
        /\ Len(stream') = Len(stream) - 1
        /\ \A i \in 1..Len(stream') :
              stream'[i] = stream[i + 1] /\ i + 1 \in 1..Len(stream) /\ 1 < i + 1
    BY <1>0, <2>1, HeadTailProperties, EmptySeq
  <2>3. Ascending'
    BY <1>0, <1>2, <2>1, <2>2
  <2>4. Behind'
    BY <1>0, <1>2, <2>1, <2>2
  <2> QED
    BY <2>1, <2>2, <2>3, <2>4
<1>4. CASE ReadFails
  BY <1>1, <1>4 DEF ReadFails, inboxVars, ownerVars, adapterVars
<1>5. CASE Dispatch
  <2>1. /\ rl' = "publish" /\ hand \in Message
        /\ UNCHANGED <<hand, stream, inbox, events, onEvent>>
        /\ observed' = IF IsEvent(hand) /\ onEvent THEN hand.id ELSE observed
    BY <1>5 DEF Dispatch, ObservedIfHandled, inboxVars, ownerVars, adapterVars, IsEvent
  <2> QED
    BY <1>0, <1>2, <2>1
<1>6. CASE Publish
  <2>1. UNCHANGED <<stream, observed, events, onEvent>> /\ hand' = Nothing /\ rl = "publish"
        /\ rl' \in {"end", "callback", "read"}
    BY <1>6 DEF Publish, ownerVars, adapterVars
  <2>2. CASE inbox' = inbox
    BY <1>1, <2>1, <2>2
  <2>3. CASE inbox' = Append(inbox, hand) /\ hand \in Message
    <3>1. /\ Len(inbox') = Len(inbox) + 1 /\ inbox'[Len(inbox) + 1] = hand
          /\ \A i \in 1..Len(inbox) : inbox'[i] = inbox[i]
          /\ \A i \in 1..Len(inbox') : i \in 1..Len(inbox) \/ i = Len(inbox) + 1
      BY <1>0, <2>3, AppendProperties
    <3>2. IsEvent(hand) =>
             /\ hand.id <= events
             /\ \A j \in 1..Len(stream) : IsEvent(stream[j]) => hand.id < stream[j].id
             /\ onEvent => hand.id <= observed
             /\ \A j \in 1..Len(inbox) : IsEvent(inbox[j]) => inbox[j].id < hand.id
      BY <2>1
    <3>3. ASSUME NEW i \in 1..Len(inbox'), IsEvent(inbox'[i])
          PROVE  /\ inbox'[i].id <= events
                 /\ \A j \in 1..Len(stream) : IsEvent(stream[j]) => inbox'[i].id < stream[j].id
                 /\ onEvent => inbox'[i].id <= observed
      BY <3>1, <3>2, <3>3
    <3>4. ASSUME NEW i \in 1..Len(inbox'), IsEvent(inbox'[i]),
                 NEW j \in 1..Len(inbox'), i < j, IsEvent(inbox'[j])
          PROVE  inbox'[i].id < inbox'[j].id
      <4>1. i \in 1..Len(inbox)
        BY <1>0, <3>1, <3>4
      <4> QED
        BY <3>1, <3>2, <3>4, <4>1
    <3>5. Behind'
      BY <1>1, <2>1, <3>3, <3>4
    <3> QED
      BY <1>1, <2>1, <3>5
  <2> QED
    BY <1>0, <1>6, <2>2, <2>3 DEF Publish
<1>7. ASSUME NEW c \in Callers, Take(c) PROVE EventInv'
  <2>1. UNCHANGED <<stream, hand, rl, observed, events, onEvent>>
    BY <1>7 DEF Take, loopVars, ownerVars, adapterVars
  <2>2. PICK i \in 1..Len(inbox) : inbox' = RemoveAt(inbox, i)
    BY <1>7 DEF Take, Queued
  <2>3. /\ Len(inbox') = Len(inbox) - 1
        /\ \A j \in 1..(Len(inbox) - 1) : inbox'[j] = inbox[IF j < i THEN j ELSE j + 1]
    <3>1. inbox \in Seq(Message)
      BY <1>0
    <3>2. /\ Len(RemoveAt(inbox, i)) = Len(inbox) - 1
          /\ \A j \in 1..(Len(inbox) - 1) :
                RemoveAt(inbox, i)[j] = inbox[IF j < i THEN j ELSE j + 1]
      BY <3>1, RemoveAtFacts
    <3> QED
      BY <2>2, <3>2
  <2> DEFINE old(j) == IF j < i THEN j ELSE j + 1
  <2>4. \A j \in 1..Len(inbox') : old(j) \in 1..Len(inbox) /\ inbox'[j] = inbox[old(j)]
    BY <1>0, <2>3
  <2>5. \A j, k \in 1..Len(inbox') : j < k => old(j) < old(k)
    BY <1>0, <2>3
  <2> HIDE DEF old
  <2>6. Behind'
    BY <1>0, <2>1, <2>4, <2>5
  <2> QED
    BY <2>1, <2>6
<1>8. ASSUME NEW s \in Seqs, NEW ok \in BOOLEAN, Respond(s, ok) PROVE EventInv'
  <2> DEFINE m == [type |-> "response", id |-> s, ok |-> ok]
  <2>1. /\ stream' = Append(stream, m) /\ m \in Message /\ ~IsEvent(m)
        /\ UNCHANGED <<inbox, hand, rl, observed, events, onEvent>>
    BY <1>8 DEF Respond, IsEvent, Message, Seqs, inboxVars, loopVars, ownerVars
  <2> HIDE DEF m
  <2>2. \A i \in 1..Len(stream') : \/ i \in 1..Len(stream) /\ stream'[i] = stream[i]
                                  \/ stream'[i] = m
    BY <1>0, <2>1, AppendProperties
  <2> QED
    BY <2>1, <2>2
<1>9. ASSUME NEW type \in EventTypes, Emit(type) PROVE EventInv'
  <2> DEFINE m == [type |-> type, id |-> events + 1, ok |-> TRUE]
  <2>1. /\ stream' = Append(stream, m) /\ m \in Message /\ m.id = events + 1
        /\ events' = events + 1
        /\ UNCHANGED <<inbox, hand, rl, observed, onEvent>>
    BY <1>0, <1>9 DEF Emit, Message, inboxVars, loopVars, ownerVars
  <2> HIDE DEF m
  <2>2. /\ Len(stream') = Len(stream) + 1 /\ stream'[Len(stream) + 1] = m
        /\ \A i \in 1..Len(stream) : stream'[i] = stream[i]
        /\ \A i \in 1..Len(stream') : i \in 1..Len(stream) \/ i = Len(stream) + 1
    BY <1>0, <2>1, AppendProperties
  <2>3. Ascending'
    BY <1>0, <1>2, <2>1, <2>2
  <2>4. Behind'
    BY <1>0, <1>2, <2>1, <2>2
  <2> QED
    BY <2>1, <2>3, <2>4
<1>10. CASE /\ UNCHANGED <<hand, stream, inbox, observed, events>>
            /\ onEvent' => onEvent
            /\ rl' \in {"dispatch", "publish"} => rl' = rl
  BY <1>10
<1> QED
  BY <1>3, <1>4, <1>5, <1>6, <1>7, <1>8, <1>9, <1>10, EventSteps

\* While the session's handler is installed, no waiter can see an event the handler has
\* not, and events keep the adapter's order.
THEOREM EventsObservedFirst == Spec => []ObservedBeforeWaiters
<1>1. TypeInv /\ EventInv => ObservedBeforeWaiters
  <2>1. TypeInv => \A i \in 1..Len(inbox) : inbox[i] \in Message
    BY ElementOfSeq DEF TypeInv, TypeOK, InboxType
  <2> QED
    BY <2>1 DEF EventInv, Behind, ObservedBeforeWaiters, IsEvent
<1> QED
  BY <1>1, Typed, EventInit, EventStep, PTL DEF Spec

------------------------------------------------------------------------------
(* The callback of an execution request runs before a waiter sees its answer. *)

\* The answers on their way to Dispatch, and those past it.
Answers(S) == {m \in S : m.type = "response"}
Coming == Answers({stream[i] : i \in 1..Len(stream)} \union {h \in {hand} : rl = "dispatch"})
Here   == Answers({inbox[i] : i \in 1..Len(inbox)} \union {h \in {hand} : rl = "publish"})

\* A request the adapter may still answer.
Unanswered(s) ==
    s \in todo \/ (\E i \in 1..Len(wire) : wire[i] = s)
               \/ (\E c \in Callers : pc[c] = "write" /\ call[c] = s)

\* A request is answered once, and no two copies of its answer disagree.
AnsweredOnce ==
    /\ todo \intersect answered = {} /\ acked \subseteq answered
    /\ \A s \in exec : s < seq
    /\ \A m \in Coming \union Here : m.id \in answered
    /\ \A m, n \in Coming \union Here : m.id = n.id => m.ok = n.ok

\* An execution request keeps its callback until its answer is dispatched; then the
\* callback has run if the request succeeded, and only then.
CallbackKept ==
    /\ \A m \in Coming \union Here : m.id \in acked => m.ok
    /\ onExecution =>
          /\ \A s \in exec : Unanswered(s) => s \in acks
          /\ \A m \in Coming : m.id \in exec /\ m.ok => m.id \in acks \union acked
          /\ \A m \in Here : m.id \in exec /\ m.ok => m.id \in acked

AckInv == AnsweredOnce /\ CallbackKept

LEMMA AckInit == Init => AckInv
<1> SUFFICES ASSUME Init PROVE AckInv
  OBVIOUS
<1>1. /\ Len(stream) = 0 /\ Len(inbox) = 0 /\ Len(wire) = 0 /\ rl = "read" /\ seq = 1
      /\ todo = {} /\ answered = {} /\ acked = {} /\ exec = {}
  BY DEF Init
<1>2. Coming = {} /\ Here = {}
  BY <1>1 DEF Coming, Here, Answers
<1> QED
  BY <1>1, <1>2 DEF AckInv, AnsweredOnce, CallbackKept

\* Answers that move on or get lost, and requests that stay as they are.
LEMMA AckKept ==
    ASSUME AckInv, UNCHANGED <<seq, exec, acks, acked, answered>>,
           \A s : Unanswered(s)' => Unanswered(s), todo' \intersect answered' = {},
           Coming' \subseteq Coming, Here' \subseteq Here, onExecution' => onExecution
    PROVE  AckInv'
<1>1. AnsweredOnce'
  BY DEF AckInv, AnsweredOnce
<1>2. CallbackKept'
  BY DEF AckInv, CallbackKept
<1> QED
  BY <1>1, <1>2 DEF AckInv

\* The steps that move an answer, ask for a callback or run one.
LEMMA AckSteps ==
    [Next]_vars => \/ ReadMessage \/ ReadFails \/ Dispatch \/ Publish
                   \/ \E c \in Callers : Take(c) \/ Write(c) \/ WriteFails(c)
                                         \/ \E e \in BOOLEAN : Begin(c, e)
                   \/ AdapterReads
                   \/ \E s \in Seqs, ok \in BOOLEAN : Respond(s, ok)
                   \/ \E type \in EventTypes : Emit(type)
                   \/ /\ UNCHANGED <<hand, stream, inbox, seq, exec, acks, acked, todo, answered,
                                     wire>>
                      /\ \/ UNCHANGED <<pc, call>>
                         \/ \E c \in Callers : WaitFails(c) \/ Park(c) \/ GiveUp(c)
                      /\ onExecution' => onExecution
                      /\ rl' \in {"dispatch", "publish"} => rl' = rl
BY DEF Next, LoopStep, CleanupStep, AdapterStep, WaitStep, WaitFails,
       Park, GiveUp, EndLoop, CallbackReturns, Close, ClearHandlers, Shutdown,
       AdapterExits, vars, requestVars, inboxVars, loopVars, ownerVars, adapterVars

LEMMA AckStep == TypeInv /\ OrderInv /\ AckInv /\ [Next]_vars => AckInv'
<1> SUFFICES ASSUME TypeInv, OrderInv, AckInv, [Next]_vars PROVE AckInv'
  OBVIOUS
<1>0. /\ seq \in Nat /\ onExecution \in BOOLEAN
      /\ call \in [Callers -> Nat] /\ pc \in [Callers -> {"idle", "write", "scan", "parked"}]
      /\ inbox \in Seq(Message) /\ Len(inbox) \in Nat
      /\ stream \in Seq(Message) /\ Len(stream) \in Nat
      /\ wire \in Seq(Seqs) /\ Len(wire) \in Nat
      /\ todo \subseteq Nat /\ answered \subseteq Nat /\ exec \subseteq Nat
      /\ \A i \in 1..Len(wire) : wire[i] \in Nat
      /\ hand # Nothing => hand \in Message
  <2>1. /\ inbox \in Seq(Message) /\ stream \in Seq(Message) /\ wire \in Seq(Seqs)
        /\ Seqs \subseteq Nat
    BY DEF TypeInv, TypeOK, InboxType, AdapterType, Seqs
  <2>2. /\ Len(inbox) \in Nat /\ Len(stream) \in Nat /\ Len(wire) \in Nat
        /\ \A i \in 1..Len(wire) : wire[i] \in Nat
    BY <2>1, LenProperties, ElementOfSeq
  <2> QED
    BY <2>1, <2>2, ClientAssumption
       DEF ClientAssumption, TypeInv, TypeOK, RequestType, InboxType, LoopType, AdapterType,
           OwnerType
\* What the adapter has answered is older than what it may still answer.
<1>1. ASSUME NEW s \in answered
      PROVE  ~Unanswered(s) /\ s < seq /\ s \in Nat
  BY <1>0, <1>1 DEF AckInv, AnsweredOnce, OrderInv, WireOrder, Below, Unanswered
<1>2. \A m \in Coming \union Here : ~Unanswered(m.id) /\ m.id < seq /\ m.id \in Nat
  BY <1>1 DEF AckInv, AnsweredOnce
<1>3. CASE ReadMessage
  <2>1. /\ rl = "read" /\ stream # <<>> /\ hand' = Head(stream) /\ stream' = Tail(stream)
        /\ rl' = "dispatch" /\ UNCHANGED <<inbox, pc, call, wire, todo>>
        /\ UNCHANGED <<seq, exec, acks, acked, answered, onExecution>>
    BY <1>3 DEF ReadMessage, requestVars, inboxVars, ownerVars, adapterVars
  <2>2. /\ 1 \in 1..Len(stream) /\ hand' = stream[1] /\ Len(stream') = Len(stream) - 1
        /\ \A i \in 1..Len(stream') : stream'[i] = stream[i + 1] /\ i + 1 \in 1..Len(stream)
    BY <1>0, <2>1, HeadTailProperties, EmptySeq
  <2>3. Coming' \subseteq Coming /\ Here' \subseteq Here
    BY <2>1, <2>2 DEF Coming, Here, Answers
  <2>4. \A s : Unanswered(s)' => Unanswered(s)
    BY <2>1 DEF Unanswered
  <2> QED
    BY <2>1, <2>3, <2>4, AckKept DEF AckInv, AnsweredOnce
<1>4. CASE ReadFails
  <2>1. /\ hand' = Nothing /\ rl' = "publish" /\ UNCHANGED <<stream, inbox, pc, call, wire, todo>>
        /\ UNCHANGED <<seq, exec, acks, acked, answered, onExecution>>
    BY <1>4 DEF ReadFails, requestVars, inboxVars, ownerVars, adapterVars
  <2>2. Coming' \subseteq Coming /\ Here' \subseteq Here
    BY <2>1 DEF Coming, Here, Answers, Nothing
  <2>3. \A s : Unanswered(s)' => Unanswered(s)
    BY <2>1 DEF Unanswered
  <2> QED
    BY <2>1, <2>2, <2>3, AckKept DEF AckInv, AnsweredOnce
<1>5. CASE Dispatch
  <2>1. /\ rl = "dispatch" /\ rl' = "publish"
        /\ UNCHANGED <<hand, stream, inbox, pc, call, wire, todo, seq, exec, answered, onExecution>>
    BY <1>5 DEF Dispatch, inboxVars, ownerVars, adapterVars
  <2>2. \A s : Unanswered(s)' <=> Unanswered(s)
    BY <2>1 DEF Unanswered
  <2>3. Coming' \subseteq Coming /\ Here' \subseteq Here \union Answers({hand})
    BY <2>1 DEF Coming, Here, Answers
  <2>4. Answers({hand}) \subseteq Coming
    BY <2>1 DEF Coming, Answers
  <2>5. CASE hand.type # "response"
    <3>1. UNCHANGED <<acks, acked>> /\ Answers({hand}) = {}
      BY <1>5, <2>5 DEF Dispatch, Answers
    <3> QED
      BY <2>1, <2>2, <2>3, <3>1, AckKept DEF AckInv, AnsweredOnce
  <2>6. CASE hand.type = "response"
    <3>1. /\ acks' = acks \ {hand.id} /\ hand \in Coming
          /\ acked' = IF hand.ok THEN acked \union (acks \intersect {hand.id}) ELSE acked
      BY <1>5, <2>4, <2>6 DEF Dispatch, AckedBySuccess, Answers
    <3>2. Coming' \subseteq Coming /\ Here' \subseteq Here \union {hand}
      BY <2>3 DEF Answers
    <3>3. AnsweredOnce'
      BY <2>1, <3>1, <3>2 DEF AckInv, AnsweredOnce
    <3>4. \A m \in (Coming \union Here)' : m.id \in acked' => m.ok
      BY <3>1, <3>2 DEF AckInv, AnsweredOnce, CallbackKept
    <3>5. ASSUME onExecution, NEW s \in exec, Unanswered(s) PROVE s \in acks'
      BY <1>2, <3>1, <3>5 DEF AckInv, CallbackKept
    <3>6. ASSUME onExecution, NEW m \in Coming, m.id \in exec, m.ok
          PROVE  /\ m.id \in acks' \union acked'
                 /\ m = hand => m.id \in acked'
      BY <3>1, <3>6 DEF AckInv, AnsweredOnce, CallbackKept
    <3>7. CallbackKept'
      BY <2>1, <2>2, <3>1, <3>2, <3>4, <3>5, <3>6 DEF AckInv, CallbackKept
    <3> QED
      BY <3>3, <3>7 DEF AckInv
  <2> QED
    BY <2>5, <2>6
<1>6. CASE Publish
  <2>1. /\ rl = "publish" /\ hand' = Nothing /\ rl' \in {"end", "callback", "read"}
        /\ pc' = Notified /\ UNCHANGED <<stream, call, wire, todo>>
        /\ UNCHANGED <<seq, exec, acks, acked, answered, onExecution>>
    BY <1>6 DEF Publish, requestVars, ownerVars, adapterVars
  <2>2. Here' \subseteq Here
    <3>1. CASE inbox' = inbox
      BY <2>1, <3>1 DEF Here, Answers
    <3>2. CASE inbox' = Append(inbox, hand) /\ hand \in Message
      <4>1. /\ inbox'[Len(inbox) + 1] = hand
            /\ \A i \in 1..Len(inbox) : inbox'[i] = inbox[i]
            /\ \A i \in 1..Len(inbox') : i \in 1..Len(inbox) \/ i = Len(inbox) + 1
        BY <1>0, <3>2, AppendProperties
      <4> QED
        BY <2>1, <4>1 DEF Here, Answers
    <3> QED
      BY <1>0, <1>6, <3>1, <3>2 DEF Publish
  <2>3. Coming' \subseteq Coming
    BY <2>1 DEF Coming, Answers
  <2>4. \A s : Unanswered(s)' => Unanswered(s)
    BY <1>0, <2>1 DEF Unanswered, Notified
  <2> QED
    BY <2>1, <2>2, <2>3, <2>4, AckKept DEF AckInv, AnsweredOnce
<1>7. ASSUME NEW c \in Callers, Take(c) PROVE AckInv'
  <2>1. /\ UNCHANGED <<hand, rl, stream, wire, todo>>
        /\ UNCHANGED <<seq, exec, acks, acked, answered, onExecution>>
        /\ pc[c] = "scan"
        /\ \/ pc' = [pc EXCEPT ![c] = "idle"] /\ call' = [call EXCEPT ![c] = 0]
           \/ UNCHANGED <<pc, call>>
    BY <1>7 DEF Take, loopVars, ownerVars, adapterVars
  <2>2. PICK i \in 1..Len(inbox) : inbox' = RemoveAt(inbox, i)
    BY <1>7 DEF Take, Queued
  <2>3. inbox \in Seq(Message)
    BY <1>0
  <2>4. /\ Len(inbox') = Len(inbox) - 1
        /\ \A j \in 1..(Len(inbox) - 1) : inbox'[j] = inbox[IF j < i THEN j ELSE j + 1]
    BY <2>2, <2>3, RemoveAtFacts
  <2>5. \A j \in 1..Len(inbox') : \E k \in 1..Len(inbox) : inbox'[j] = inbox[k]
    <3>1. \A j \in 1..Len(inbox') : (IF j < i THEN j ELSE j + 1) \in 1..Len(inbox)
      BY <1>0, <2>4
    <3> QED
      BY <2>4, <3>1
  <2>6. Coming' \subseteq Coming /\ Here' \subseteq Here
    BY <2>1, <2>5 DEF Coming, Here, Answers
  <2>7. \A s : Unanswered(s)' => Unanswered(s)
    BY <1>0, <2>1 DEF Unanswered
  <2> QED
    BY <2>1, <2>6, <2>7, AckKept DEF AckInv, AnsweredOnce
<1>8. ASSUME NEW c \in Callers, Write(c) PROVE AckInv'
  <2>1. /\ UNCHANGED <<hand, rl, stream, inbox, call, todo>>
        /\ UNCHANGED <<seq, exec, acks, acked, answered, onExecution>>
        /\ pc[c] = "write" /\ pc' = [pc EXCEPT ![c] = "scan"] /\ wire' = Append(wire, call[c])
    BY <1>8 DEF Write, loopVars, ownerVars, adapterVars
  <2>2. call[c] \in Seqs
    BY <2>1, ClientAssumption
       DEF ClientAssumption, TypeInv, TypeOK, RequestType, Locking, Seqs
  <2>3. /\ wire'[Len(wire) + 1] = call[c]
        /\ \A i \in 1..Len(wire) : wire'[i] = wire[i]
        /\ \A i \in 1..Len(wire') : i \in 1..Len(wire) \/ i = Len(wire) + 1
    BY <1>0, <2>1, <2>2, AppendProperties
  <2>4. \A s : Unanswered(s)' => Unanswered(s)
    BY <1>0, <2>1, <2>3 DEF Unanswered
  <2>5. Coming' \subseteq Coming /\ Here' \subseteq Here
    BY <2>1 DEF Coming, Here, Answers
  <2> QED
    BY <2>1, <2>4, <2>5, AckKept DEF AckInv, AnsweredOnce
<1>9. ASSUME NEW c \in Callers, WriteFails(c) PROVE AckInv'
  <2>1. /\ UNCHANGED <<hand, rl, stream, inbox, todo, wire>>
        /\ UNCHANGED <<seq, exec, acked, answered, onExecution>>
        /\ pc[c] = "write" /\ pc' = [pc EXCEPT ![c] = "idle"]
        /\ call' = [call EXCEPT ![c] = 0] /\ acks' = acks \ {call[c]}
    BY <1>9 DEF WriteFails, loopVars, ownerVars, adapterVars
  <2>2. Coming' = Coming /\ Here' = Here
    BY <2>1 DEF Coming, Here, Answers
  <2>3. Unanswered(call[c])
    BY <2>1 DEF Unanswered
  \* The number withdrawn is nobody else's: sendMu is held.
  <2>4. ASSUME NEW s \in Nat, Unanswered(s)' PROVE Unanswered(s) /\ s # call[c]
    <3>1. \A d \in Callers : pc'[d] # "write"
      BY <1>0, <2>1 DEF TypeInv, Locking
    <3>2. CASE s \in todo
      BY <1>0, <2>1, <3>2 DEF OrderInv, Below, Unanswered
    <3>3. CASE \E i \in 1..Len(wire) : wire[i] = s
      BY <1>0, <2>1, <3>3 DEF OrderInv, Below, Unanswered
    <3> QED
      BY <2>1, <2>4, <3>1, <3>2, <3>3 DEF Unanswered
  <2>5. AnsweredOnce'
    BY <2>1, <2>2 DEF AckInv, AnsweredOnce
  <2>6. \A m \in Coming \union Here : m.id # call[c]
    BY <1>2, <2>3
  <2>7. CallbackKept'
    BY <1>0, <2>1, <2>2, <2>4, <2>6 DEF AckInv, CallbackKept
  <2> QED
    BY <2>5, <2>7 DEF AckInv
<1>10. ASSUME NEW c \in Callers, NEW e \in BOOLEAN, Begin(c, e) PROVE AckInv'
  <2>1. /\ UNCHANGED <<hand, rl, stream, inbox, todo, wire>>
        /\ UNCHANGED <<acked, answered, onExecution>>
        /\ pc' = [pc EXCEPT ![c] = "write"] /\ call' = [call EXCEPT ![c] = seq] /\ seq' = seq + 1
        /\ exec' = IF e THEN exec \union {seq} ELSE exec
        /\ acks' = IF e /\ onExecution THEN acks \union {seq} ELSE acks
    BY <1>10 DEF Begin, loopVars, ownerVars, adapterVars
  <2>2. Coming' = Coming /\ Here' = Here
    BY <2>1 DEF Coming, Here, Answers
  <2>3. \A s : Unanswered(s)' => Unanswered(s) \/ s = seq
    BY <1>0, <2>1 DEF Unanswered
  <2>4. seq \notin exec /\ \A m \in Coming \union Here : m.id # seq
    BY <1>0, <1>2 DEF AckInv, AnsweredOnce
  <2>5. AnsweredOnce'
    BY <1>0, <2>1, <2>2 DEF AckInv, AnsweredOnce
  <2>6. CallbackKept'
    BY <2>1, <2>2, <2>3, <2>4 DEF AckInv, CallbackKept
  <2> QED
    BY <2>5, <2>6 DEF AckInv
<1>11. CASE AdapterReads
  <2>1. /\ UNCHANGED <<hand, rl, stream, inbox, pc, call>>
        /\ UNCHANGED <<seq, exec, acks, acked, answered, onExecution>>
        /\ wire # <<>> /\ wire' = Tail(wire) /\ todo' = todo \union {Head(wire)}
    BY <1>11 DEF AdapterReads, requestVars, inboxVars, loopVars, ownerVars
  <2>2. /\ 1 \in 1..Len(wire) /\ Head(wire) = wire[1]
        /\ \A i \in 1..Len(wire') : wire'[i] = wire[i + 1] /\ i + 1 \in 1..Len(wire)
    BY <1>0, <2>1, HeadTailProperties, EmptySeq
  <2>3. \A s : Unanswered(s)' => Unanswered(s)
    BY <2>1, <2>2 DEF Unanswered
  <2>4. todo' \intersect answered' = {}
    <3>1. Unanswered(wire[1])
      BY <2>2 DEF Unanswered
    <3> QED
      BY <1>1, <2>1, <2>2, <3>1 DEF AckInv, AnsweredOnce
  <2>5. Coming' \subseteq Coming /\ Here' \subseteq Here
    BY <2>1 DEF Coming, Here, Answers
  <2> QED
    BY <2>1, <2>3, <2>4, <2>5, AckKept
<1>12. ASSUME NEW s \in Seqs, NEW ok \in BOOLEAN, Respond(s, ok) PROVE AckInv'
  <2> DEFINE a == [type |-> "response", id |-> s, ok |-> ok]
  <2>1. /\ UNCHANGED <<hand, rl, inbox, pc, call, wire>>
        /\ UNCHANGED <<seq, exec, acks, acked, onExecution>>
        /\ s \in todo /\ todo' = todo \ {s} /\ answered' = answered \union {s}
        /\ stream' = Append(stream, a) /\ a \in Message
    BY <1>12 DEF Respond, Message, Seqs, requestVars, inboxVars, loopVars, ownerVars
  <2>2. a.id = s /\ a.ok = ok
    OBVIOUS
  <2> HIDE DEF a
  <2>3. /\ stream'[Len(stream) + 1] = a
        /\ \A i \in 1..Len(stream) : stream'[i] = stream[i]
        /\ \A i \in 1..Len(stream') : i \in 1..Len(stream) \/ i = Len(stream) + 1
    BY <1>0, <2>1, AppendProperties
  <2>4. Coming' \subseteq Coming \union {a} /\ Here' = Here
    BY <2>1, <2>3 DEF Coming, Here, Answers
  <2>5. Unanswered(s) /\ \A n : Unanswered(n)' => Unanswered(n)
    BY <2>1 DEF Unanswered
  <2>6. s \notin answered /\ \A m \in Coming \union Here : m.id # s
    BY <2>1 DEF AckInv, AnsweredOnce
  <2>7. AnsweredOnce'
    BY <2>1, <2>2, <2>4, <2>6 DEF AckInv, AnsweredOnce
  <2>8. s \notin acked
    BY <2>6 DEF AckInv, AnsweredOnce
  <2>9. CallbackKept'
    BY <2>1, <2>2, <2>4, <2>5, <2>8 DEF AckInv, CallbackKept
  <2> QED
    BY <2>7, <2>9 DEF AckInv
<1>13. ASSUME NEW type \in EventTypes, Emit(type) PROVE AckInv'
  <2> DEFINE a == [type |-> type, id |-> events + 1, ok |-> TRUE]
  <2>1. /\ UNCHANGED <<hand, rl, inbox, pc, call, wire, todo>>
        /\ UNCHANGED <<seq, exec, acks, acked, answered, onExecution>>
        /\ stream' = Append(stream, a) /\ a \in Message /\ a.type # "response"
    BY <1>13, ClientAssumption DEF ClientAssumption, Emit, Message, TypeInv, TypeOK, AdapterType,
       requestVars, inboxVars, loopVars, ownerVars
  <2> HIDE DEF a
  <2>2. /\ stream'[Len(stream) + 1] = a
        /\ \A i \in 1..Len(stream) : stream'[i] = stream[i]
        /\ \A i \in 1..Len(stream') : i \in 1..Len(stream) \/ i = Len(stream) + 1
    BY <1>0, <2>1, AppendProperties
  <2>3. Coming' \subseteq Coming /\ Here' \subseteq Here
    BY <2>1, <2>2 DEF Coming, Here, Answers
  <2>4. \A n : Unanswered(n)' => Unanswered(n)
    BY <2>1 DEF Unanswered
  <2> QED
    BY <2>1, <2>3, <2>4, AckKept DEF AckInv, AnsweredOnce
<1>14. CASE /\ UNCHANGED <<hand, stream, inbox, seq, exec, acks, acked, todo, answered, wire>>
            /\ UNCHANGED <<pc, call>> \/ \E c \in Callers : WaitFails(c) \/ Park(c) \/ GiveUp(c)
            /\ onExecution' => onExecution
            /\ rl' \in {"dispatch", "publish"} => rl' = rl
  <2>1. Coming' \subseteq Coming /\ Here' \subseteq Here
    BY <1>14 DEF Coming, Here, Answers
  <2>2. \A d \in Callers : pc'[d] = "write" => pc[d] = "write" /\ call'[d] = call[d]
    BY <1>0, <1>14 DEF WaitFails, Park, GiveUp, requestVars
  <2>3. \A s : Unanswered(s)' => Unanswered(s)
    BY <1>14, <2>2 DEF Unanswered
  <2> QED
    BY <1>14, <2>1, <2>3, AckKept DEF AckInv, AnsweredOnce
<1> QED
  BY <1>3, <1>4, <1>5, <1>6, <1>7, <1>8, <1>9, <1>10, <1>11, <1>12, <1>13, <1>14, AckSteps

\* While the session's observer is installed, no waiter sees the success of an execution
\* request whose callback has not run, and a refused request runs no callback.
THEOREM AcknowledgedFirst == Spec => []AckBeforeWaiters
<1>1. TypeInv /\ AckInv => AckBeforeWaiters
  BY DEF AckInv, CallbackKept, AckBeforeWaiters, Here, Answers
<1> QED
  BY <1>1, Typed, OrderInit, OrderStep, AckInit, AckStep, PTL DEF Spec

------------------------------------------------------------------------------
(* DAPClient implements RequestResponse: each of its steps is a step of    *)
(* the promise or changes nothing the promise speaks of.                   *)

\* What the promise sees of a caller, and the next number it knows of.
PromiseCall == [c \in Callers |-> IF pc[c] \in {"scan", "parked"} /\ result[c] # call[c]
                                  THEN call[c] ELSE 0]
PromiseNext == IF sendMu = NoCaller THEN seq ELSE seq - 1

LEMMA PromiseInit == Init => Promise!Init
BY DEF Init, Promise!Init

\* A step the promise does not see.
LEMMA Unseen ==
    ASSUME UNCHANGED <<answered, result>>, PromiseNext' = PromiseNext, PromiseCall' = PromiseCall
    PROVE  UNCHANGED Promise!abstractVars
BY DEF Promise!abstractVars, PromiseNext, PromiseCall

\* A call that ends without an answer.
LEMMA EndsWithoutAnswer ==
    ASSUME TypeInv, NEW c \in Callers, pc[c] # "write",
           pc' = [pc EXCEPT ![c] = "idle"], call' = [call EXCEPT ![c] = 0],
           UNCHANGED <<seq, sendMu, answered, result>>
    PROVE  [Promise!Next]_(Promise!abstractVars)
<1>1. PromiseCall' = [PromiseCall EXCEPT ![c] = 0] /\ PromiseNext' = PromiseNext
  BY DEF PromiseCall, PromiseNext, TypeInv, TypeOK, RequestType, InboxType
<1>2. CASE PromiseCall[c] = 0
  <2>1. PromiseCall' = PromiseCall
    BY <1>1, <1>2 DEF PromiseCall
  <2> QED
    BY <1>1, <2>1, Unseen
<1>3. CASE PromiseCall[c] # 0
  <2>1. Promise!GiveUp(c)
    BY <1>1, <1>3 DEF Promise!GiveUp, PromiseCall, PromiseNext
  <2> QED
    BY <2>1 DEF Promise!Next
<1> QED
  BY <1>2, <1>3

LEMMA PromiseSteps ==
    [Next]_vars => \/ \E c \in Callers : \/ \E e \in BOOLEAN : Begin(c, e)
                                         \/ Write(c) \/ WriteFails(c) \/ Take(c)
                                         \/ WaitFails(c) \/ Park(c) \/ GiveUp(c)
                   \/ Publish
                   \/ \E s \in Seqs, ok \in BOOLEAN : Respond(s, ok)
                   \/ UNCHANGED <<seq, sendMu, call, pc, result, answered>>
BY DEF Next, LoopStep, CleanupStep, AdapterStep, WaitStep, ReadMessage, ReadFails, Dispatch,
       EndLoop, CallbackReturns, Close, ClearHandlers, Shutdown, AdapterReads, AdapterExits, Emit,
       vars, requestVars, inboxVars, adapterVars

LEMMA PromiseStep ==
    TypeInv /\ OrderInv /\ AckInv /\ [Next]_vars => [Promise!Next]_(Promise!abstractVars)
<1> SUFFICES ASSUME TypeInv, OrderInv, AckInv, [Next]_vars
             PROVE  [Promise!Next]_(Promise!abstractVars)
  OBVIOUS
<1>0. /\ seq \in 1..(MaxSeq + 1) /\ MaxSeq \in Nat /\ NoCaller \notin Callers
      /\ call \in [Callers -> 0..MaxSeq] /\ result \in [Callers -> Nat]
      /\ pc \in [Callers -> {"idle", "write", "scan", "parked"}]
      /\ sendMu \in Callers \union {NoCaller}
      /\ \A c \in Callers : /\ pc[c] = "write" <=> sendMu = c
                            /\ pc[c] = "write" => call[c] = seq - 1 /\ call[c] > 0
  BY ClientAssumption DEF ClientAssumption, TypeInv, TypeOK, RequestType, InboxType, Locking
<1>1. ASSUME NEW c \in Callers, NEW e \in BOOLEAN, Begin(c, e)
      PROVE  UNCHANGED Promise!abstractVars
  <2>1. /\ pc[c] = "idle" /\ sendMu = NoCaller /\ sendMu' = c /\ seq' = seq + 1
        /\ pc' = [pc EXCEPT ![c] = "write"] /\ call' = [call EXCEPT ![c] = seq]
        /\ UNCHANGED <<result, answered>>
    BY <1>1 DEF Begin, LockSendMu, adapterVars
  <2>2. PromiseNext' = PromiseNext /\ PromiseCall' = PromiseCall
    BY <1>0, <2>1 DEF PromiseNext, PromiseCall
  <2> QED
    BY <2>1, <2>2, Unseen
\* Whether it succeeds or fails, the write uses the holder's number up.
<1>2. ASSUME NEW c \in Callers, Write(c) \/ WriteFails(c) PROVE Promise!Issue(c)
  <2>1. /\ pc[c] = "write" /\ sendMu' = NoCaller /\ result' = [result EXCEPT ![c] = 0]
        /\ UNCHANGED <<seq, answered>>
    BY <1>2 DEF Write, WriteFails, adapterVars
  <2>2. sendMu = c /\ PromiseNext = seq - 1 /\ PromiseNext' = PromiseNext + 1
        /\ PromiseNext <= MaxSeq /\ call[c] = PromiseNext /\ call[c] # 0
    BY <1>0, <2>1 DEF PromiseNext
  <2>3. PromiseCall[c] = 0
    BY <2>1 DEF PromiseCall
  <2>4. CASE Write(c)
    <3>1. pc' = [pc EXCEPT ![c] = "scan"] /\ call' = call
      BY <2>4 DEF Write
    <3>2. PromiseCall' = [PromiseCall EXCEPT ![c] = PromiseNext]
      BY <1>0, <2>1, <2>2, <3>1 DEF PromiseCall
    <3> QED
      BY <2>1, <2>2, <2>3, <3>2 DEF Promise!Issue, PromiseCall, PromiseNext
  <2>5. CASE WriteFails(c)
    <3>1. pc' = [pc EXCEPT ![c] = "idle"] /\ call' = [call EXCEPT ![c] = 0]
      BY <2>5 DEF WriteFails
    <3>2. PromiseCall' = PromiseCall
      BY <1>0, <2>1, <3>1 DEF PromiseCall
    <3> QED
      BY <2>1, <2>2, <2>3, <3>2 DEF Promise!Issue, PromiseCall, PromiseNext
  <2> QED
    BY <1>2, <2>4, <2>5
<1>3. ASSUME NEW c \in Callers, Take(c) PROVE [Promise!Next]_(Promise!abstractVars)
  <2>1. PICK i \in 1..Len(inbox) :
          /\ Wants(c, inbox[i])
          /\ result' = IF inbox[i].type = "response"
                       THEN [result EXCEPT ![c] = inbox[i].id] ELSE result
    BY <1>3 DEF Take, Queued
  <2>2. /\ pc[c] = "scan" /\ UNCHANGED <<seq, sendMu, answered>>
        /\ \/ pc' = [pc EXCEPT ![c] = "idle"] /\ call' = [call EXCEPT ![c] = 0]
           \/ UNCHANGED <<pc, call>>
    BY <1>3 DEF Take, adapterVars
  <2>3. PromiseNext' = PromiseNext
    BY <2>2 DEF PromiseNext
  <2>4. CASE inbox[i].type # "response"
    <3>1. result' = result
      BY <2>1, <2>4
    <3>2. CASE UNCHANGED <<pc, call>>
      BY <2>2, <2>3, <3>1, <3>2, Unseen DEF PromiseCall
    <3> QED
      BY <2>2, <3>1, <3>2, EndsWithoutAnswer
  <2>5. CASE inbox[i].type = "response"
    <3>1. result' = [result EXCEPT ![c] = call[c]] /\ inbox[i].id = call[c]
      BY <2>1, <2>5 DEF Wants
    <3>2. call[c] \in answered
      BY <2>5, <3>1 DEF AckInv, AnsweredOnce, Here, Answers
    <3>3. PromiseCall' = [PromiseCall EXCEPT ![c] = 0]
      BY <1>0, <2>2, <3>1 DEF PromiseCall
    <3>4. CASE result[c] = call[c]
      <4>1. result' = result /\ PromiseCall' = PromiseCall
        BY <1>0, <3>1, <3>3, <3>4 DEF PromiseCall
      <4> QED
        BY <2>2, <2>3, <4>1, Unseen
    <3>5. CASE result[c] # call[c]
      <4>1. PromiseCall[c] = call[c]
        BY <2>2, <3>5 DEF PromiseCall
      <4>2. Promise!Return(c)
        BY <2>2, <2>3, <3>1, <3>2, <3>3, <4>1 DEF Promise!Return, PromiseCall, PromiseNext
      <4> QED
        BY <4>2 DEF Promise!Next
    <3> QED
      BY <3>4, <3>5
  <2> QED
    BY <2>4, <2>5
<1>4. ASSUME NEW c \in Callers, WaitFails(c) \/ GiveUp(c)
      PROVE  [Promise!Next]_(Promise!abstractVars)
  <2>1. /\ pc[c] # "write" /\ pc' = [pc EXCEPT ![c] = "idle"] /\ call' = [call EXCEPT ![c] = 0]
        /\ UNCHANGED <<seq, sendMu, answered, result>>
    BY <1>4 DEF WaitFails, GiveUp, adapterVars
  <2> QED
    BY <2>1, EndsWithoutAnswer
<1>5. ASSUME NEW c \in Callers, Park(c) PROVE UNCHANGED Promise!abstractVars
  <2>1. /\ pc[c] = "scan" /\ pc' = [pc EXCEPT ![c] = "parked"]
        /\ UNCHANGED <<seq, sendMu, call, answered, result>>
    BY <1>5 DEF Park, requestVars, adapterVars
  <2>2. PromiseNext' = PromiseNext /\ PromiseCall' = PromiseCall
    BY <1>0, <2>1 DEF PromiseNext, PromiseCall
  <2> QED
    BY <2>1, <2>2, Unseen
<1>6. CASE Publish
  <2>1. pc' = Notified /\ UNCHANGED <<seq, sendMu, call, answered, result>>
    BY <1>6 DEF Publish, requestVars, adapterVars
  <2>2. PromiseNext' = PromiseNext /\ PromiseCall' = PromiseCall
    BY <1>0, <2>1 DEF PromiseNext, PromiseCall, Notified
  <2> QED
    BY <2>1, <2>2, Unseen
<1>7. ASSUME NEW s \in Seqs, NEW ok \in BOOLEAN, Respond(s, ok) PROVE Promise!Answer(s)
  <2>1. /\ s \in todo /\ answered' = answered \union {s}
        /\ UNCHANGED <<seq, sendMu, call, pc, result>>
    BY <1>7 DEF Respond, requestVars, inboxVars
  <2>2. s \notin answered
    BY <2>1 DEF AckInv, AnsweredOnce
  \* A number being written has not reached the adapter.
  <2>3. s \in 1..(PromiseNext - 1)
    <3>1. s \in Nat /\ s >= 1 /\ s < seq /\ \A c \in Callers : pc[c] = "write" => s < call[c]
      BY <1>0, <2>1 DEF OrderInv, Below, Seqs
    <3>2. CASE sendMu = NoCaller
      BY <1>0, <3>1, <3>2 DEF PromiseNext
    <3>3. CASE sendMu \in Callers
      <4>1. s < seq - 1
        BY <1>0, <3>1, <3>3
      <4>2. PromiseNext = seq - 1
        BY <1>0, <3>3 DEF PromiseNext
      <4> QED
        BY <1>0, <3>1, <4>1, <4>2
    <3> QED
      BY <1>0, <3>2, <3>3
  <2>4. PromiseNext' = PromiseNext /\ PromiseCall' = PromiseCall
    BY <2>1 DEF PromiseNext, PromiseCall
  <2> QED
    BY <2>1, <2>2, <2>3, <2>4 DEF Promise!Answer, PromiseNext, PromiseCall
<1>8. CASE UNCHANGED <<seq, sendMu, call, pc, result, answered>>
  BY <1>8, Unseen DEF PromiseNext, PromiseCall
<1> QED
  <2>1. ASSUME NEW c \in Callers, Promise!Issue(c) PROVE Promise!Next
    BY <2>1 DEF Promise!Next
  <2>2. ASSUME NEW s \in Seqs, Promise!Answer(s) PROVE Promise!Next
    BY <2>2 DEF Promise!Next, Seqs
  <2> QED
    BY <1>1, <1>2, <1>3, <1>4, <1>5, <1>6, <1>7, <1>8, <2>1, <2>2, PromiseSteps

\* A tool gets the answer to its own request or an error, at most once per call, and the
\* requests reach the adapter in order: the client implements the promise.
THEOREM Implements == Spec => KeepsPromise
<1>1. Spec => []AckInv
  BY Typed, OrderInit, OrderStep, AckInit, AckStep, PTL DEF Spec
<1> QED
  BY <1>1, Typed, OrderInit, OrderStep, PromiseInit, PromiseStep, PTL
     DEF Spec, KeepsPromise, Promise!Spec
==============================================================================
