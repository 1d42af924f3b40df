--------------------------- MODULE BreakpointsProofs ---------------------------
(***************************************************************************)
(* That the session and the adapter agree on the breakpoint lists, and     *)
(* what they hold, for any files, places and number of requests.           *)
(*                                                                         *)
(* Inv: a call waits for the last request sent (OneRequest), so an         *)
(* acknowledgement finds the wire empty and everything a cancelled call    *)
(* had left there served.  ListInv: every list is made of the user's       *)
(* breakpoints, leftovers, and the one the call in progress has set for    *)
(* itself (Accounted), and a request asks for the list with one place      *)
(* more, one less, or none (Asked).                                        *)
(***************************************************************************)
EXTENDS Breakpoints, SequenceTheorems, NaturalsInduction, WellFoundedInduction, TLAPS

CallSet ==
    [pc : {"starting", "idle", "adding", "unverified", "undoing", "clearing", "clearAll",
           "armed", "running", "halted", "panic"},
     tool : {"none", "debug", "breakpoint", "continue", "clear", "clearAll"},
     list : Lists, place : Places \union {NoPlace},
     temp : BOOLEAN, todo : SUBSET Files, cancelled : BOOLEAN]

\* Where a call waits for an answer.
Pending == {"adding", "undoing", "clearing"}

Types ==
    /\ session \in BOOLEAN /\ up \in BOOLEAN
    /\ call \in CallSet
    /\ DOMAIN tracked = Lists /\ DOMAIN adapter = Lists
    /\ sent \in Nat /\ req.id \in Nat /\ req.list \in Lists
    /\ answer \in Statuses \union {"refused", "none"}
    /\ \E S : wire \in Seq(S)
    /\ \A i \in 1..Len(wire) : wire[i].id \in 1..sent /\ wire[i].list \in Lists

\* Without a session no call is past the point where it could still send something,
\* and there is nothing to send.
SendInv ==
    /\ req # NoRequest <=> call.pc \in Pending
    /\ ~session => call.pc \in {"idle", "halted"} /\ \A l \in Lists : tracked[l] = <<>>
    /\ call.pc # "panic"

\* The request a call waits for is the last one sent.
OneRequest ==
    /\ \A i, j \in 1..Len(wire) : i < j => wire[i].id < wire[j].id
    /\ req # NoRequest => req.id = sent /\ sent # 0
    /\ req # NoRequest /\ answer = "none" /\ up => wire # <<>> /\ wire[Len(wire)] = req
    /\ answer # "none" => req # NoRequest /\ wire = <<>>

Accepted(l) == req # NoRequest /\ req.list = l /\ answer \in Statuses

\* A list nobody is unsure of has no request on the wire but the one a call waits for.
AgreeInv ==
    session /\ up =>
        /\ \A l \in Lists : Accepted(l) => adapter[l] = req.places
        /\ \A l \in Lists \ unsure : ~Accepted(l) => tracked[l] = adapter[l]
        /\ \A i \in 1..Len(wire) : wire[i].list \notin unsure => req # NoRequest /\ wire[i] = req

Inv == Types /\ SendInv /\ OneRequest /\ AgreeInv

listVars == <<session, tracked, requestVars, adapterVars, unsure>>

LEMMA Start == Init => Inv
<1> SUFFICES ASSUME Init PROVE Inv
  OBVIOUS
<1> USE DEF Init
<1>1. Types
  <2>1. wire = <<>> /\ Len(wire) = 0 /\ wire \in Seq({})
    OBVIOUS
  <2>2. call \in CallSet
    BY DEF Local, CallSet, Lists
  <2>3. req.id = 0 /\ req.list = Functions
    BY DEF NoRequest
  <2> QED
    BY <2>1, <2>2, <2>3 DEF Types, Lists, Statuses
<1>2. SendInv /\ OneRequest /\ AgreeInv
  BY DEF SendInv, OneRequest, AgreeInv, Accepted, Local, Pending, Statuses
<1> QED
  BY <1>1, <1>2 DEF Inv

------------------------------------------------------------------------------
(* The ways a step changes the lists and the requests.                      *)

\* A step of the call that sends and takes nothing.
LEMMA CallMoves ==
    ASSUME Inv, UNCHANGED listVars, call' \in CallSet,
           call'.pc \in Pending <=> call.pc \in Pending, call'.pc # "panic",
           session \/ call'.pc \in {"idle", "halted"}
    PROVE  Inv'
<1> USE DEF listVars, requestVars, adapterVars
<1>1. Types'
  BY DEF Inv, Types
<1>2. SendInv'
  BY DEF Inv, SendInv, Pending
<1>3. OneRequest' /\ AgreeInv'
  BY DEF Inv, OneRequest, AgreeInv, Accepted
<1> QED
  BY <1>1, <1>2, <1>3 DEF Inv

\* A list is replaced, or the transport turns out to be closed.
LEMMA Replaces ==
    ASSUME Inv, session, call.pc \notin Pending,
           NEW c \in CallSet, c.pc \in Pending, NEW l \in Lists, NEW places,
           Replace(c, l, places), UNCHANGED <<session, tracked, adapterVars, unsure>>
    PROVE  Inv'
<1>1. CASE ~up
  <2>1. call' = Idle /\ UNCHANGED requestVars
    BY <1>1 DEF Replace
  <2>2. Idle \in CallSet /\ Idle.pc = "idle"
    BY DEF Idle, Local, CallSet, Lists
  <2> QED
    BY <2>1, <2>2, CallMoves DEF listVars, Pending
<1>2. CASE up
  <2>1. /\ sent' = sent + 1 /\ req' = [id |-> sent + 1, list |-> l, places |-> places]
        /\ wire' = Append(wire, req') /\ call' = c /\ answer' = answer
        /\ UNCHANGED <<session, up, tracked, adapter, unsure>>
    BY <1>2 DEF Replace, adapterVars
  <2>2. req = NoRequest /\ answer = "none" /\ sent \in Nat
    BY DEF Inv, SendInv, OneRequest, Types
  <2>3. req'.id = sent + 1 /\ req'.list = l /\ req'.places = places /\ req' # NoRequest
    BY <2>1, <2>2 DEF NoRequest
  <2>4. PICK S : wire \in Seq(S)
    BY DEF Inv, Types
  <2> DEFINE T == S \union {req'}
  <2>5. wire \in Seq(T) /\ req' \in T
    BY <2>4, SeqMonotonic
  <2>6. /\ wire' \in Seq(T) /\ Len(wire) \in Nat /\ Len(wire') = Len(wire) + 1
        /\ \A i \in 1..Len(wire) : wire'[i] = wire[i]
        /\ wire'[Len(wire) + 1] = req'
    BY <2>1, <2>5, AppendProperties, LenProperties
  <2> HIDE DEF T
  <2>7. \A i \in 1..Len(wire') : i \in 1..Len(wire) \/ i = Len(wire) + 1
    BY <2>6
  <2>8. \A i \in 1..Len(wire) : wire[i].id \in 1..sent /\ wire[i].list \in Lists
    BY DEF Inv, Types
  <2>9. Types'
    <3>1. \A i \in 1..Len(wire') : wire'[i].id \in 1..sent' /\ wire'[i].list \in Lists
      BY <2>1, <2>2, <2>3, <2>6, <2>7, <2>8
    <3> QED
      BY <2>1, <2>2, <2>3, <2>6, <3>1 DEF Inv, Types
  <2>10. SendInv'
    BY <2>1, <2>3 DEF Inv, SendInv, Pending
  <2>11. OneRequest'
    <3>1. ASSUME NEW i \in 1..Len(wire'), NEW j \in 1..Len(wire'), i < j
          PROVE  wire'[i].id < wire'[j].id
      <4>1. i \in 1..Len(wire)
        BY <2>6, <3>1
      <4>2. CASE j \in 1..Len(wire)
        BY <2>6, <3>1, <4>1, <4>2 DEF Inv, OneRequest
      <4>3. CASE j = Len(wire) + 1
        <5>1. wire[i].id \in Nat /\ wire[i].id <= sent
          BY <2>2, <2>8, <4>1
        <5> QED
          BY <2>2, <2>3, <2>6, <4>1, <4>3, <5>1
      <4> QED
        BY <2>7, <4>2, <4>3
    <3>2. wire' # <<>> /\ wire'[Len(wire')] = req'
      BY <2>6, EmptySeq
    <3> QED
      BY <2>1, <2>2, <2>3, <3>1, <3>2 DEF OneRequest
  <2>12. AgreeInv'
    <3>1. \A m \in Lists : ~Accepted(m) /\ ~Accepted(m)'
      BY <2>1, <2>2 DEF Accepted, Statuses
    <3>2. \A i \in 1..Len(wire) : wire[i].list \in unsure
      BY <1>2, <2>2 DEF Inv, AgreeInv
    <3>3. \A i \in 1..Len(wire') : wire'[i].list \notin unsure => wire'[i] = req'
      BY <2>6, <2>7, <3>2
    <3> QED
      BY <1>2, <2>1, <2>3, <3>1, <3>3 DEF Inv, AgreeInv
  <2> QED
    BY <2>9, <2>10, <2>11, <2>12 DEF Inv
<1> QED
  BY <1>1, <1>2 DEF Inv, Types

\* The session ends; no call waits any more.
LEMMA Ends ==
    ASSUME Inv, session' = FALSE, tracked' = [l \in Lists |-> <<>>],
           call' \in CallSet, call'.pc \in {"idle", "halted"},
           req' = NoRequest, answer' = "none", UNCHANGED <<sent, wire, adapterVars>>
    PROVE  Inv'
<1>1. Types'
  <2>1. req'.id = 0 /\ req'.list = Functions
    BY DEF NoRequest
  <2>2. session' \in BOOLEAN /\ DOMAIN tracked' = Lists
    OBVIOUS
  <2>3. UNCHANGED <<up, adapter, sent, wire>>
    BY DEF adapterVars
  <2> QED
    BY <2>1, <2>2, <2>3 DEF Inv, Types, Lists
<1>2. SendInv' /\ OneRequest' /\ AgreeInv'
  BY DEF Inv, SendInv, OneRequest, AgreeInv, Pending
<1> QED
  BY <1>1, <1>2 DEF Inv

\* An acknowledgement: both sides have the list of the request.
LEMMA Acknowledges ==
    ASSUME Inv, call.pc \in Pending, Acknowledged,
           call' \in CallSet, call'.pc \notin Pending, call'.pc # "panic"
    PROVE  Inv'
<1>1. /\ answer \in Statuses /\ req' = NoRequest /\ answer' = "none"
      /\ tracked' = [tracked EXCEPT ![req.list] = req.places]
      /\ unsure' = unsure \ {req.list}
      /\ UNCHANGED <<session, sent, wire, adapter, up>>
  BY DEF Acknowledged, Committed, adapterVars
<1>2. session /\ req # NoRequest /\ wire = <<>> /\ answer # "none"
  BY <1>1 DEF Inv, SendInv, OneRequest, Pending, Statuses
<1>3. Types'
  <2>1. req'.id = 0 /\ req'.list = Functions
    BY <1>1 DEF NoRequest
  <2> QED
    BY <1>1, <2>1 DEF Inv, Types, Lists
<1>4. SendInv' /\ OneRequest'
  BY <1>1, <1>2 DEF Inv, SendInv, OneRequest
<1>5. AgreeInv'
  <2>1. ASSUME up, NEW l \in Lists \ unsure' PROVE tracked'[l] = adapter[l]
    <3>1. CASE l = req.list
      <4>1. adapter[l] = req.places
        BY <1>1, <1>2, <2>1, <3>1 DEF Inv, AgreeInv, Accepted
      <4> QED
        BY <1>1, <3>1, <4>1 DEF Inv, Types
    <3>2. CASE l # req.list
      <4>1. tracked[l] = adapter[l]
        BY <1>1, <1>2, <2>1, <3>2 DEF Inv, AgreeInv, Accepted
      <4> QED
        BY <1>1, <3>2, <4>1 DEF Inv, Types
    <3> QED
      BY <3>1, <3>2
  <2>2. Len(wire) = 0
    BY <1>2
  <2> QED
    BY <1>1, <2>1, <2>2 DEF AgreeInv, Accepted
<1> QED
  BY <1>3, <1>4, <1>5 DEF Inv

\* A request without an acknowledgement is given up or ends in an error.
LEMMA Fails ==
    ASSUME Inv, Fail, answer \notin Statuses,
           \/ answer = "refused" /\ unsure' = unsure
           \/ ~up /\ unsure' = unsure
           \/ unsure' = unsure \union {req.list}
    PROVE  Inv'
<1>1. /\ req # NoRequest /\ call' = Idle /\ req' = NoRequest /\ answer' = "none"
      /\ UNCHANGED <<sent, wire, adapterVars>>
  BY DEF Fail
<1>2. Idle \in CallSet /\ Idle.pc = "idle"
  BY DEF Idle, Local, CallSet, Lists
<1>3. CASE call.tool = "debug"
  BY <1>1, <1>2, <1>3, Ends DEF Fail, EndSession
<1>4. CASE call.tool # "debug"
  <2>1. tracked' = tracked /\ session' = session
    BY <1>4 DEF Fail, Committed
  <2>2. session
    BY <1>1 DEF Inv, SendInv, Pending
  <2>3. Types'
    <3>1. req'.id = 0 /\ req'.list = Functions
      BY <1>1 DEF NoRequest
    <3> QED
      BY <1>1, <1>2, <2>1, <3>1 DEF Inv, Types, adapterVars, Lists
  <2>4. SendInv' /\ OneRequest'
    BY <1>1, <1>2, <2>1, <2>2 DEF Inv, SendInv, OneRequest, Pending, adapterVars
  <2>5. AgreeInv'
    <3>1. ASSUME up PROVE \A i \in 1..Len(wire) : wire[i].list \in unsure'
      <4>1. ASSUME NEW i \in 1..Len(wire) PROVE wire[i].list \in unsure \/ wire[i] = req
        BY <2>2, <3>1 DEF Inv, AgreeInv
      <4>2. answer = "refused" => Len(wire) = 0
        BY DEF Inv, OneRequest
      <4> QED
        BY <3>1, <4>1, <4>2
    <3>2. \A l \in Lists : ~Accepted(l) /\ ~Accepted(l)'
      BY <1>1 DEF Accepted
    <3>3. unsure \subseteq unsure'
      OBVIOUS
    <3> QED
      BY <1>1, <2>1, <2>2, <3>1, <3>2, <3>3 DEF Inv, AgreeInv, adapterVars
  <2> QED
    BY <2>3, <2>4, <2>5 DEF Inv
<1> QED
  BY <1>3, <1>4

\* The adapter serves the request at the head of the wire.
LEMMA Serves == ASSUME Inv, Serve PROVE Inv'
<1> DEFINE q == wire[1]
<1>1. PICK s \in Statuses \union {"refused"} :
        /\ up /\ wire # <<>>
        /\ adapter' = IF s = "refused" THEN adapter
                      ELSE [adapter EXCEPT ![q.list] = q.places]
        /\ answer' = IF q.id = req.id THEN s ELSE answer
        /\ wire' = Tail(wire)
        /\ UNCHANGED <<session, tracked, call, req, sent, up, unsure>>
  <2>1. wire # <<>> => Head(wire) = wire[1]
    BY DEF Inv, Types
  <2> QED
    BY <2>1 DEF Serve, Awaited, ghostVars
<1>2. PICK S : wire \in Seq(S)
  BY DEF Inv, Types
<1>3. /\ wire' \in Seq(S) /\ Len(wire) \in Nat /\ Len(wire') = Len(wire) - 1
      /\ 1 \in 1..Len(wire)
      /\ \A i \in 1..Len(wire') : wire'[i] = wire[i + 1] /\ i + 1 \in 1..Len(wire)
  BY <1>1, <1>2, HeadTailProperties, EmptySeq, LenProperties
<1>4. /\ \A i \in 1..Len(wire) : wire[i].id \in 1..sent /\ wire[i].list \in Lists
      /\ sent \in Nat /\ answer = "none"
  BY <1>1 DEF Inv, Types, OneRequest
\* The awaited request is the last on the wire.
<1>5. ASSUME q.id = req.id PROVE req # NoRequest /\ q = req /\ Len(wire') = 0 /\ wire' = <<>>
  <2>1. req # NoRequest
    BY <1>3, <1>4, <1>5 DEF NoRequest
  <2>2. req.id = sent /\ wire[Len(wire)] = req
    BY <1>1, <1>4, <2>1 DEF Inv, OneRequest
  <2>3. Len(wire) = 1
    <3>1. SUFFICES ASSUME Len(wire) # 1 PROVE FALSE
      OBVIOUS
    <3>2. 1 < Len(wire) /\ Len(wire) \in 1..Len(wire)
      BY <1>3, <3>1
    <3>3. wire[1].id < wire[Len(wire)].id
      BY <1>3, <3>2 DEF Inv, OneRequest
    <3> QED
      BY <1>3, <1>4, <1>5, <2>2, <3>2, <3>3
  <2> QED
    BY <1>3, <2>1, <2>2, <2>3, EmptySeq
<1>6. ASSUME q.id # req.id PROVE q # req /\ (req # NoRequest => Len(wire') > 0)
  <2>1. q # req
    BY <1>6
  <2>2. ASSUME req # NoRequest PROVE Len(wire') > 0
    <3>1. wire[Len(wire)] = req
      BY <1>1, <1>4, <2>2 DEF Inv, OneRequest
    <3>2. Len(wire) # 1
      BY <2>1, <3>1
    <3> QED
      BY <1>3, <3>2
  <2> QED
    BY <2>1, <2>2
<1> HIDE DEF q
<1>7. Types'
  <2>1. \A i \in 1..Len(wire') : wire'[i].id \in 1..sent' /\ wire'[i].list \in Lists
    BY <1>1, <1>3, <1>4
  <2>2. DOMAIN adapter' = Lists
    BY <1>1 DEF Inv, Types
  <2> QED
    BY <1>1, <1>3, <2>1, <2>2 DEF Inv, Types
<1>8. SendInv'
  BY <1>1 DEF Inv, SendInv
<1>9. OneRequest'
  <2>1. ASSUME NEW i \in 1..Len(wire'), NEW j \in 1..Len(wire'), i < j
        PROVE  wire'[i].id < wire'[j].id
    <3>1. i + 1 \in 1..Len(wire) /\ j + 1 \in 1..Len(wire) /\ i + 1 < j + 1
      BY <1>3, <2>1
    <3> QED
      BY <1>3, <3>1 DEF Inv, OneRequest
  <2>2. ASSUME req # NoRequest, answer' = "none" PROVE wire' # <<>> /\ wire'[Len(wire')] = req
    <3>1. q.id # req.id
      BY <1>1, <2>2 DEF Statuses
    <3>2. Len(wire') > 0
      BY <1>6, <2>2, <3>1
    <3>3. Len(wire') \in 1..Len(wire') /\ Len(wire') + 1 = Len(wire)
      BY <1>3, <3>2
    <3>4. wire'[Len(wire')] = wire[Len(wire)]
      BY <1>3, <3>3
    <3>5. wire[Len(wire)] = req
      BY <1>1, <1>4, <2>2 DEF Inv, OneRequest
    <3>6. wire' # <<>>
      BY <3>2
    <3> QED
      BY <3>4, <3>5, <3>6
  <2>3. answer' # "none" => req # NoRequest /\ wire' = <<>>
    BY <1>1, <1>4, <1>5
  <2> QED
    BY <1>1, <2>1, <2>2, <2>3 DEF Inv, OneRequest
<1>10. AgreeInv'
  <2> SUFFICES ASSUME session PROVE AgreeInv'
    BY <1>1 DEF AgreeInv
  <2>1. \A i \in 1..Len(wire) : wire[i].list \notin unsure => req # NoRequest /\ wire[i] = req
    BY <1>1 DEF Inv, AgreeInv
  <2>2. \A i \in 1..Len(wire') : wire'[i].list \notin unsure => req # NoRequest /\ wire'[i] = req
    BY <1>3, <2>1
  <2>3. \A l \in Lists : ~Accepted(l)
    BY <1>4 DEF Accepted, Statuses
  <2>4. \A l \in Lists \ unsure : tracked[l] = adapter[l]
    BY <1>1, <2>3 DEF Inv, AgreeInv
  <2>5. CASE q.id = req.id
    <3>1. q = req /\ answer' = s /\ req' = req /\ tracked' = tracked /\ unsure' = unsure
      BY <1>1, <1>5, <2>5
    <3>2. \A l \in Lists : Accepted(l)' => adapter'[l] = req.places
      BY <1>1, <3>1 DEF Accepted, Inv, Types, Statuses
    <3>3. \A l \in Lists \ unsure : ~Accepted(l)' => tracked[l] = adapter'[l]
      <4>1. ASSUME NEW l \in Lists \ unsure, ~Accepted(l)' PROVE tracked[l] = adapter'[l]
        <5>1. s = "refused" \/ req.list # l
          BY <1>5, <2>5, <3>1, <4>1 DEF Accepted
        <5> QED
          BY <1>1, <2>4, <3>1, <5>1 DEF Inv, Types
      <4> QED
        BY <4>1
    <3> QED
      BY <1>1, <2>2, <3>1, <3>2, <3>3 DEF AgreeInv
  <2>6. CASE q.id # req.id
    <3>1. answer' = "none" /\ q.list \in unsure
      BY <1>1, <1>3, <1>4, <1>6, <2>1, <2>6 DEF q
    <3>2. \A l \in Lists : ~Accepted(l)'
      BY <3>1 DEF Accepted, Statuses
    <3>3. \A l \in Lists \ unsure : adapter'[l] = adapter[l]
      BY <1>1, <3>1 DEF Inv, Types
    <3> QED
      BY <1>1, <2>2, <2>4, <3>2, <3>3 DEF AgreeInv
  <2> QED
    BY <2>5, <2>6
<1> QED
  BY <1>7, <1>8, <1>9, <1>10 DEF Inv

------------------------------------------------------------------------------
(* The steps.                                                               *)

\* A tool takes its breakpoint back, if the session still tracks it.
LEMMA TakesBack ==
    ASSUME Inv, call.pc \in {"unverified", "halted"}, TakeBack
    PROVE  Inv'
<1>1. UNCHANGED <<session, tracked, adapterVars, unsure>>
  BY DEF TakeBack
<1>2. CASE Removable(call.list, call.place)
  <2>1. session
    <3>1. tracked[call.list] # <<>>
      BY <1>2 DEF Removable, Has, ToSet
    <3> QED
      BY <3>1 DEF Inv, SendInv, Types, CallSet
  <2>2. At("undoing") \in CallSet /\ At("undoing").pc = "undoing"
    BY DEF At, Inv, Types, CallSet
  <2>3. Replace(At("undoing"), call.list, Without(call.list, call.place))
    BY <1>2 DEF TakeBack
  <2>4. call.list \in Lists
    BY DEF Inv, Types, CallSet
  <2> QED
    BY <1>1, <2>1, <2>2, <2>3, <2>4, Replaces DEF Pending
<1>3. CASE ~Removable(call.list, call.place)
  <2>1. call' = Idle /\ UNCHANGED requestVars
    BY <1>3 DEF TakeBack
  <2>2. Idle \in CallSet /\ Idle.pc = "idle"
    BY DEF Idle, Local, CallSet, Lists
  <2> QED
    BY <1>1, <2>1, <2>2, CallMoves DEF listVars, Pending
<1> QED
  BY <1>2, <1>3

\* The calls that start to replace a list.
LEMMA BeginSteps ==
    ASSUME Inv,
           \/ \E l \in Lists, p \in Places : Begin(l, p)
           \/ \E f \in Files : ClearFile(f)
           \/ ClearAll \/ ClearNext
    PROVE  Inv'
<1>0. ASSUME NEW pc \in {"adding", "armed", "clearing", "clearAll"},
             NEW tool \in {"breakpoint", "continue", "clear", "clearAll"},
             NEW l \in Lists, NEW p \in Places \union {NoPlace}
      PROVE  Local(pc, tool, l, p) \in CallSet /\ Local(pc, tool, l, p).pc = pc
  BY DEF Local, CallSet
<1>1. ASSUME NEW l \in Lists, NEW p \in Places, AddInitial(l, p) PROVE Inv'
  <2> DEFINE c == [call EXCEPT !.pc = "adding", !.list = l, !.place = p]
  <2>1. c \in CallSet /\ c.pc = "adding"
    BY DEF Inv, Types, CallSet
  <2>2. /\ Replace(c, l, With(l, p)) /\ call.pc = "starting"
        /\ UNCHANGED <<session, tracked, adapterVars, unsure>>
    BY <1>1 DEF AddInitial, ghostVars
  <2>3. session
    BY <2>2 DEF Inv, SendInv
  <2> HIDE DEF c
  <2> QED
    BY <2>1, <2>2, <2>3, Replaces DEF Pending
<1>2. ASSUME NEW l \in Lists, NEW p \in Places, Breakpoint(l, p) PROVE Inv'
  <2>1. call.pc = "idle" /\ session /\ UNCHANGED <<session, tracked, adapterVars, unsure>>
    BY <1>2 DEF Breakpoint, Enter
  <2>2. CASE Has(l, p)
    <3>1. UNCHANGED <<call, requestVars>>
      BY <1>2, <2>2 DEF Breakpoint
    <3> QED
      BY <2>1, <3>1, CallMoves DEF listVars, Inv, Types
  <2>3. CASE ~Has(l, p)
    BY <1>0, <1>2, <2>1, <2>3, Replaces DEF Breakpoint, Pending
  <2> QED
    BY <2>2, <2>3
<1>3. ASSUME NEW l \in Lists, NEW p \in Places, RunTo(l, p) PROVE Inv'
  <2> DEFINE c == [Local("armed", "continue", l, p) EXCEPT !.temp = Temporary(l, p)]
  <2>1. call.pc = "idle" /\ session /\ UNCHANGED <<session, tracked, adapterVars, unsure>>
    BY <1>3 DEF RunTo, Enter
  <2>2. /\ c \in CallSet /\ c.pc = "armed"
        /\ [c EXCEPT !.pc = "adding"] \in CallSet /\ [c EXCEPT !.pc = "adding"].pc = "adding"
    BY DEF Local, CallSet, Temporary, Has
  <2>3. IF Has(l, p) THEN call' = c /\ UNCHANGED requestVars
        ELSE Replace([c EXCEPT !.pc = "adding"], l, With(l, p))
    BY <1>3 DEF RunTo
  <2> HIDE DEF c
  <2>4. CASE Has(l, p)
    BY <2>1, <2>2, <2>3, <2>4, CallMoves DEF listVars, Pending
  <2>5. CASE ~Has(l, p)
    BY <2>1, <2>2, <2>3, <2>5, Replaces DEF Pending
  <2> QED
    BY <2>4, <2>5
<1>4. ASSUME NEW l \in Lists, NEW p \in Places, ClearPlace(l, p) PROVE Inv'
  <2>1. call.pc = "idle" /\ session /\ UNCHANGED <<session, tracked, adapterVars, unsure>>
    BY <1>4 DEF ClearPlace, Enter
  <2> QED
    BY <1>0, <1>4, <2>1, Replaces DEF ClearPlace, Pending
<1>5. ASSUME NEW f \in Files, ClearFile(f) PROVE Inv'
  <2>1. call.pc = "idle" /\ session /\ UNCHANGED <<session, tracked, adapterVars, unsure>>
    BY <1>5 DEF ClearFile, Enter
  <2>2. f \in Lists /\ NoPlace \in Places \union {NoPlace}
    BY DEF Lists
  <2> QED
    BY <1>0, <1>5, <2>1, <2>2, Replaces DEF ClearFile, Pending
<1>6. CASE ClearAll
  <2>1. /\ call.pc = "idle" /\ session
        /\ UNCHANGED <<session, tracked, adapterVars, unsure, requestVars>>
        /\ call' = [Local("clearAll", "clearAll", Functions, NoPlace)
                      EXCEPT !.todo = {f \in Files : tracked[f] # <<>>}]
    BY <1>6 DEF ClearAll, Enter
  <2>2. call' \in CallSet /\ call'.pc = "clearAll"
    BY <2>1 DEF Local, CallSet, Lists
  <2> QED
    BY <2>1, <2>2, CallMoves DEF listVars, Pending
<1>7. CASE ClearNext
  <2>1. call.pc = "clearAll" /\ UNCHANGED <<session, tracked, adapterVars, unsure>>
    BY <1>7 DEF ClearNext, ghostVars
  <2>2. PICK l \in IF call.todo = {} THEN {Functions} ELSE call.todo :
          Replace([At("clearing") EXCEPT !.list = l, !.todo = @ \ {l}], l, <<>>)
    BY <1>7 DEF ClearNext
  <2>3. l \in Lists
    BY DEF Inv, Types, CallSet, Lists
  <2> DEFINE c == [At("clearing") EXCEPT !.list = l, !.todo = @ \ {l}]
  <2>4. c \in CallSet /\ c.pc = "clearing"
    BY <2>3 DEF At, Inv, Types, CallSet
  <2>5. session
    BY <2>1 DEF Inv, SendInv
  <2> HIDE DEF c
  <2>6. Replace(c, l, <<>>)
    BY <2>2 DEF c
  <2> QED
    BY <2>1, <2>3, <2>4, <2>5, <2>6, Replaces DEF Pending
<1> QED
  BY <1>1, <1>2, <1>3, <1>4, <1>5, <1>6, <1>7 DEF Begin

\* What a call does with an answer, or without one.
LEMMA FinishSteps == ASSUME Inv, Finish PROVE Inv'
<1>0. /\ Idle \in CallSet /\ Idle.pc = "idle"
      /\ \A pc \in {"starting", "armed", "unverified", "clearAll"} :
            At(pc) \in CallSet /\ At(pc).pc = pc
  BY DEF Idle, Local, CallSet, Lists, At, Inv, Types
<1>1. CASE Added
  <2>1. call.pc = "adding" /\ Acknowledged
    BY <1>1 DEF Added
  <2>2. call' \in {At("starting"), At("armed"), Idle, At("unverified")}
    BY <1>1 DEF Added
  <2>3. call' \in CallSet /\ call'.pc \in {"starting", "armed", "idle", "unverified"}
    BY <1>0, <2>2
  <2> QED
    BY <2>1, <2>3, Acknowledges DEF Pending
<1>2. CASE Undone
  BY <1>0, <1>2, Acknowledges DEF Undone, Pending
<1>3. CASE Cleared
  <2>1. call.pc = "clearing" /\ Acknowledged /\ call' \in {At("clearAll"), Idle}
    BY <1>3 DEF Cleared
  <2>2. call' \in CallSet /\ call'.pc \in {"clearAll", "idle"}
    BY <1>0, <2>1
  <2> QED
    BY <2>1, <2>2, Acknowledges DEF Pending
<1>4. CASE Refused
  BY <1>4, Fails DEF Refused, Statuses
<1>5. CASE WaitFails
  BY <1>5, Fails DEF WaitFails, Statuses
<1>6. CASE GiveUp
  BY <1>6, Fails DEF GiveUp, Statuses
<1> QED
  BY <1>1, <1>2, <1>3, <1>4, <1>5, <1>6 DEF Finish

\* The rest of a call, its cancellation, and the end of the session.
LEMMA ProceedSteps ==
    ASSUME Inv, Started \/ StartFails \/ Undo \/ Continue \/ Halted \/ Terminated \/ CleanUp
                \/ Cancel \/ ClientEnded
    PROVE  Inv'
<1> USE DEF listVars, ghostVars, Pending
<1>0. /\ Idle \in CallSet /\ Idle.pc = "idle"
      /\ \A pc \in {"running", "halted"} : At(pc) \in CallSet /\ At(pc).pc = pc
  BY DEF Idle, Local, CallSet, Lists, At, Inv, Types
<1>1. CASE Started
  BY <1>0, <1>1, CallMoves DEF Started
<1>2. CASE StartFails
  <2>1. req = NoRequest /\ answer = "none"
    BY <1>2 DEF StartFails, Inv, SendInv, OneRequest
  <2> QED
    BY <1>0, <1>2, <2>1, Ends DEF StartFails, EndSession, requestVars
<1>3. CASE Undo
  BY <1>3, TakesBack DEF Undo
<1>4. CASE Continue
  <2>1. session /\ call.pc = "armed" /\ call' \in {At("running"), Idle} /\ UNCHANGED listVars
    BY <1>4 DEF Continue, Inv, SendInv
  <2> QED
    BY <1>0, <2>1, CallMoves
<1>5. CASE Halted
  BY <1>0, <1>5, CallMoves DEF Halted
<1>6. CASE Terminated
  <2>1. req = NoRequest /\ answer = "none"
    BY <1>6 DEF Terminated, Inv, SendInv, OneRequest
  <2> QED
    BY <1>0, <1>6, <2>1, Ends DEF Terminated, EndSession, requestVars
<1>7. CASE CleanUp
  <2>1. CASE TakeBack
    BY <1>7, <2>1, TakesBack DEF CleanUp
  <2>2. CASE call' = Idle /\ UNCHANGED listVars
    BY <1>0, <1>7, <2>2, CallMoves DEF CleanUp
  <2> QED
    BY <1>7, <2>1, <2>2 DEF CleanUp
<1>8. CASE Cancel
  <2>1. call' \in CallSet /\ call'.pc = call.pc /\ UNCHANGED listVars
    BY <1>8 DEF Cancel, Inv, Types, CallSet
  <2> QED
    BY <2>1, CallMoves DEF Inv, SendInv
<1>9. CASE ClientEnded
  <2>1. req = NoRequest /\ answer = "none" /\ call' = call /\ call.pc = "idle"
    BY <1>9 DEF ClientEnded, Inv, SendInv, OneRequest
  <2> QED
    BY <1>9, <2>1, Ends DEF ClientEnded, EndSession, requestVars, Inv, Types
<1> QED
  BY <1>1, <1>2, <1>3, <1>4, <1>5, <1>6, <1>7, <1>8, <1>9

LEMMA Step == Inv /\ [Next]_vars => Inv'
<1> SUFFICES ASSUME Inv, [Next]_vars PROVE Inv'
  OBVIOUS
<1>1. CASE AdapterExits
  <2>1. up' = FALSE /\ UNCHANGED <<session, tracked, call, requestVars, adapter, unsure>>
    BY <1>1 DEF AdapterExits, ghostVars
  <2> QED
    BY <2>1 DEF Inv, Types, SendInv, OneRequest, AgreeInv, requestVars
<1>2. CASE UNCHANGED vars
  BY <1>2, CallMoves DEF vars, listVars, ghostVars, Inv, Types, SendInv
<1> QED
  BY <1>1, <1>2, BeginSteps, FinishSteps, ProceedSteps, Serves DEF Next, Proceed

------------------------------------------------------------------------------
(* What is left of a list.                                                  *)

LEMMA Least ==
    ASSUME NEW T, T \subseteq Nat, T # {}
    PROVE  \E x \in T : \A y \in T : ~(y < x)
<1>1. IsWellFoundedOn(OpToRel(<, Nat), Nat)
  BY NatLessThanWellFounded, Zenon
<1>2. \E x \in T : \A y \in T : ~ (<<y, x>> \in OpToRel(<, Nat))
  BY <1>1, WFMin, Zenon
<1> QED
  BY <1>2 DEF OpToRel

LEMMA Deletion ==
    ASSUME NEW S, NEW s \in Seq(S), NEW p
    PROVE  Deleted(s, p) \in Seq(S) /\ ToSet(Deleted(s, p)) = ToSet(s) \ {p}
<1> DEFINE B(g, i) == IF i = 0 THEN <<>>
                      ELSE IF s[i] = p THEN g[i - 1] ELSE Append(g[i - 1], s[i])
           Defined(n) == \E g : g = [i \in 0..n |-> B(g, i)]
<1>0. Len(s) \in Nat /\ \A i \in 1..Len(s) : s[i] \in S
  BY ElementOfSeq, LenProperties
<1>1. \A n \in 0..Len(s) : Defined(n)
  <2> DEFINE T == {n \in 0..Len(s) : ~Defined(n)}
  <2>1. SUFFICES ASSUME T # {} PROVE FALSE
    OBVIOUS
  <2>2. PICK n \in T : \A m \in T : ~(m < n)
    <3>1. T \subseteq Nat
      BY <1>0
    <3> HIDE DEF T
    <3> QED
      BY <2>1, <3>1, Least
  <2>3. n # 0
    <3>1. [i \in 0..0 |-> <<>>] = [i \in 0..0 |-> B([i1 \in 0..0 |-> <<>>], i)]
      OBVIOUS
    <3>2. Defined(0)
      BY <3>1
    <3> QED
      BY <2>2, <3>2
  <2>4. n \in Nat /\ n - 1 \in 0..Len(s) /\ n - 1 < n
    BY <1>0, <2>2, <2>3
  <2>5. Defined(n - 1)
    BY <2>2, <2>4
  <2>6. PICK g : g = [i \in 0..(n - 1) |-> B(g, i)]
    BY <2>5
  <2> DEFINE h == [i \in 0..n |-> IF i < n THEN g[i] ELSE B(g, n)]
  <2>7. \A i \in 0..n : h[i] = B(h, i)
    <3>1. ASSUME NEW i \in 0..n, i < n PROVE h[i] = B(h, i)
      <4>0. i \in 0..(n - 1)
        BY <2>4, <3>1
      <4>1a. h[i] = g[i]
        BY <3>1
      <4>1b. g[i] = [j \in 0..(n - 1) |-> B(g, j)][i]
        BY <2>6
      <4>1. h[i] = g[i] /\ g[i] = B(g, i)
        BY <4>0, <4>1a, <4>1b
      <4>2. i \in Nat /\ (i # 0 => i - 1 \in 0..n /\ i - 1 < n)
        BY <2>4, <3>1
      <4>3. i # 0 => h[i - 1] = g[i - 1]
        BY <4>2
      <4> HIDE DEF h
      <4>4. CASE i = 0
        BY <4>1, <4>4
      <4>5. CASE i # 0
        BY <4>1, <4>3, <4>5
      <4> QED
        BY <4>4, <4>5
    <3>2. ASSUME NEW i \in 0..n, i = n PROVE h[i] = B(h, i)
      <4>1. h[n] = B(g, n) /\ h[n - 1] = g[n - 1]
        BY <2>4
      <4> QED
        BY <2>3, <3>2, <4>1
    <3>3. \A i \in 0..n : i < n \/ i = n
      BY <2>4
    <3> HIDE DEF h
    <3> QED
      BY <3>1, <3>2, <3>3
  <2>8. h = [i \in 0..n |-> B(h, i)]
    <3>1. \A i \in 0..n : B(h, i) = h[i]
      BY <2>7
    <3>2. h = [i \in 0..n |-> h[i]]
      OBVIOUS
    <3> HIDE DEF h
    <3> QED
      BY <3>1, <3>2
  <2> QED
    BY <2>2, <2>8
<1> DEFINE kept == CHOOSE g : g = [i \in 0..Len(s) |-> B(g, i)]
<1>2. kept = [i \in 0..Len(s) |-> B(kept, i)]
  <2>1. Len(s) \in 0..Len(s)
    BY <1>0
  <2>2. Defined(Len(s))
    BY <1>1, <2>1
  <2> QED
    BY <2>2
<1>3. Deleted(s, p) = kept[Len(s)]
  BY DEF Deleted
<1> HIDE DEF kept
<1>4. \A i \in 0..Len(s) : kept[i] = B(kept, i)
  BY <1>2
<1> DEFINE Right(n) == kept[n] \in Seq(S) /\ ToSet(kept[n]) = {s[i] : i \in 1..n} \ {p}
<1>5. \A n \in 0..Len(s) : Right(n)
  <2> DEFINE T == {n \in 0..Len(s) : ~Right(n)}
  <2>1. SUFFICES ASSUME T # {} PROVE FALSE
    OBVIOUS
  <2>2. PICK n \in T : \A m \in T : ~(m < n)
    <3>1. T \subseteq Nat
      BY <1>0
    <3> HIDE DEF T
    <3> QED
      BY <2>1, <3>1, Least
  <2>3. n # 0
    <3>1. kept[0] = <<>>
      BY <1>0, <1>4
    <3>2. ToSet(<<>>) = {} /\ {s[i] : i \in 1..0} = {}
      BY DEF ToSet
    <3>3. Right(0)
      BY <3>1, <3>2
    <3> QED
      BY <2>2, <3>3
  <2>4. n \in 1..Len(s) /\ n - 1 \in 0..Len(s) /\ n - 1 < n
    BY <1>0, <2>2, <2>3
  <2>5. Right(n - 1)
    BY <2>2, <2>4
  <2>6. {s[i] : i \in 1..n} = {s[i] : i \in 1..(n - 1)} \union {s[n]}
    <3>1. \A i : i \in 1..n <=> i \in 1..(n - 1) \/ i = n
      BY <1>0, <2>4
    <3> QED
      BY <3>1
  <2>7. CASE s[n] = p
    <3>1. kept[n] = kept[n - 1]
      BY <1>4, <2>4, <2>7
    <3>2. Right(n)
      BY <2>5, <2>6, <2>7, <3>1
    <3> QED
      BY <2>2, <3>2
  <2>8. CASE s[n] # p
    <3>1. kept[n] = Append(kept[n - 1], s[n])
      <4>1. n \in 0..Len(s) /\ n # 0
        BY <1>0, <2>4
      <4> QED
        BY <1>4, <4>1, <2>8
    <3>2. kept[n] \in Seq(S) /\ ToSet(kept[n]) = ToSet(kept[n - 1]) \union {s[n]}
      <4>1. kept[n - 1] \in Seq(S) /\ s[n] \in S
        BY <1>0, <2>4, <2>5
      <4> DEFINE k == kept[n - 1]
      <4>2. /\ Append(k, s[n]) \in Seq(S) /\ Len(k) \in Nat
            /\ Len(Append(k, s[n])) = Len(k) + 1
            /\ \A i \in 1..Len(k) : Append(k, s[n])[i] = k[i]
            /\ Append(k, s[n])[Len(k) + 1] = s[n]
        BY <4>1, AppendProperties, LenProperties
      <4> HIDE DEF k
      <4>3. \A i : i \in 1..Len(k) + 1 <=> i \in 1..Len(k) \/ i = Len(k) + 1
        BY <4>2
      <4>4. ToSet(Append(k, s[n])) = ToSet(k) \union {s[n]}
        BY <4>2, <4>3 DEF ToSet
      <4> QED
        BY <3>1, <4>2, <4>4 DEF k
    <3>3. Right(n)
      BY <2>5, <2>6, <2>8, <3>2
    <3> QED
      BY <2>2, <3>3
  <2> QED
    BY <2>7, <2>8
<1>6. ToSet(s) = {s[i] : i \in 1..Len(s)}
  BY DEF ToSet
<1>7. Len(s) \in 0..Len(s)
  BY <1>0
<1>8. Right(Len(s))
  BY <1>5, <1>7
<1> QED
  BY <1>3, <1>6, <1>8
\* What a list holds after a place is added.
LEMMA Appending ==
    ASSUME NEW S, NEW s \in Seq(S), NEW p \in S
    PROVE  Append(s, p) \in Seq(S) /\ ToSet(Append(s, p)) = ToSet(s) \union {p}
<1>1. /\ Append(s, p) \in Seq(S) /\ Len(s) \in Nat /\ Len(Append(s, p)) = Len(s) + 1
      /\ \A i \in 1..Len(s) : Append(s, p)[i] = s[i]
      /\ Append(s, p)[Len(s) + 1] = p
  BY AppendProperties, LenProperties
<1>2. \A i : i \in 1..Len(s) + 1 <=> i \in 1..Len(s) \/ i = Len(s) + 1
  BY <1>1
<1> QED
  BY <1>1, <1>2 DEF ToSet

LEMMA Nothing ==
    /\ \A S : <<>> \in Seq(S)
    /\ ToSet(<<>>) = {}
  BY DEF ToSet

------------------------------------------------------------------------------
(* What the lists hold.                                                     *)

\* The breakpoint the call has set for itself and will take back.
Mine(l) ==
    IF l = call.list /\ \/ call.pc \in {"unverified", "undoing"}
                        \/ call.temp /\ call.pc \in {"armed", "running", "halted"}
    THEN {call.place} ELSE {}

\* What every list holds: the user's breakpoints, leftovers, and the call's own.
Accounted ==
    \A l \in Lists :
        /\ user[l] \subseteq ToSet(tracked[l])
        /\ ToSet(tracked[l]) \subseteq user[l] \union leftover[l] \union Mine(l)
        /\ Mine(l) \intersect user[l] = {} /\ Mine(l) \subseteq Places

\* What a request asks for, and which tools ask.
Asked ==
    /\ call.pc = "starting" => call.tool = "debug"
    /\ call.pc \in {"adding", "undoing"} => req.list = call.list
    /\ call.pc = "adding" =>
           /\ call.place \in Places \ ToSet(tracked[call.list])
           /\ ToSet(req.places) = ToSet(tracked[call.list]) \union {call.place}
           /\ call.tool = "continue" => call.temp
           /\ call.tool \in {"debug", "breakpoint", "continue"}
    /\ call.pc = "undoing" => ToSet(req.places) = ToSet(tracked[call.list]) \ {call.place}
    /\ call.pc = "clearing" => ToSet(req.places) \subseteq ToSet(tracked[req.list])

ListInv == Inv /\ TypeOK /\ Accounted /\ Asked

LEMMA ListStart == Init => ListInv
<1> SUFFICES ASSUME Init PROVE ListInv
  OBVIOUS
<1>1. Inv
  BY Start
<1>2. CallType
  BY DEF Init, Local, CallType, Lists
<1>3. RequestType
  BY Nothing, BreakpointAssumption DEF Init, RequestType, Statuses
<1>4. GhostType
  BY DEF Init, GhostType
<1>5. tracked \in [Lists -> Seq(Places)] /\ adapter \in [Lists -> Seq(Places)]
  BY Nothing DEF Init
<1>6. Accounted /\ Asked
  BY Nothing DEF Init, Accounted, Asked, Mine, Local
<1> QED
  BY <1>1, <1>2, <1>3, <1>4, <1>5, <1>6 DEF ListInv, TypeOK, Init

\* A step that sends and takes nothing.
LEMMA StillTyped ==
    ASSUME TypeOK, UNCHANGED <<requestVars, adapter>>, CallType', GhostType',
           session' \in BOOLEAN, up' \in BOOLEAN, tracked' \in [Lists -> Seq(Places)]
    PROVE  TypeOK'
<1>1. RequestType'
  BY DEF TypeOK, RequestType, requestVars, Request
<1> QED
  BY <1>1 DEF TypeOK

\* What a replacement of a list leaves: a request, or a call that has returned.
LEMMA ReplacesTyped ==
    ASSUME ListInv, session, NEW c \in CallSet, NEW l \in Lists, NEW places \in Seq(Places),
           call.pc \notin Pending, Replace(c, l, places), UNCHANGED <<session, tracked, adapterVars>>,
           GhostType'
    PROVE  /\ TypeOK'
           /\ up => call' = c /\ req'.list = l /\ req'.places = places
           /\ ~up => call' = Idle
<1>1. CASE ~up
  <2>1. call' = Idle /\ UNCHANGED requestVars
    BY <1>1 DEF Replace
  <2>2. CallType'
    BY <2>1 DEF Idle, Local, CallType, Lists
  <2> QED
    BY <1>1, <2>1, <2>2, StillTyped DEF ListInv, TypeOK, adapterVars
<1>2. CASE up
  <2>1. /\ sent < MaxRequests /\ sent' = sent + 1
        /\ req' = [id |-> sent + 1, list |-> l, places |-> places]
        /\ wire' = Append(wire, req') /\ call' = c /\ answer' = answer
    BY <1>2 DEF Replace
  <2>2. req = NoRequest /\ answer = "none" /\ sent \in 0..MaxRequests /\ wire \in Seq(Request)
    BY DEF ListInv, Inv, SendInv, TypeOK, RequestType
  <2>3. sent' \in 1..MaxRequests
    BY <2>1, <2>2, BreakpointAssumption
  <2>4. req' \in Request
    BY <2>1, <2>3 DEF Request
  <2>5. wire' \in Seq(Request)
    BY <2>1, <2>2, <2>4, AppendProperties
  <2>6. RequestType'
    BY <2>1, <2>2, <2>3, <2>4, <2>5, BreakpointAssumption DEF RequestType, Request
  <2>7. CallType'
    BY <2>1 DEF CallType, CallSet
  <2> QED
    BY <1>2, <2>1, <2>6, <2>7 DEF ListInv, TypeOK, adapterVars
<1> QED
  BY <1>1, <1>2 DEF ListInv, TypeOK

\* What an acknowledgement leaves.
LEMMA AcknowledgesTyped ==
    ASSUME ListInv, call.pc \in Pending, Acknowledged, call' \in CallSet,
           user' \in [Lists -> SUBSET Places], leftover' \in [Lists -> SUBSET Places]
    PROVE  /\ TypeOK'
           /\ req.list \in Lists /\ req.places \in Seq(Places)
           /\ tracked' = [tracked EXCEPT ![req.list] = req.places]
           /\ tracked \in [Lists -> Seq(Places)]
<1>1. /\ answer \in Statuses /\ req' = NoRequest /\ answer' = "none"
      /\ tracked' = [tracked EXCEPT ![req.list] = req.places]
      /\ unsure' = unsure \ {req.list}
      /\ UNCHANGED <<session, sent, wire, adapter, up>>
  BY DEF Acknowledged, Committed, adapterVars
<1>2. req # NoRequest
  BY DEF ListInv, Inv, SendInv
<1>3. req \in Request
  BY <1>2 DEF ListInv, TypeOK, RequestType
<1>4. req.list \in Lists /\ req.places \in Seq(Places)
  BY <1>3 DEF Request
<1>5. RequestType'
  BY <1>1 DEF ListInv, TypeOK, RequestType, Request
<1>6. CallType' /\ GhostType'
  BY <1>1 DEF ListInv, TypeOK, GhostType, CallType, CallSet
<1> QED
  BY <1>1, <1>4, <1>5, <1>6 DEF ListInv, TypeOK

------------------------------------------------------------------------------
(* Each step accounts for what the lists hold.                              *)

\* A call that begins, or sends its next request, with a list of what is tracked.
LEMMA Requests ==
    ASSUME ListInv, session, call.pc \in {"idle", "starting", "clearAll"},
           NEW c \in CallSet, NEW l \in Lists, NEW places \in Seq(Places),
           Replace(c, l, places), UNCHANGED <<session, tracked, adapterVars, ghostVars>>,
           \/ /\ c.pc = "adding" /\ c.list = l /\ c.place \in Places \ ToSet(tracked[l])
              /\ ToSet(places) = ToSet(tracked[l]) \union {c.place}
              /\ c.tool = "continue" => c.temp
              /\ c.tool \in {"debug", "breakpoint", "continue"}
           \/ c.pc = "clearing" /\ ToSet(places) \subseteq ToSet(tracked[l])
    PROVE  ListInv'
<1> USE DEF ghostVars
<1>1. Inv'
  BY Replaces DEF ListInv, Pending
<1>2. GhostType'
  BY DEF ListInv, TypeOK, GhostType
<1>3. TypeOK' /\ (up => call' = c /\ req'.list = l /\ req'.places = places) /\ (~up => call' = Idle)
  BY <1>2, ReplacesTyped DEF Pending
<1>4. \A m \in Lists : Mine(m) = {} /\ Mine(m)' = {}
  BY <1>3 DEF Mine, Idle, Local
<1>5. Accounted'
  BY <1>4 DEF ListInv, Accounted
<1>6. Asked'
  BY <1>3 DEF Asked, Idle, Local
<1> QED
  BY <1>1, <1>3, <1>5, <1>6 DEF ListInv

\* A call whose own breakpoint is not tracked any more, or is left over, is done.
LEMMA TakesBackList ==
    ASSUME ListInv, Inv', TakeBack, call.pc = "unverified" \/ (call.pc = "halted" /\ call.temp)
    PROVE  ListInv'
<1>1. /\ UNCHANGED <<session, tracked, adapter, up, unsure, user>>
      /\ call \in CallSet /\ call.list \in Lists
      /\ tracked \in [Lists -> Seq(Places)] /\ leftover \in [Lists -> SUBSET Places]
  BY DEF TakeBack, adapterVars, ListInv, TypeOK, CallType, CallSet, GhostType
<1>2. Mine(call.list) = {call.place} /\ call.place \in Places
  BY <1>1 DEF Mine, ListInv, Accounted
<1>3. CASE Removable(call.list, call.place)
  <2>1. /\ Replace(At("undoing"), call.list, Without(call.list, call.place))
        /\ leftover' = IF up THEN leftover ELSE Left(call.list, call.place)
    BY <1>3 DEF TakeBack
  <2>2. session
    <3>1. tracked[call.list] # <<>>
      BY <1>3, Nothing DEF Removable, Has
    <3> QED
      BY <1>1, <3>1 DEF ListInv, Inv, SendInv
  <2>3. /\ Without(call.list, call.place) \in Seq(Places)
        /\ ToSet(Without(call.list, call.place)) = ToSet(tracked[call.list]) \ {call.place}
    BY <1>1, Deletion DEF Without
  <2>4. At("undoing") \in CallSet /\ At("undoing") = [call EXCEPT !.pc = "undoing"]
    BY <1>1 DEF At, CallSet
  <2>5. leftover' \in [Lists -> SUBSET Places] /\ GhostType'
    <3>1. leftover' \in [Lists -> SUBSET Places]
      BY <1>1, <1>2, <2>1 DEF Left
    <3> QED
      BY <1>1, <3>1 DEF ListInv, TypeOK, GhostType
  <2> DEFINE c == At("undoing")
             places == Without(call.list, call.place)
  <2>6. /\ c \in CallSet /\ c.pc = "undoing" /\ c.list = call.list /\ c.place = call.place
        /\ places \in Seq(Places) /\ ToSet(places) = ToSet(tracked[call.list]) \ {call.place}
        /\ Replace(c, call.list, places)
    BY <1>1, <2>1, <2>3, <2>4 DEF CallSet
  <2> HIDE DEF c, places
  <2>7. /\ TypeOK'
        /\ up => call' = c /\ req'.list = call.list /\ req'.places = places
        /\ ~up => call' = Idle
    BY <1>1, <2>2, <2>5, <2>6, ReplacesTyped DEF Pending, adapterVars
  <2>8. CASE up
    <3>1. \A l \in Lists : Mine(l)' = Mine(l)
      BY <2>6, <2>7, <2>8 DEF Mine
    <3>2. Accounted'
      BY <1>1, <2>1, <2>8, <3>1 DEF ListInv, Accounted
    <3>3. Asked'
      BY <1>1, <2>6, <2>7, <2>8 DEF Asked
    <3> QED
      BY <2>7, <3>2, <3>3 DEF ListInv
  <2>9. CASE ~up
    <3>1. leftover' = [leftover EXCEPT ![call.list] = @ \union {call.place}]
      BY <2>1, <2>9 DEF Left
    <3>2. \A l \in Lists : leftover'[l] = leftover[l] \union Mine(l)
      BY <1>1, <1>2, <3>1 DEF Mine
    <3>3. \A l \in Lists : Mine(l)' = {}
      BY <2>7, <2>9 DEF Mine, Idle, Local
    <3>4. Accounted'
      BY <1>1, <3>2, <3>3 DEF ListInv, Accounted
    <3>5. Asked'
      BY <2>7, <2>9 DEF Asked, Idle, Local
    <3> QED
      BY <2>7, <3>4, <3>5 DEF ListInv
  <2> QED
    BY <2>8, <2>9
<1>4. CASE ~Removable(call.list, call.place)
  <2>1. call' = Idle /\ UNCHANGED requestVars /\ leftover' = leftover
    BY <1>4 DEF TakeBack
  <2>2. CallType' /\ GhostType'
    BY <1>1, <2>1 DEF Idle, Local, CallType, Lists, ListInv, TypeOK, GhostType
  <2>3. TypeOK'
    BY <1>1, <2>1, <2>2, StillTyped DEF ListInv, TypeOK
  <2>4. \A l \in Lists : Mine(l)' = {} /\ Mine(l) \intersect ToSet(tracked[l]) = {}
    BY <1>2, <1>4, <2>1 DEF Mine, Idle, Local, Removable, Has
  <2>5. Accounted'
    BY <1>1, <2>1, <2>4 DEF ListInv, Accounted
  <2>6. Asked'
    BY <2>1 DEF Asked, Idle, Local
  <2> QED
    BY <2>3, <2>5, <2>6 DEF ListInv
<1> QED
  BY <1>3, <1>4

\* The session ends with nothing tracked, so with nothing to account for.
LEMMA EndsList ==
    ASSUME ListInv, Inv', EndSession, call' \in {Idle, At("halted"), call}, RequestType',
           call' = At("halted") => call.pc = "running", call' = call => call.pc = "idle",
           UNCHANGED <<adapterVars, unsure>>
    PROVE  ListInv'
<1>1. /\ session' = FALSE /\ tracked' = [l \in Lists |-> <<>>]
      /\ user' = [l \in Lists |-> {}] /\ leftover' = [l \in Lists |-> {}]
      /\ UNCHANGED <<adapter, up, unsure>> /\ call \in CallSet
  BY DEF EndSession, adapterVars, ListInv, TypeOK, CallType, CallSet
<1>2. call'.pc \in {"idle", "halted"} /\ CallType'
  <2>1. Idle \in CallSet /\ Idle.pc = "idle"
    BY DEF Idle, Local, CallSet, Lists
  <2>2. At("halted") \in CallSet /\ At("halted").pc = "halted"
    BY <1>1 DEF At, CallSet
  <2>3. call' \in CallSet /\ call'.pc \in {"idle", "halted"}
    BY <1>1, <2>1, <2>2
  <2> QED
    BY <2>3 DEF CallType, CallSet
<1>3. TypeOK'
  <2>1. GhostType' /\ tracked' \in [Lists -> Seq(Places)]
    BY <1>1, Nothing DEF ListInv, TypeOK, GhostType
  <2> QED
    BY <1>1, <1>2, <2>1 DEF ListInv, TypeOK
<1>4. Accounted'
  <2>1. \A l \in Lists : Mine(l)' \subseteq Mine(l)
    BY <1>1 DEF Mine, Idle, At, Local, CallSet
  <2> QED
    BY <1>1, <2>1, Nothing DEF ListInv, Accounted
<1>5. Asked'
  BY <1>2 DEF Asked
<1> QED
  BY <1>3, <1>4, <1>5 DEF ListInv

\* A step of the call that changes neither the lists nor what is its own.
LEMMA MovesList ==
    ASSUME ListInv, Inv', UNCHANGED listVars, call' \in CallSet,
           user' \in [Lists -> SUBSET Places], leftover' \in [Lists -> SUBSET Places],
           \A l \in Lists : /\ user[l] \subseteq user'[l] /\ user'[l] \subseteq ToSet(tracked[l])
                            /\ Mine(l)' \subseteq Mine(l) /\ Mine(l)' \intersect user'[l] = {}
                            /\ leftover[l] \union Mine(l) \subseteq leftover'[l] \union Mine(l)',
           \/ call'.pc \notin Pending \union {"starting"}
           \/ \E b \in BOOLEAN : call' = [call EXCEPT !.cancelled = b]
    PROVE  ListInv'
<1>1. UNCHANGED <<session, up, tracked, req, answer, sent, wire, adapter, unsure>>
  BY DEF listVars, requestVars, adapterVars
<1>2. CallType' /\ GhostType'
  BY <1>1 DEF CallType, CallSet, ListInv, TypeOK, GhostType
<1>3. TypeOK'
  BY <1>1, <1>2, StillTyped DEF ListInv, TypeOK, requestVars
<1>4. Accounted'
  <2>1. \A l \in Lists : ToSet(tracked[l])' = ToSet(tracked[l])
    BY <1>1
  <2>2. ASSUME NEW l \in Lists
        PROVE  /\ ToSet(tracked[l]) \subseteq user'[l] \union leftover'[l] \union Mine(l)'
               /\ Mine(l)' \subseteq Places
    <3>1. /\ ToSet(tracked[l]) \subseteq user[l] \union leftover[l] \union Mine(l)
          /\ Mine(l) \subseteq Places
      BY DEF ListInv, Accounted
    <3>2. /\ user[l] \subseteq user'[l] /\ Mine(l)' \subseteq Mine(l)
          /\ leftover[l] \union Mine(l) \subseteq leftover'[l] \union Mine(l)'
      OBVIOUS
    <3> QED
      BY <3>1, <3>2
  <2> QED
    BY <2>1, <2>2 DEF Accounted
<1>5. Asked'
  <2>1. CASE call'.pc \notin Pending \union {"starting"}
    BY <2>1 DEF Asked, Pending
  <2>2. CASE \E b \in BOOLEAN : call' = [call EXCEPT !.cancelled = b]
    <3>1. /\ call'.pc = call.pc /\ call'.list = call.list /\ call'.place = call.place
          /\ call'.temp = call.temp /\ call'.tool = call.tool
      BY <2>2 DEF ListInv, TypeOK, CallType
    <3> QED
      BY <1>1, <3>1 DEF ListInv, Asked
  <2> QED
    BY <2>1, <2>2
<1> QED
  BY <1>3, <1>4, <1>5 DEF ListInv

LEMMA BeginList ==
    ASSUME ListInv, Inv',
           \/ \E l \in Lists, p \in Places : Begin(l, p)
           \/ \E f \in Files : ClearFile(f)
           \/ ClearAll \/ ClearNext
    PROVE  ListInv'
<1>0. /\ \A pc \in {"adding", "armed", "clearing", "clearAll"},
            tool \in {"breakpoint", "continue", "clear", "clearAll"},
            l \in Lists, p \in Places \union {NoPlace} :
            /\ Local(pc, tool, l, p) \in CallSet /\ Local(pc, tool, l, p).pc = pc
            /\ Local(pc, tool, l, p).list = l /\ Local(pc, tool, l, p).place = p
            /\ Local(pc, tool, l, p).tool = tool /\ Local(pc, tool, l, p).temp = FALSE
      /\ call \in CallSet /\ tracked \in [Lists -> Seq(Places)]
      /\ user \in [Lists -> SUBSET Places] /\ leftover \in [Lists -> SUBSET Places]
  BY DEF Local, CallSet, ListInv, TypeOK, CallType, GhostType
<1>a. ASSUME NEW l \in Lists, NEW p \in Places
      PROVE  With(l, p) \in Seq(Places) /\ ToSet(With(l, p)) = ToSet(tracked[l]) \union {p}
  BY <1>0, Appending DEF With
<1>1. ASSUME NEW l \in Lists, NEW p \in Places, AddInitial(l, p) PROVE ListInv'
  <2> DEFINE c == [call EXCEPT !.pc = "adding", !.list = l, !.place = p]
  <2>1. /\ Replace(c, l, With(l, p)) /\ call.pc = "starting" /\ p \notin ToSet(tracked[l])
        /\ UNCHANGED <<session, tracked, adapterVars, ghostVars>>
    BY <1>1 DEF AddInitial, Has
  <2>2. session /\ call.tool = "debug"
    BY <2>1 DEF ListInv, Inv, SendInv, Asked
  <2>3. /\ c \in CallSet /\ c.pc = "adding" /\ c.list = l /\ c.place = p /\ c.tool = "debug"
    <3>1. call \in CallSet
      BY <1>0
    <3> QED
      BY <2>2, <3>1 DEF CallSet
  <2> HIDE DEF c
  <2> QED
    BY <1>a, <2>1, <2>2, <2>3, Requests
<1>2. ASSUME NEW l \in Lists, NEW p \in Places, Breakpoint(l, p) PROVE ListInv'
  <2>1. /\ call.pc = "idle" /\ session /\ leftover' = leftover
        /\ UNCHANGED <<session, tracked, adapterVars, unsure>>
    BY <1>2 DEF Breakpoint, Enter
  <2>2. CASE Has(l, p)
    <3>1. UNCHANGED <<call, requestVars>> /\ user' = [user EXCEPT ![l] = @ \union {p}]
      BY <1>2, <2>2 DEF Breakpoint
    <3>2. p \in ToSet(tracked[l])
      BY <2>2 DEF Has
    <3>3. user' \in [Lists -> SUBSET Places]
      BY <1>0, <3>1
    <3>4. \A m \in Lists : /\ user[m] \subseteq user'[m] /\ user'[m] \subseteq ToSet(tracked[m])
                           /\ Mine(m) = {} /\ Mine(m)' = {}
      BY <1>0, <2>1, <3>1, <3>2 DEF Mine, ListInv, Accounted
    <3> QED
      BY <1>0, <2>1, <3>1, <3>3, <3>4, MovesList DEF listVars, Pending
  <2>3. CASE ~Has(l, p)
    <3> DEFINE c == Local("adding", "breakpoint", l, p)
    <3>1. /\ Replace(c, l, With(l, p)) /\ user' = user
          /\ c \in CallSet /\ c.pc = "adding" /\ c.list = l /\ c.place = p /\ c.tool = "breakpoint"
      BY <1>0, <1>2, <2>3 DEF Breakpoint
    <3> HIDE DEF c
    <3>2. p \notin ToSet(tracked[l])
      BY <2>3 DEF Has
    <3> QED
      BY <1>a, <2>1, <3>1, <3>2, Requests DEF ghostVars
  <2> QED
    BY <2>2, <2>3
<1>3. ASSUME NEW l \in Lists, NEW p \in Places, RunTo(l, p) PROVE ListInv'
  <2> DEFINE c == [Local("armed", "continue", l, p) EXCEPT !.temp = Temporary(l, p)]
             a == [c EXCEPT !.pc = "adding"]
  <2>1. /\ call.pc = "idle" /\ session /\ UNCHANGED <<user, leftover>>
        /\ UNCHANGED <<session, tracked, adapterVars, unsure>>
    BY <1>3 DEF RunTo, Enter
  <2>2. /\ c \in CallSet /\ c.pc = "armed" /\ c.temp = ~Has(l, p)
        /\ a \in CallSet /\ a.pc = "adding" /\ a.list = l /\ a.place = p
        /\ a.tool = "continue" /\ a.temp = ~Has(l, p)
    BY DEF Local, CallSet, Temporary, Has
  <2>3. IF Has(l, p) THEN call' = c /\ UNCHANGED requestVars ELSE Replace(a, l, With(l, p))
    BY <1>3 DEF RunTo
  <2> HIDE DEF c, a
  <2>4. CASE Has(l, p)
    <3>1. \A m \in Lists : Mine(m) = {} /\ Mine(m)' = {} /\ user[m] \subseteq ToSet(tracked[m])
      BY <2>1, <2>2, <2>3, <2>4 DEF Mine, ListInv, Accounted
    <3> QED
      BY <1>0, <2>1, <2>2, <2>3, <2>4, <3>1, MovesList DEF listVars, Pending
  <2>5. CASE ~Has(l, p)
    <3>1. p \notin ToSet(tracked[l]) /\ Replace(a, l, With(l, p))
      BY <2>3, <2>5 DEF Has
    <3> QED
      BY <1>a, <2>1, <2>2, <2>5, <3>1, Requests DEF ghostVars
  <2> QED
    BY <2>4, <2>5
<1>4. ASSUME NEW l \in Lists, NEW p \in Places, ClearPlace(l, p) PROVE ListInv'
  <2> DEFINE c == Local("clearing", "clear", l, p)
  <2>1. /\ call.pc = "idle" /\ session /\ Replace(c, l, Without(l, p))
        /\ UNCHANGED <<session, tracked, adapterVars, ghostVars>>
    BY <1>4 DEF ClearPlace, Enter, ghostVars
  <2>2. c \in CallSet /\ c.pc = "clearing"
    BY <1>0
  <2>3. Without(l, p) \in Seq(Places) /\ ToSet(Without(l, p)) \subseteq ToSet(tracked[l])
    BY <1>0, Deletion DEF Without
  <2> HIDE DEF c
  <2> QED
    BY <2>1, <2>2, <2>3, Requests
<1>5. ASSUME NEW f \in Files, ClearFile(f) PROVE ListInv'
  <2> DEFINE c == Local("clearing", "clear", f, NoPlace)
  <2>1. /\ call.pc = "idle" /\ session /\ Replace(c, f, <<>>) /\ f \in Lists
        /\ UNCHANGED <<session, tracked, adapterVars, ghostVars>>
    BY <1>5 DEF ClearFile, Enter, ghostVars, Lists
  <2>2. c \in CallSet /\ c.pc = "clearing"
    BY <1>0, <2>1
  <2> HIDE DEF c
  <2> QED
    BY <2>1, <2>2, Nothing, Requests
<1>6. CASE ClearAll
  <2>1. /\ call.pc = "idle" /\ UNCHANGED listVars /\ UNCHANGED <<user, leftover>>
        /\ call' = [Local("clearAll", "clearAll", Functions, NoPlace)
                      EXCEPT !.todo = {f \in Files : tracked[f] # <<>>}]
    BY <1>6 DEF ClearAll, Enter, listVars
  <2>2. call' \in CallSet /\ call'.pc = "clearAll"
    BY <2>1 DEF Local, CallSet, Lists
  <2>3. \A m \in Lists : Mine(m) = {} /\ Mine(m)' = {} /\ user[m] \subseteq ToSet(tracked[m])
    BY <2>1, <2>2 DEF Mine, ListInv, Accounted
  <2> QED
    BY <1>0, <2>1, <2>2, <2>3, MovesList DEF Pending
<1>7. CASE ClearNext
  <2>1. call.pc = "clearAll" /\ UNCHANGED <<session, tracked, adapterVars, ghostVars>>
    BY <1>7 DEF ClearNext
  <2>2. PICK l \in IF call.todo = {} THEN {Functions} ELSE call.todo :
          Replace([At("clearing") EXCEPT !.list = l, !.todo = @ \ {l}], l, <<>>)
    BY <1>7 DEF ClearNext
  <2>3. l \in Lists
    BY <1>0 DEF CallSet, Lists
  <2> DEFINE c == [At("clearing") EXCEPT !.list = l, !.todo = @ \ {l}]
  <2>4. c \in CallSet /\ c.pc = "clearing" /\ Replace(c, l, <<>>)
    <3>1. call \in CallSet
      BY <1>0
    <3>2. c \in CallSet /\ c.pc = "clearing"
      BY <2>3, <3>1 DEF At, CallSet
    <3> QED
      BY <2>2, <3>2
  <2>5. session
    BY <2>1 DEF ListInv, Inv, SendInv
  <2> HIDE DEF c
  <2> QED
    BY <2>1, <2>3, <2>4, <2>5, Nothing, Requests
<1> QED
  BY <1>1, <1>2, <1>3, <1>4, <1>5, <1>6, <1>7 DEF Begin

LEMMA FinishList == ASSUME ListInv, Inv', Finish PROVE ListInv'
<1>0. /\ call \in CallSet /\ call.list \in Lists /\ call.place \in Places \union {NoPlace}
      /\ tracked \in [Lists -> Seq(Places)]
      /\ user \in [Lists -> SUBSET Places] /\ leftover \in [Lists -> SUBSET Places]
  BY DEF ListInv, TypeOK, CallType, CallSet, GhostType
<1>1. /\ Idle \in CallSet /\ Idle.pc = "idle"
      /\ \A pc \in {"starting", "armed", "unverified", "clearAll"} :
            /\ At(pc) \in CallSet /\ At(pc).pc = pc /\ At(pc).list = call.list
            /\ At(pc).place = call.place /\ At(pc).temp = call.temp /\ At(pc).tool = call.tool
  <2>1. Idle \in CallSet /\ Idle.pc = "idle"
    BY DEF Idle, Local, CallSet, Lists
  <2> QED
    BY <1>0, <2>1 DEF At, CallSet
<1>2. CASE Added
  <2>0. PICK l \in Lists : l = call.list
    BY <1>0
  <2> DEFINE p == call.place
             keep == answer = "kept" \/ call.tool = "debug"
             giveIn == call.tool = "breakpoint" /\ answer = "empty"
  <2>1. /\ call.pc = "adding" /\ Acknowledged
        /\ user' = IF keep /\ call.tool # "continue"
                   THEN [user EXCEPT ![l] = @ \union {p}] ELSE user
        /\ leftover' = IF giveIn THEN [leftover EXCEPT ![l] = @ \union {p}] ELSE leftover
        /\ call' = CASE call.tool = "debug"           -> At("starting")
                     [] call.tool = "continue" /\ keep -> At("armed")
                     [] call.tool = "breakpoint" /\ (keep \/ giveIn) -> Idle
                     [] OTHER                          -> At("unverified")
    BY <1>2, <2>0 DEF Added, Left
  <2>2. /\ req.list = l /\ p \in Places /\ p \notin ToSet(tracked[l])
        /\ ToSet(req.places) = ToSet(tracked[l]) \union {p}
        /\ call.tool = "continue" => call.temp
        /\ call.tool \in {"debug", "breakpoint", "continue"}
    BY <2>0, <2>1 DEF ListInv, Asked
  <2>3. /\ user' \in [Lists -> SUBSET Places] /\ leftover' \in [Lists -> SUBSET Places]
        /\ call' \in {At("starting"), At("armed"), Idle, At("unverified")}
    BY <1>0, <2>1, <2>2
  <2>4. /\ call' \in CallSet /\ call'.pc \notin Pending
        /\ call'.pc = "starting" => call.tool = "debug" /\ call'.tool = call.tool
    BY <1>1, <2>1, <2>2, <2>3 DEF Pending
  <2>5. /\ TypeOK' /\ tracked' = [tracked EXCEPT ![l] = req.places]
    BY <2>1, <2>2, <2>3, <2>4, AcknowledgesTyped DEF Pending
  <2>6. \A m \in Lists : Mine(m) = {}
    BY <2>1 DEF Mine
  <2>7. ASSUME NEW m \in Lists, m # l
        PROVE  /\ tracked'[m] = tracked[m] /\ user'[m] = user[m] /\ leftover'[m] = leftover[m]
               /\ Mine(m)' = {}
    <3>1. call'.list = l \/ call'.pc = "idle"
      BY <1>1, <2>0, <2>3
    <3> QED
      BY <1>0, <2>1, <2>5, <2>7, <3>1 DEF Mine
  <2>8. /\ ToSet(tracked'[l]) = ToSet(tracked[l]) \union {p}
        /\ user'[l] \subseteq user[l] \union {p} /\ user[l] \subseteq user'[l]
        /\ leftover[l] \subseteq leftover'[l]
        /\ Mine(l)' \subseteq {p}
        /\ p \in user'[l] \union leftover'[l] \union Mine(l)'
        /\ Mine(l)' # {} => user'[l] = user[l]
    <3>1. tracked'[l] = req.places
      BY <1>0, <2>5
    <3>2. CASE call.tool = "debug"
      <4>1. /\ call' = At("starting") /\ user' = [user EXCEPT ![l] = @ \union {p}]
            /\ leftover' = leftover
        BY <2>1, <3>2
      <4>2. Mine(l)' = {}
        BY <1>1, <2>0, <4>1 DEF Mine
      <4> QED
        BY <1>0, <2>2, <3>1, <4>1, <4>2
    <3>3. CASE call.tool = "continue"
      <4>1. call' = At("armed") \/ call' = At("unverified")
        BY <2>1, <3>3
      <4>2. user' = user /\ leftover' = leftover
        BY <2>1, <3>3
      <4>3. Mine(l)' = {p}
        BY <1>1, <2>0, <2>2, <3>3, <4>1 DEF Mine
      <4> QED
        BY <1>0, <2>2, <3>1, <4>2, <4>3
    <3>4. CASE call.tool = "breakpoint"
      <4>1. CASE keep
        <5>1. call' = Idle /\ user' = [user EXCEPT ![l] = @ \union {p}]
          BY <2>1, <3>4, <4>1
        <5>2. Mine(l)' = {} /\ leftover[l] \subseteq leftover'[l]
          BY <1>0, <1>1, <2>0, <2>1, <5>1 DEF Mine
        <5> QED
          BY <1>0, <2>2, <3>1, <5>1, <5>2
      <4>2. CASE ~keep /\ giveIn
        <5>1. /\ call' = Idle /\ user' = user
              /\ leftover' = [leftover EXCEPT ![l] = @ \union {p}]
          BY <2>1, <3>4, <4>2
        <5>2. Mine(l)' = {}
          BY <1>1, <2>0, <5>1 DEF Mine
        <5> QED
          BY <1>0, <2>2, <3>1, <5>1, <5>2
      <4>3. CASE ~keep /\ ~giveIn
        <5>1. call' = At("unverified") /\ user' = user /\ leftover' = leftover
          BY <2>1, <3>4, <4>3
        <5>2. Mine(l)' = {p}
          BY <1>1, <2>0, <5>1 DEF Mine
        <5> QED
          BY <1>0, <2>2, <3>1, <5>1, <5>2
      <4> QED
        BY <4>1, <4>2, <4>3
    <3> QED
      BY <2>2, <3>2, <3>3, <3>4
  <2> HIDE DEF p, keep, giveIn
  <2>9. Accounted'
    <3>1. ASSUME NEW m \in Lists
          PROVE  /\ user'[m] \subseteq ToSet(tracked'[m])
                 /\ ToSet(tracked'[m]) \subseteq user'[m] \union leftover'[m] \union Mine(m)'
                 /\ Mine(m)' \intersect user'[m] = {} /\ Mine(m)' \subseteq Places
      <4>1. /\ user[m] \subseteq ToSet(tracked[m])
            /\ ToSet(tracked[m]) \subseteq user[m] \union leftover[m]
        BY <2>6 DEF ListInv, Accounted
      <4>2. CASE m # l
        BY <2>7, <4>1, <4>2
      <4>3. CASE m = l
        <5>1. p \notin user[l]
          BY <2>2, <4>1, <4>3
        <5> QED
          BY <2>2, <2>8, <4>1, <4>3, <5>1
      <4> QED
        BY <4>2, <4>3
    <3> QED
      BY <3>1 DEF Accounted
  <2>10. Asked'
    BY <2>4 DEF Asked, Pending
  <2> QED
    BY <2>5, <2>9, <2>10 DEF ListInv
<1>3. CASE Undone
  <2> DEFINE l == call.list
             p == call.place
  <2>1. /\ call.pc = "undoing" /\ Acknowledged /\ call' = Idle /\ user' = user
        /\ leftover' = [leftover EXCEPT ![l] = @ \ {p}]
        /\ req.list = l /\ ToSet(req.places) = ToSet(tracked[l]) \ {p}
    BY <1>3 DEF Undone, ListInv, Asked
  <2>2. leftover' \in [Lists -> SUBSET Places]
    BY <1>0, <2>1
  <2>3. TypeOK' /\ tracked' = [tracked EXCEPT ![l] = req.places]
    BY <1>0, <1>1, <2>1, <2>2, AcknowledgesTyped DEF Pending
  <2>4. \A m \in Lists : Mine(m) = (IF m = l THEN {p} ELSE {}) /\ Mine(m)' = {}
    BY <1>1, <2>1 DEF Mine
  <2>5. Accounted'
    <3>1. ASSUME NEW m \in Lists
          PROVE  /\ user[m] \subseteq ToSet(tracked'[m])
                 /\ ToSet(tracked'[m]) \subseteq user[m] \union leftover'[m]
      <4>1. /\ user[m] \subseteq ToSet(tracked[m]) /\ Mine(m) \intersect user[m] = {}
            /\ ToSet(tracked[m]) \subseteq user[m] \union leftover[m] \union Mine(m)
        BY DEF ListInv, Accounted
      <4>2. CASE m = l
        <5>1. tracked'[l] = req.places /\ leftover'[l] = leftover[l] \ {p}
          BY <1>0, <2>1, <2>3
        <5> QED
          BY <2>1, <2>4, <4>1, <4>2, <5>1
      <4>3. CASE m # l
        <5>1. tracked'[m] = tracked[m] /\ leftover'[m] = leftover[m]
          BY <1>0, <2>1, <2>3, <4>3
        <5> QED
          BY <2>4, <4>1, <4>3, <5>1
      <4> QED
        BY <4>2, <4>3
    <3> QED
      BY <2>1, <2>4, <3>1 DEF Accounted
  <2>6. Asked'
    BY <1>1, <2>1 DEF Asked
  <2> QED
    BY <2>3, <2>5, <2>6 DEF ListInv
<1>4. CASE Cleared
  <2> DEFINE l == req.list
  <2>1. /\ call.pc = "clearing" /\ Acknowledged /\ call' \in {At("clearAll"), Idle}
        /\ user' = [user EXCEPT ![l] = @ \intersect ToSet(req.places)]
        /\ leftover' = [leftover EXCEPT ![l] = @ \intersect ToSet(req.places)]
        /\ ToSet(req.places) \subseteq ToSet(tracked[l])
    BY <1>4 DEF Cleared, ListInv, Asked
  <2>2. user' \in [Lists -> SUBSET Places] /\ leftover' \in [Lists -> SUBSET Places]
    BY <1>0, <2>1
  <2>3. call' \in CallSet /\ call'.pc \in {"clearAll", "idle"}
    BY <1>1, <2>1
  <2>4. TypeOK' /\ tracked' = [tracked EXCEPT ![l] = req.places] /\ l \in Lists
    BY <2>1, <2>2, <2>3, AcknowledgesTyped DEF Pending
  <2>5. \A m \in Lists : Mine(m) = {} /\ Mine(m)' = {}
    BY <2>1, <2>3 DEF Mine
  <2> HIDE DEF l
  <2>6. Accounted'
    <3>1. ASSUME NEW m \in Lists
          PROVE  /\ user'[m] \subseteq ToSet(tracked'[m])
                 /\ ToSet(tracked'[m]) \subseteq user'[m] \union leftover'[m]
      <4>1. /\ user[m] \subseteq ToSet(tracked[m])
            /\ ToSet(tracked[m]) \subseteq user[m] \union leftover[m]
        BY <2>5 DEF ListInv, Accounted
      <4>2. CASE m = l
        <5>1. /\ tracked'[l] = req.places
              /\ user'[l] = user[l] \intersect ToSet(req.places)
              /\ leftover'[l] = leftover[l] \intersect ToSet(req.places)
          BY <1>0, <2>1, <2>4
        <5> QED
          BY <2>1, <4>1, <4>2, <5>1
      <4>3. CASE m # l
        <5>1. tracked'[m] = tracked[m] /\ user'[m] = user[m] /\ leftover'[m] = leftover[m]
          BY <1>0, <2>1, <2>4, <4>3
        <5> QED
          BY <4>1, <5>1
      <4> QED
        BY <4>2, <4>3
    <3> QED
      BY <2>5, <3>1 DEF Accounted
  <2>7. Asked'
    BY <2>3 DEF Asked
  <2> QED
    BY <2>4, <2>6, <2>7 DEF ListInv
<1>5. ASSUME Fail, answer \notin Statuses, unsure' \subseteq Lists PROVE ListInv'
  <2>1. /\ req # NoRequest /\ call' = Idle /\ req' = NoRequest /\ answer' = "none"
        /\ UNCHANGED <<sent, wire, adapter, up>>
    BY <1>5 DEF Fail, adapterVars
  <2>2. RequestType'
    BY <2>1 DEF ListInv, TypeOK, RequestType, Request
  <2>3. CallType' /\ Asked' /\ \A m \in Lists : Mine(m)' = {}
    BY <1>1, <2>1 DEF CallType, CallSet, Asked, Mine
  <2>4. CASE call.tool = "debug"
    <3>1. /\ session' = FALSE /\ tracked' = [l \in Lists |-> <<>>]
          /\ user' = [l \in Lists |-> {}] /\ leftover' = [l \in Lists |-> {}]
      BY <1>5, <2>4 DEF Fail, EndSession
    <3>2. TypeOK'
      BY <1>5, <2>1, <2>2, <2>3, <3>1, Nothing DEF ListInv, TypeOK, GhostType
    <3>3. Accounted'
      BY <2>3, <3>1, Nothing DEF Accounted
    <3> QED
      BY <2>3, <3>2, <3>3 DEF ListInv
  <2>5. CASE call.tool # "debug"
    <3>1. /\ tracked' = tracked /\ UNCHANGED <<session, user>>
          /\ leftover' = IF call.pc = "undoing"
                         THEN [leftover EXCEPT ![call.list] = @ \union {call.place}] ELSE leftover
      BY <1>5, <2>5 DEF Fail, Committed, Left
    <3>2. call.pc \in Pending /\ call.list \in Lists
      BY <1>0, <2>1 DEF ListInv, Inv, SendInv
    <3>3. \A m \in Lists : leftover'[m] = leftover[m] \union Mine(m)
      BY <1>0, <3>1, <3>2 DEF Mine, Pending
    <3>4. leftover' \in [Lists -> SUBSET Places]
      <4>1. call.pc = "undoing" => call.place \in Places
        BY <3>2 DEF ListInv, Accounted, Mine
      <4> QED
        BY <1>0, <3>1, <4>1
    <3>5. TypeOK'
      BY <1>5, <2>1, <2>2, <2>3, <3>1, <3>4 DEF ListInv, TypeOK, GhostType
    <3>6. Accounted'
      BY <2>3, <3>1, <3>3 DEF ListInv, Accounted
    <3> QED
      BY <2>3, <3>5, <3>6 DEF ListInv
  <2> QED
    BY <2>4, <2>5
<1>6. unsure \subseteq Lists /\ (req # NoRequest => req.list \in Lists)
  BY DEF ListInv, TypeOK, GhostType, RequestType, Request
<1>7. CASE Refused \/ WaitFails \/ GiveUp
  <2>1. Fail /\ answer \notin Statuses /\ unsure' \subseteq unsure \union {req.list}
    BY <1>7 DEF Refused, WaitFails, GiveUp, Statuses
  <2>2. unsure' \subseteq Lists
    BY <1>6, <2>1 DEF Fail
  <2> QED
    BY <1>5, <2>1, <2>2
<1> QED
  BY <1>2, <1>3, <1>4, <1>7 DEF Finish

LEMMA ProceedList ==
    ASSUME ListInv, Inv',
           Started \/ StartFails \/ Undo \/ Continue \/ Halted \/ Terminated \/ CleanUp
               \/ Cancel \/ ClientEnded
    PROVE  ListInv'
<1>0. /\ call \in CallSet /\ call.list \in Lists
      /\ user \in [Lists -> SUBSET Places] /\ leftover \in [Lists -> SUBSET Places]
      /\ \A l \in Lists : /\ user[l] \subseteq ToSet(tracked[l])
                          /\ Mine(l) \intersect user[l] = {} /\ Mine(l) \subseteq Places
  BY DEF ListInv, TypeOK, CallType, CallSet, GhostType, Accounted
<1>1. /\ Idle \in CallSet /\ Idle.pc = "idle"
      /\ \A pc \in {"running", "halted"} :
            /\ At(pc) \in CallSet /\ At(pc).pc = pc /\ At(pc).list = call.list
            /\ At(pc).place = call.place /\ At(pc).temp = call.temp
  <2>1. Idle \in CallSet /\ Idle.pc = "idle"
    BY DEF Idle, Local, CallSet, Lists
  <2> QED
    BY <1>0, <2>1 DEF At, CallSet
<1>2. ASSUME UNCHANGED requestVars PROVE RequestType'
  BY <1>2 DEF ListInv, TypeOK, RequestType, requestVars, Request
\* Steps that keep the lists and what is the call's own.
<1>3. ASSUME UNCHANGED listVars, UNCHANGED <<user, leftover>>, call' \in CallSet,
             \A l \in Lists : Mine(l)' = Mine(l),
             \/ call'.pc \notin Pending \union {"starting"}
             \/ \E b \in BOOLEAN : call' = [call EXCEPT !.cancelled = b]
      PROVE  ListInv'
  BY <1>0, <1>3, MovesList
<1>4. CASE Started
  <2>1. call.pc = "starting" /\ call' = Idle /\ UNCHANGED listVars /\ UNCHANGED <<user, leftover>>
    BY <1>4 DEF Started, listVars, ghostVars
  <2>2. \A l \in Lists : Mine(l)' = Mine(l)
    BY <1>1, <2>1 DEF Mine
  <2> QED
    BY <1>1, <1>3, <2>1, <2>2 DEF Pending
<1>5. CASE StartFails
  <2>1. call' = Idle /\ EndSession /\ UNCHANGED requestVars /\ UNCHANGED <<adapterVars, unsure>>
        /\ call.pc = "starting"
    BY <1>5 DEF StartFails
  <2>2. Idle # At("halted") /\ Idle # call
    BY <1>1, <2>1
  <2> QED
    BY <1>2, <2>1, <2>2, EndsList
<1>6. CASE Undo
  <2>1. call.pc = "unverified" /\ TakeBack
    BY <1>6 DEF Undo
  <2> QED
    BY <2>1, TakesBackList
<1>7. CASE Continue
  <2>1. /\ call.pc = "armed" /\ call' = (IF up THEN At("running") ELSE Idle)
        /\ UNCHANGED listVars /\ user' = user
        /\ leftover' = IF ~up /\ call.temp
                       THEN [leftover EXCEPT ![call.list] = @ \union {call.place}] ELSE leftover
    BY <1>7 DEF Continue, listVars, Left
  <2>2. \A l \in Lists : Mine(l) = (IF l = call.list /\ call.temp THEN {call.place} ELSE {})
    BY <2>1 DEF Mine
  <2>3. CASE up
    <3>1. \A l \in Lists : Mine(l)' = Mine(l)
      BY <1>1, <2>1, <2>2, <2>3 DEF Mine
    <3>2. call' = At("running") /\ leftover' = leftover
      BY <2>1, <2>3
    <3> QED
      BY <1>1, <1>3, <2>1, <3>1, <3>2 DEF Pending
  <2>4. CASE ~up
    <3>1. call' = Idle /\ \A l \in Lists : Mine(l)' = {}
      BY <1>1, <2>1, <2>4 DEF Mine
    <3>2. \A l \in Lists : leftover'[l] = leftover[l] \union Mine(l)
      BY <1>0, <2>1, <2>2, <2>4
    <3>3. leftover' \in [Lists -> SUBSET Places]
      <4>1. call.temp => call.place \in Places
        BY <1>0, <2>2
      <4> QED
        BY <1>0, <2>1, <4>1
    <3> QED
      BY <1>0, <1>1, <2>1, <3>1, <3>2, <3>3, MovesList DEF Pending
  <2> QED
    BY <2>3, <2>4
<1>8. CASE Halted
  <2>1. /\ call.pc = "running" /\ call' = At("halted")
        /\ UNCHANGED listVars /\ UNCHANGED <<user, leftover>>
    BY <1>8 DEF Halted, listVars, ghostVars
  <2>2. \A l \in Lists : Mine(l)' = Mine(l)
    BY <1>1, <2>1 DEF Mine
  <2> QED
    BY <1>1, <1>3, <2>1, <2>2 DEF Pending
<1>9. CASE Terminated
  <2>1. /\ call.pc = "running" /\ call' = At("halted") /\ EndSession
        /\ UNCHANGED requestVars /\ UNCHANGED <<adapterVars, unsure>>
    BY <1>9 DEF Terminated
  <2>2. At("halted") # call
    BY <1>1, <2>1
  <2> QED
    BY <1>2, <2>1, <2>2, EndsList
<1>10. CASE CleanUp
  <2>1. call.pc = "halted"
    BY <1>10 DEF CleanUp
  <2>2. CASE call.temp
    BY <1>10, <2>1, <2>2, TakesBackList DEF CleanUp, CleanUpNeeded
  <2>3. CASE ~call.temp
    <3>1. call' = Idle /\ UNCHANGED listVars /\ UNCHANGED <<user, leftover>>
      BY <1>10, <2>3 DEF CleanUp, CleanUpNeeded, listVars, ghostVars
    <3>2. \A l \in Lists : Mine(l)' = Mine(l)
      BY <1>1, <2>1, <2>3, <3>1 DEF Mine
    <3> QED
      BY <1>1, <1>3, <3>1, <3>2 DEF Pending
  <2> QED
    BY <2>2, <2>3
<1>11. CASE Cancel
  <2>1. /\ call' = [call EXCEPT !.cancelled = TRUE]
        /\ UNCHANGED listVars /\ UNCHANGED <<user, leftover>>
    BY <1>11 DEF Cancel, listVars, ghostVars
  <2>2. /\ call' \in CallSet /\ call'.pc = call.pc /\ call'.list = call.list
        /\ call'.place = call.place /\ call'.temp = call.temp
    BY <1>0, <2>1 DEF CallSet
  <2>3. \A l \in Lists : Mine(l)' = Mine(l)
    BY <2>2 DEF Mine
  <2> QED
    BY <1>3, <2>1, <2>2, <2>3
<1>12. CASE ClientEnded
  <2>1. /\ call.pc = "idle" /\ call' = call /\ EndSession
        /\ UNCHANGED requestVars /\ UNCHANGED <<adapterVars, unsure>>
    BY <1>12 DEF ClientEnded
  <2>2. At("halted") # call
    BY <1>1, <2>1
  <2> QED
    BY <1>2, <2>1, <2>2, EndsList
<1> QED
  BY <1>4, <1>5, <1>6, <1>7, <1>8, <1>9, <1>10, <1>11, <1>12

LEMMA ServeList == ASSUME ListInv, Inv', Serve PROVE ListInv'
<1>1. PICK s \in Statuses \union {"refused"} :
        /\ wire # <<>>
        /\ adapter' = IF s = "refused" THEN adapter
                      ELSE [adapter EXCEPT ![Head(wire).list] = Head(wire).places]
        /\ answer' = IF Head(wire).id = req.id THEN s ELSE answer
        /\ wire' = Tail(wire)
        /\ UNCHANGED <<session, tracked, call, req, sent, up, unsure, user, leftover>>
  BY DEF Serve, Awaited, ghostVars
<1>2. /\ wire \in Seq(Request) /\ req \in Request \union {NoRequest}
      /\ answer # "none" => req # NoRequest
      /\ answer \in Statuses \union {"refused", "none"} /\ sent \in 0..MaxRequests
  BY DEF ListInv, TypeOK, RequestType
<1>3. Head(wire) \in Request /\ Tail(wire) \in Seq(Request)
  BY <1>1, <1>2, HeadTailProperties, EmptySeq
<1>4. Head(wire).id # 0 /\ Head(wire).list \in Lists /\ Head(wire).places \in Seq(Places)
  BY <1>3 DEF Request
<1>5. RequestType'
  <2>1. answer' # "none" => req # NoRequest
    BY <1>1, <1>2, <1>4 DEF NoRequest
  <2> QED
    BY <1>1, <1>2, <1>3, <2>1 DEF RequestType, Request, Statuses
<1>6. adapter' \in [Lists -> Seq(Places)]
  BY <1>1, <1>4 DEF ListInv, TypeOK
<1>7. TypeOK'
  BY <1>1, <1>5, <1>6 DEF ListInv, TypeOK, CallType, GhostType
<1>8. Accounted' /\ Asked'
  BY <1>1 DEF ListInv, Accounted, Asked, Mine
<1> QED
  BY <1>7, <1>8 DEF ListInv

LEMMA ListStep == ListInv /\ [Next]_vars => ListInv'
<1> SUFFICES ASSUME ListInv, [Next]_vars PROVE ListInv'
  OBVIOUS
<1>1. Inv'
  BY Step DEF ListInv
<1>2. CASE AdapterExits
  <2>1. up' = FALSE /\ UNCHANGED <<session, tracked, call, requestVars, adapter, ghostVars>>
    BY <1>2 DEF AdapterExits
  <2>2. CallType' /\ GhostType' /\ Accounted' /\ Asked'
    BY <2>1 DEF ListInv, TypeOK, CallType, GhostType, Accounted, Asked, Mine, requestVars, ghostVars
  <2>3. TypeOK'
    BY <2>1, <2>2, StillTyped DEF ListInv, TypeOK
  <2> QED
    BY <1>1, <2>2, <2>3 DEF ListInv
<1>3. CASE UNCHANGED vars
  <2>1. /\ UNCHANGED <<session, tracked, call, up, adapter, ghostVars>> /\ UNCHANGED requestVars
    BY <1>3 DEF vars, adapterVars
  <2>2. CallType' /\ GhostType' /\ Accounted' /\ Asked'
    BY <2>1 DEF ListInv, TypeOK, CallType, GhostType, Accounted, Asked, Mine, requestVars, ghostVars
  <2>3. TypeOK'
    BY <2>1, <2>2, StillTyped DEF ListInv, TypeOK
  <2> QED
    BY <1>1, <2>2, <2>3 DEF ListInv
<1> QED
  BY <1>1, <1>2, <1>3, BeginList, FinishList, ProceedList, ServeList DEF Next, Proceed

------------------------------------------------------------------------------
(* The theorems.                                                            *)

LEMMA Invariance == Spec => []Inv
BY Start, Step, PTL DEF Spec

\* What the session tracks is what the adapter has, whatever tools were called, refused,
\* or cancelled, but for lists whose last replacement somebody gave up on.
THEOREM TracksAdapter == Spec => []ListsAgree
<1>1. Inv => ListsAgree
  BY DEF Inv, AgreeInv, Accepted, ListsAgree
<1> QED
  BY <1>1, Invariance, PTL

\* No path sends a replacement when the session has no client.
THEOREM SendsWithinSession == Spec => []NoSendWithoutSession
<1>1. Inv => NoSendWithoutSession
  BY DEF Inv, SendInv, NoSendWithoutSession
<1> QED
  BY <1>1, Invariance, PTL

LEMMA ListInvariance == Spec => []ListInv
BY ListStart, ListStep, PTL DEF Spec

\* Every list is a list of places, for the session, the adapter and the requests between.
THEOREM TypeCorrect == Spec => []TypeOK
<1>1. ListInv => TypeOK
  BY DEF ListInv
<1> QED
  BY <1>1, ListInvariance, PTL

\* Neither run-to-cursor nor a failed or cancelled call drops a breakpoint the user has set.
THEOREM UserKeepsBreakpoints == Spec => []KeepsBreakpoints
<1>1. ListInv => KeepsBreakpoints
  BY DEF ListInv, Accounted, KeepsBreakpoints
<1> QED
  BY <1>1, ListInvariance, PTL

\* What a tool sets for itself is gone when it returns, unless taking it back failed or
\* the code does not try: after an empty answer and after a continue it could not write.
THEOREM ToolsCleanUp == Spec => []NothingLeftOver
<1>1. ListInv => NothingLeftOver
  BY DEF ListInv, Accounted, Mine, NothingLeftOver
<1> QED
  BY <1>1, ListInvariance, PTL
==============================================================================

