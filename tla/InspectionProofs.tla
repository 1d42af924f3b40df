--------------------------- MODULE InspectionProofs ---------------------------
(***************************************************************************)
(* Theorems about Inspection, for any budgets, answers and invalidations:  *)
(* the types, that a call asks for no more than its budget allows, and     *)
(* which frame evaluate uses.                                              *)
(***************************************************************************)
EXTENDS Inspection, SequenceLemmas, FiniteSetTheorems

------------------------------------------------------------------------------
(* The expansion: what its steps do to the work and to the counts.          *)

Entry == [kind : {"registers", "scope", "variable", "leave", "more"},
          name : Seq(Nat), ref : Nat, depth : Nat]

Fields == {"work", "asking", "path", "nodes", "requests", "truncated", "text", "size"}

Expanding(x) ==
    /\ DOMAIN x = Fields
    /\ x.work \in Seq(Entry)
    /\ x.asking \in Entry \union {NoItem}
    /\ x.nodes \in 0..MaxNodes /\ x.requests \in 0..MaxRequests

\* y is x with more text, or with its work cut short.
Keeps(x, y) ==
    /\ Expanding(y)
    /\ y.asking = x.asking /\ y.nodes = x.nodes /\ y.requests = x.requests

LEMMA PutKeeps ==
    ASSUME NEW x, Expanding(x), NEW line
    PROVE  Keeps(x, Put(x, line))
  BY DEF Keeps, Expanding, Put, Fields

LEMMA TruncateKeeps ==
    ASSUME NEW x, Expanding(x)
    PROVE  Keeps(x, Truncate(x))
<1> DEFINE marked == IF x.size < MaxOutput THEN Put(x, Line("marker", <<>>)) ELSE x
<1>1. Keeps(x, marked)
  BY PutKeeps DEF Keeps
<1>2. <<>> \in Seq(Entry)
  BY EmptySeq
<1>3. Truncate(x) = [marked EXCEPT !.truncated = TRUE, !.work = <<>>]
  BY DEF Truncate, AfterTruncation
<1> HIDE DEF marked
<1> QED
  BY <1>1, <1>2, <1>3 DEF Keeps, Expanding, Fields

LEMMA WriteKeeps ==
    ASSUME NEW x, Expanding(x), NEW line
    PROVE  Keeps(x, Write(x, line))
<1>1. Keeps(x, Cut(x, line))
  BY DEF Keeps, Expanding, Cut, Fields
<1>2. Keeps(x, Truncate(Cut(x, line)))
  BY <1>1, TruncateKeeps DEF Keeps
<1>3. Write(x, line) \in {Truncate(x), Truncate(Cut(x, line)), Put(x, line)}
  BY DEF Write
<1> QED
  BY <1>2, <1>3, PutKeeps, TruncateKeeps

\* A request is asked for only within the budget.
Asks(x, y) ==
    /\ Expanding(y)
    /\ y.requests = x.requests + (IF y.asking = NoItem THEN 0 ELSE 1)

LEMMA TakeAsks ==
    ASSUME NEW x, Expanding(x), x.asking = NoItem, NEW item \in Entry
    PROVE  Asks(x, TakeRequest(x, item))
<1>1. CASE Exhausted(x)
  BY <1>1, TruncateKeeps DEF TakeRequest, Asks, Keeps, Expanding
<1>2. CASE ~Exhausted(x)
  <2>1. TakeRequest(x, item) = [x EXCEPT !.requests = x.requests + 1, !.asking = item]
    BY <1>2 DEF TakeRequest, Taken
  <2>2. x.requests + 1 \in 0..MaxRequests
    BY <1>2, BudgetAssumption DEF Exhausted, Expanding, BudgetAssumption
  <2>3. item # NoItem
    BY DEF Entry, NoItem, Item
  <2> QED
    BY <2>1, <2>2, <2>3 DEF Asks, Expanding, Fields
<1> QED
  BY <1>1, <1>2

LEMMA WriteVariableAsks ==
    ASSUME NEW x, Expanding(x), x.asking = NoItem, NEW v \in Entry
    PROVE  Asks(x, WriteVariable(x, v))
<1>1. CASE x.nodes >= MaxNodes
  BY <1>1, TruncateKeeps DEF WriteVariable, Asks, Keeps, Expanding
<1>2. CASE ~(x.nodes >= MaxNodes)
  <2> DEFINE counted == [x EXCEPT !.nodes = x.nodes + 1]
             written == Write(counted, Line("variable", v.name))
  <2>1. Expanding(counted) /\ counted.asking = NoItem /\ counted.requests = x.requests
    BY <1>2, BudgetAssumption DEF Expanding, BudgetAssumption, Fields
  <2>2. WriteVariable(x, v) = IF written.truncated \/ v.ref = 0 THEN written ELSE Descend(written, v)
    BY <1>2 DEF WriteVariable
  <2> HIDE DEF counted
  <2>3. Keeps(counted, written)
    BY <2>1, WriteKeeps
  <2> HIDE DEF written
  <2>4. Expanding(written) /\ written.asking = NoItem /\ written.requests = x.requests
    BY <2>1, <2>3 DEF Keeps
  <2>5. Asks(x, written)
    BY <2>4 DEF Asks, Expanding
  <2>6. Descend(written, v) \in {Truncate(written), Write(written, Line("cycle", v.name)),
                                 TakeRequest(written, v)}
    BY DEF Descend
  <2>7. \A y \in {Truncate(written), Write(written, Line("cycle", v.name))} : Asks(x, y)
    BY <2>4, TruncateKeeps, WriteKeeps DEF Keeps, Asks, Expanding
  <2>8. Asks(x, TakeRequest(written, v))
    BY <2>4, TakeAsks DEF Asks
  <2> QED
    BY <2>2, <2>5, <2>6, <2>7, <2>8
<1> QED
  BY <1>1, <1>2

LEMMA ExpandNextAsks ==
    ASSUME NEW x, Expanding(x), x.asking = NoItem, x.work # <<>>
    PROVE  Asks(x, ExpandNext(x))
<1> DEFINE item == Head(x.work)
           rest == [x EXCEPT !.work = Tail(x.work)]
<1>1. item \in Entry /\ Tail(x.work) \in Seq(Entry)
  BY HeadTailProperties DEF Expanding
<1>2. Expanding(rest) /\ rest.asking = NoItem /\ rest.requests = x.requests
  BY <1>1 DEF Expanding, Fields
<1>3. item.kind \in {"registers", "scope", "variable", "leave", "more"}
  BY <1>1 DEF Entry
<1>4. ExpandNext(x) \in {rest, WriteScope(rest, item), WriteVariable(rest, item),
                        LeavePath(rest, item), Truncate(rest)}
  BY <1>3 DEF ExpandNext
<1> HIDE DEF item, rest
<1>5. Asks(x, rest)
  BY <1>2 DEF Asks, Expanding
<1>6. Asks(x, WriteScope(rest, item))
  <2> DEFINE headed == Put(rest, Line("scope", item.name))
  <2>1. Keeps(rest, headed)
    BY <1>2, PutKeeps
  <2>2. WriteScope(rest, item) \in {headed, TakeRequest(headed, item)}
    BY DEF WriteScope
  <2> HIDE DEF headed
  <2>3. Expanding(headed) /\ headed.asking = NoItem /\ headed.requests = x.requests
    BY <1>2, <2>1 DEF Keeps
  <2>4. Asks(x, headed)
    BY <2>3 DEF Asks, Expanding
  <2>5. Asks(x, TakeRequest(headed, item))
    BY <1>1, <2>3, TakeAsks DEF Asks
  <2> QED
    BY <2>2, <2>4, <2>5
<1>7. Asks(x, WriteVariable(rest, item))
  BY <1>1, <1>2, WriteVariableAsks DEF Asks
<1>8. Asks(x, LeavePath(rest, item))
  BY <1>2 DEF LeavePath, Asks, Expanding, Fields
<1>9. Asks(x, Truncate(rest))
  BY <1>2, TruncateKeeps DEF Keeps, Asks, Expanding
<1> QED
  BY <1>4, <1>5, <1>6, <1>7, <1>8, <1>9

\* y is x with its request answered.
Resumes(x, y) == Expanding(y) /\ y.asking = NoItem /\ y.requests = x.requests

LEMMA UnansweredResumes ==
    ASSUME NEW x, Expanding(x)
    PROVE  Resumes(x, Unanswered(x))
<1> DEFINE done == [x EXCEPT !.asking = NoItem]
           line == Line("unable", x.asking.name)
<1>1. Expanding(done) /\ done.asking = NoItem /\ done.requests = x.requests
  BY DEF Expanding, Fields
<1>2. Unanswered(x) \in {Put(done, line), Write(done, line)}
  BY DEF Unanswered
<1> HIDE DEF done, line
<1> QED
  BY <1>1, <1>2, PutKeeps, WriteKeeps DEF Keeps, Resumes

LEMMA ListedEntries ==
    ASSUME NEW name \in Seq(Nat), NEW refs \in Seq(Nat), NEW depth \in Nat
    PROVE  Listed(name, refs, depth) \in Seq(Entry)
<1>1. Len(refs) \in Nat /\ \A i \in 1..Len(refs) : refs[i] \in Nat
  BY ElementOfSeq, LenProperties
<1>2. ASSUME NEW i \in 1..Len(refs)
      PROVE  Item("variable", Append(name, i), refs[i], depth) \in Entry
  <2>1. Append(name, i) \in Seq(Nat)
    BY <1>1, AppendProperties
  <2> QED
    BY <1>1, <2>1 DEF Item, Entry
<1> QED
  BY <1>1, <1>2, IsASeq DEF Listed

LEMMA AnsweredResumes ==
    ASSUME NEW x, Expanding(x), x.asking # NoItem, NEW refs \in Seq(Nat)
    PROVE  Resumes(x, Answered(x, refs))
<1> DEFINE item  == x.asking
           upTo  == IF Len(refs) < MaxChildren THEN Len(refs) ELSE MaxChildren
           first == SubSeq(refs, 1, upTo)
           more  == IF Len(refs) > Len(first) THEN <<Item("more", item.name, 0, 0)>> ELSE <<>>
           all   == Listed(item.name, refs, 0)
           some  == Listed(item.name, first, item.depth + 1)
           leave == <<Item("leave", item.name, item.ref, 0)>>
<1>1. item \in Entry /\ item.name \in Seq(Nat) /\ item.depth \in Nat /\ item.ref \in Nat
  BY DEF Expanding, Entry
<1>2. all \in Seq(Entry)
  BY <1>1, ListedEntries
<1>3. first \in Seq(Nat)
  <2>1. Len(refs) \in Nat /\ \A i \in 1..Len(refs) : refs[i] \in Nat
    BY ElementOfSeq, LenProperties
  <2>2. upTo \in Nat /\ upTo <= Len(refs)
    BY <2>1, BudgetAssumption DEF BudgetAssumption
  <2> HIDE DEF upTo
  <2> QED
    BY <2>1, <2>2, SubSeqProperties
<1> HIDE DEF first
<1>4. some \in Seq(Entry)
  <2>1. item.depth + 1 \in Nat
    BY <1>1
  <2> HIDE DEF item
  <2> QED
    BY <1>1, <1>3, <2>1, ListedEntries
<1>5. leave \in Seq(Entry) /\ more \in Seq(Entry)
  <2>1. Item("leave", item.name, item.ref, 0) \in Entry /\ Item("more", item.name, 0, 0) \in Entry
    BY <1>1 DEF Item, Entry
  <2> DEFINE left == Item("leave", item.name, item.ref, 0)
             rest == Item("more", item.name, 0, 0)
  <2>2. left \in Entry /\ rest \in Entry
    BY <2>1
  <2> HIDE DEF left, rest
  <2>3. <<left>> \in Seq(Entry) /\ <<rest>> \in Seq(Entry) /\ <<>> \in Seq(Entry)
    BY <2>2
  <2> QED
    BY <2>3 DEF left, rest
<1>6. x.work \in Seq(Entry)
  BY DEF Expanding
<1>7. all \o x.work \in Seq(Entry) /\ some \o more \o leave \o x.work \in Seq(Entry)
  <2> HIDE DEF all, some, more, leave
  <2>1. \A s, t \in Seq(Entry) : s \o t \in Seq(Entry)
    BY ConcatProperties
  <2> QED
    BY <1>2, <1>4, <1>5, <1>6, <2>1
<1>8. Answered(x, refs) \in
        {[x EXCEPT !.asking = NoItem, !.work = all \o x.work],
         [x EXCEPT !.asking = NoItem, !.path = x.path \union {item.ref},
                   !.work = some \o more \o leave \o x.work]}
  BY DEF Answered, Expanding, Fields, first
<1> HIDE DEF all, some, more, leave, item
<1> QED
  BY <1>7, <1>8 DEF Resumes, Expanding, Fields

------------------------------------------------------------------------------
(* The types, and the answer a call waits for.                              *)

Frames  == [kind : {"none", "explicit", "top"}, stop : Nat, inv : Nat]
Lists   == Seq(Nat) \union Seq([kind : {"registers", "scope"}, ref : Nat])
Answers == [type : {"answer"}, ok : BOOLEAN, refs : Lists, stop : Nat, inv : Nat]
Message == Answers \union [type : {"invalidated"}]

TypeInv ==
    /\ TypeOK
    /\ DOMAIN call = {"tool", "frame", "full", "stopped", "folded", "roots"}
    /\ call.frame \in Frames /\ lastFrame \in Frames
    /\ Expanding(out)
    /\ inbox \in Seq(Answers) /\ stream \in Seq(Message)
    /\ consumed \in [count : 0..folded, hidden : 0..folded]

\* The request of a call by where the call is, and what its answer may list.
Requested(p) ==
    CASE p = "evaluate" -> "evaluate"
      [] p = "execute"  -> "continue"
      [] p = "stack"    -> "stackTrace"
      [] p = "threads"  -> "threads"
      [] p = "scopes"   -> "scopes"
      [] p = "expand"   -> "variables"
      [] OTHER          -> "none"

Listable(p) ==
    CASE p = "evaluate" -> {<<0>>, <<1>>}
      [] p = "scopes"   -> ScopeReplies
      [] p = "expand"   -> Replies
      [] OTHER          -> Seq(Nat)

NoAnswer(s) == \A i \in 1..Len(s) : s[i].type # "answer"

\* An answer is to the request of the call and was given during it.
Answering(m) ==
    /\ m.refs \in IF m.ok THEN Listable(pc) ELSE {<<>>}
    /\ m.stop \in 1..stop /\ m.inv \in consumed.count..sent

\* A call has one request or one answer, and only while it waits.
OneAnswer ==
    /\ \A i, j \in 1..Len(stream) : stream[i].type = "answer" /\ stream[j].type = "answer" => i = j
    /\ inbox # <<>> => NoAnswer(stream)
    /\ request # "none" => request = Requested(pc) /\ inbox = <<>> /\ NoAnswer(stream)
    /\ \/ Waiting /\ pc # "stopping"
       \/ request = "none" /\ inbox = <<>> /\ NoAnswer(stream)

LinkInv ==
    /\ OneAnswer
    /\ \A i \in 1..Len(inbox) : Answering(inbox[i])
    /\ \A i \in 1..Len(stream) : stream[i].type = "answer" => Answering(stream[i])
    /\ Len(stream) = (sent - folded) + (IF NoAnswer(stream) THEN 0 ELSE 1)

Inv == TypeInv /\ LinkInv

\* A step after which the call has no answer, and asks for one or for none.
LEMMA Asking ==
    ASSUME inbox' = <<>>, NoAnswer(stream'), Len(stream') = sent' - folded',
           stream' \in Seq(Message),
           request' = "none" \/ (request' = Requested(pc') /\ Waiting')
    PROVE  LinkInv'
<1>1. Len(<<>>) = 0 /\ 1..0 = {}
  OBVIOUS
<1>2. request' # "none" => pc' # "stopping"
  BY DEF Requested
<1> QED
  BY <1>1, <1>2 DEF LinkInv, OneAnswer, NoAnswer

\* A step that is not the call's nor the read loop's.
LEMMA Beside ==
    ASSUME Inv, UNCHANGED <<pc, request, stream, inbox, consumed, sent, folded>>,
           out'.asking = out.asking, stop' \in Nat, stop' >= stop
    PROVE  LinkInv'
<1>1. \A m : Answering(m) => Answering(m)'
  BY DEF Answering, Inv, TypeInv, TypeOK
<1>2. Waiting' = Waiting
  BY DEF Waiting
<1> QED
  BY <1>1, <1>2 DEF Inv, LinkInv, OneAnswer

\* Taking the answer away.
LEMMA UnclaimedFacts ==
    ASSUME Inv
    PROVE  /\ Unclaimed(stream) \in Seq(Message) /\ NoAnswer(Unclaimed(stream))
           /\ Len(Unclaimed(stream)) = sent - folded
<1> DEFINE at == {i \in 1..Len(stream) : stream[i].type = "answer"}
<1>0. stream \in Seq(Message) /\ Len(stream) \in Nat /\ sent \in Nat /\ folded \in Nat
  BY InspectionAssumption, LenProperties DEF Inv, TypeInv, TypeOK, InspectionAssumption
<1>1. CASE at = {}
  BY <1>0, <1>1 DEF Unclaimed, NoAnswer, Inv, LinkInv
<1>2. CASE at # {}
  <2> DEFINE k == CHOOSE i \in at : TRUE
  <2>1. k \in 1..Len(stream) /\ stream[k].type = "answer"
    BY <1>2
  <2>2. Unclaimed(stream) = RemoveAt(stream, k)
    BY <1>2 DEF Unclaimed
  <2> HIDE DEF k, at
  <2>3. \A i \in 1..Len(stream) : i # k => stream[i].type # "answer"
    BY <2>1 DEF Inv, LinkInv, OneAnswer
  <2>4. Len(stream) = (sent - folded) + 1
    BY <2>1 DEF Inv, LinkInv, NoAnswer
  <2> DEFINE r == RemoveAt(stream, k)
  <2>5. /\ r \in Seq(Message) /\ Len(r) = Len(stream) - 1
        /\ \A j \in 1..(Len(stream) - 1) : r[j] = stream[IF j < k THEN j ELSE j + 1]
    BY <1>0, <2>1, RemoveAtFacts
  <2> HIDE DEF r
  <2>6. NoAnswer(r)
    BY <1>0, <2>1, <2>3, <2>5 DEF NoAnswer
  <2> QED
    BY <1>0, <2>2, <2>4, <2>5, <2>6 DEF r
<1> QED
  BY <1>1, <1>2

LEMMA BlankExpanding == Expanding(Blank) /\ \A n \in Nat, w \in Seq(Entry) : Expanding(Expansion(n, w))
<1>1. <<>> \in Seq(Entry) /\ 0 \in 0..MaxNodes /\ 0 \in 0..MaxRequests
  BY EmptySeq, BudgetAssumption DEF BudgetAssumption
<1>2. ASSUME NEW n \in Nat, NEW w \in Seq(Entry) PROVE Expanding(Expansion(n, w))
  BY <1>1 DEF Expanding, Expansion, Fields
<1> QED
  BY <1>1, <1>2 DEF Blank

LEMMA InvInit == Init => Inv
<1> SUFFICES ASSUME Init PROVE Inv
  OBVIOUS
<1>1. /\ Len(<<>>) = 0 /\ 1..0 = {} /\ <<>> \in Seq(Answers) /\ <<>> \in Seq(Message)
      /\ MaxStops \in Nat /\ MaxStops # 0 /\ MaxInvalidations \in Nat
  BY EmptySeq, InspectionAssumption DEF InspectionAssumption
<1>2. NoFrame \in Frames /\ Top(1, 0) \in Frames
  BY DEF NoFrame, Top, Frames
<1>3. Expanding(out)
  BY BlankExpanding DEF Init
<1>4. NoAnswer(stream)
  BY <1>1 DEF Init, NoAnswer
<1>5. LinkInv
  BY <1>1, <1>4 DEF Init, LinkInv, OneAnswer
<1>6. TypeOK
  <2>1. lastFrame.kind \in {"none", "explicit", "top"} /\ lastFrame.stop \in 0..1
    BY DEF Init, NoFrame, Top
  <2>2. Len(inbox) <= 1 /\ inbox = <<>>
    BY <1>1 DEF Init
  <2>3. 0 \in 0..MaxInvalidations /\ 0 \in 0..0 /\ 1 \in 1..MaxStops
    BY <1>1
  <2>4. out.nodes \in 0..MaxNodes /\ out.requests \in 0..MaxRequests
    BY <1>3 DEF Expanding
  <2> QED
    BY <2>1, <2>2, <2>3, <2>4 DEF Init, TypeOK
<1>7. /\ DOMAIN call = {"tool", "frame", "full", "stopped", "folded", "roots"}
      /\ call.frame \in Frames
  BY <1>2 DEF Init, NoCall
<1> QED
  BY <1>1, <1>2, <1>3, <1>5, <1>6, <1>7 DEF Init, Inv, TypeInv, NoFrame, Top

LEMMA IdleQuiet ==
    ASSUME Inv, ~Waiting \/ pc = "stopping"
    PROVE  request = "none" /\ inbox = <<>> /\ NoAnswer(stream) /\ Len(stream) = sent - folded
<1>1. request = "none" /\ inbox = <<>> /\ NoAnswer(stream)
  BY DEF Inv, LinkInv, OneAnswer
<1>2. Len(stream) = (sent - folded) + 0
  BY <1>1 DEF Inv, LinkInv
<1> QED
  BY <1>1, <1>2, InspectionAssumption DEF Inv, TypeInv, TypeOK, InspectionAssumption

\* What a step of a call has to show for the types.
LEMMA TypesKept ==
    ASSUME Inv, UNCHANGED <<lost, stop, sent, folded>>, inbox' = <<>>,
           target' \in {"running", "stopped"},
           pc' \in {"idle", "evaluate", "execute", "stopping", "stack", "threads", "scopes", "expand"},
           lastFrame'.kind \in {"none", "explicit", "top"}, lastFrame'.stop \in 0..stop,
           invalidated' \in BOOLEAN, cancelled' \in BOOLEAN, unawaited' \in Nat,
           out'.nodes \in 0..MaxNodes, out'.requests \in 0..MaxRequests,
           request' \in {"none", "evaluate", "continue", "stackTrace", "threads", "scopes", "variables"}
    PROVE  TypeOK'
<1>1. Len(inbox') <= 1
  BY DEF Inv, TypeInv
<1> QED
  BY <1>1 DEF Inv, TypeInv, TypeOK

\* A call of a tool.
LEMMA CallStep ==
    ASSUME Inv,
           \/ \E explicit \in BOOLEAN : Evaluate(explicit)
           \/ \E frame \in {NoFrame, Explicit} : Context(frame)
           \/ \E full \in BOOLEAN : Execute(full)
    PROVE  Inv'
<1> DEFINE Made(c) == /\ DOMAIN c = {"tool", "frame", "full", "stopped", "folded", "roots"}
                      /\ c.frame \in Frames
<1>0. NoFrame \in Frames /\ Explicit \in Frames /\ NoFrame.kind = "none" /\ NoFrame.stop = 0
  BY DEF NoFrame, Explicit, Frames
<1>1. ASSUME NEW tool, NEW frame \in Frames, NEW full PROVE Made(Call(tool, frame, full))
  BY <1>1 DEF Call, NoCall
<1>2. /\ pc = "idle" /\ Made(call') /\ lastFrame' \in Frames /\ lastFrame'.stop \in 0..stop
      /\ pc' \in {"idle", "evaluate", "stack", "execute"}
      /\ request' \in {"none", Requested(pc')} \/ request' = request
      /\ invalidated' \in BOOLEAN /\ consumed' \in [count : 0..folded, hidden : 0..folded]
      /\ unawaited' = 0 /\ cancelled' = FALSE
      /\ UNCHANGED <<lost, out, stream, inbox, target, stop, sent, folded>>
  <2>0. /\ lastFrame \in Frames /\ lastFrame.stop \in 0..stop /\ invalidated \in BOOLEAN
        /\ folded \in Nat /\ consumed \in [count : 0..folded, hidden : 0..folded] /\ stop \in Nat
    BY InspectionAssumption DEF Inv, TypeInv, TypeOK, InspectionAssumption
  <2>1. CASE \E explicit \in BOOLEAN : Evaluate(explicit)
    <3>1. PICK explicit \in BOOLEAN : Evaluate(explicit)
      BY <2>1
    <3>2. (IF explicit THEN Explicit ELSE lastFrame) \in Frames
      BY <1>0, <2>0
    <3>3. Made(call')
      <4>1. Made(NoCall)
        BY <1>0 DEF NoCall
      <4>2. CASE invalidated /\ ~explicit
        BY <3>1, <4>1, <4>2 DEF Evaluate, Begins
      <4>3. CASE ~(invalidated /\ ~explicit)
        <5>1. call' = Call("evaluate", IF explicit THEN Explicit ELSE lastFrame, FALSE)
          BY <3>1, <4>3 DEF Evaluate, Begins
        <5> HIDE DEF Made
        <5> QED
          BY <1>1, <3>2, <5>1
      <4> QED
        BY <4>2, <4>3
    <3>4. \/ pc' = "idle" /\ request' = request
          \/ pc' = "evaluate" /\ request' = "evaluate"
      <4>1. CASE invalidated /\ ~explicit
        BY <3>1, <4>1 DEF Evaluate, Begins
      <4>2. CASE ~(invalidated /\ ~explicit)
        BY <3>1, <4>2 DEF Evaluate, Begins, Ask
      <4> QED
        BY <4>1, <4>2
    <3>5. lastFrame' \in {NoFrame, lastFrame}
      BY <3>1 DEF Evaluate
    <3> QED
      <4> HIDE DEF Made
      <4>1. consumed' \in [count : 0..folded, hidden : 0..folded]
        BY <2>0, <3>1 DEF Evaluate
      <4>2. request' = request \/ request' = Requested(pc')
        BY <3>4 DEF Requested
      <4>3. lastFrame' \in Frames /\ lastFrame'.stop \in 0..stop
        BY <1>0, <2>0, <3>5
      <4> QED
        BY <3>1, <3>3, <3>4, <4>1, <4>2, <4>3 DEF Evaluate, Begins, Consume, expandVars, targetVars
  <2>2. CASE \E frame \in {NoFrame, Explicit} : Context(frame)
    <3>1. PICK frame \in {NoFrame, Explicit} : Context(frame)
      BY <2>2
    <3>2. Made(call')
      BY <1>0, <1>1, <3>1 DEF Context, Begins
    <3> HIDE DEF Made
    <3>3. request' = Requested(pc')
      BY <3>1 DEF Context, Begins, Ask, Requested
    <3> QED
      BY <2>0, <3>1, <3>2, <3>3 DEF Context, Begins, expandVars, sessionVars, targetVars
  <2>3. CASE \E full \in BOOLEAN : Execute(full)
    <3>1. PICK full \in BOOLEAN : Execute(full)
      BY <2>3
    <3>2. Made(call')
      BY <1>0, <1>1, <3>1 DEF Execute, Begins
    <3> HIDE DEF Made
    <3>3. request' = Requested(pc')
      BY <3>1 DEF Execute, Begins, Ask, Requested
    <3> QED
      BY <2>0, <3>1, <3>2, <3>3 DEF Execute, Begins, expandVars, sessionVars, targetVars
  <2> QED
    BY <2>1, <2>2, <2>3
<1> HIDE DEF Made
<1>3. request = "none" /\ inbox = <<>> /\ NoAnswer(stream) /\ Len(stream) = sent - folded
  <2>1. ~Waiting
    BY <1>2 DEF Waiting
  <2> QED
    BY <2>1, IdleQuiet
<1>4. LinkInv'
  <2>1. request' = "none" \/ (request' = Requested(pc') /\ Waiting')
    BY <1>2, <1>3 DEF Requested, Waiting
  <2> QED
    BY <1>2, <1>3, <2>1, Asking DEF Inv, TypeInv
<1>5. TypeOK'
  <2>1. request' \in {"none", "evaluate", "continue", "stackTrace"}
    BY <1>2, <1>3 DEF Requested
  <2> QED
    <3>1. inbox' = <<>> /\ lastFrame'.kind \in {"none", "explicit", "top"} /\ 0 \in Nat
      BY <1>2, <1>3 DEF Frames
    <3>2. out.nodes \in 0..MaxNodes /\ out.requests \in 0..MaxRequests
      BY DEF Inv, TypeInv, Expanding
    <3>3. target \in {"running", "stopped"}
      BY DEF Inv, TypeInv, TypeOK
    <3> QED
      BY <1>2, <2>1, <3>1, <3>2, <3>3, TypesKept
<1> QED
  BY <1>2, <1>4, <1>5 DEF Inv, TypeInv, Made, Expanding

LEMMA InboxFacts ==
    ASSUME Inv, inbox # <<>>
    PROVE  /\ request = "none" /\ NoAnswer(stream) /\ Len(stream) = sent - folded
           /\ inbox[1] \in Answers /\ Answering(inbox[1]) /\ Waiting /\ pc # "stopping"
           /\ \A i \in 1..Len(inbox) : inbox[i] = inbox[1]
<1>1. inbox \in Seq(Answers) /\ Len(inbox) <= 1
  BY DEF Inv, TypeInv, TypeOK
<1>2. Len(inbox) = 1
  <2>1. Len(inbox) \in Nat
    BY <1>1, LenProperties
  <2>2. Len(inbox) # 0
    BY <1>1, EmptySeq
  <2>3. Len(inbox) <= 1
    BY <1>1
  <2>4. \A n \in Nat : n <= 1 /\ n # 0 => n = 1
    OBVIOUS
  <2> QED
    BY <2>1, <2>2, <2>3, <2>4, Zenon
<1>3. inbox[1] \in Answers /\ Answering(inbox[1]) /\ \A i \in 1..Len(inbox) : inbox[i] = inbox[1]
  BY <1>1, <1>2, ElementOfSeq DEF Inv, LinkInv
<1>4. request = "none" /\ NoAnswer(stream) /\ Waiting /\ pc # "stopping"
  BY DEF Inv, LinkInv, OneAnswer
<1>5. Len(stream) = (sent - folded) + 0
  BY <1>4 DEF Inv, LinkInv
<1> QED
  BY <1>3, <1>4, <1>5, InspectionAssumption DEF Inv, TypeInv, TypeOK, InspectionAssumption

\* A step of a call that leaves no answer to wait for but the one it asks for.
LEMMA GoesOn ==
    ASSUME Inv, UNCHANGED <<lost, cancelled, stop, sent, folded, invalidated, consumed>>,
           inbox' = <<>>, NoAnswer(stream'), Len(stream') = sent - folded, stream' \in Seq(Message),
           pc' \in {"idle", "stopping", "stack", "threads", "scopes", "expand"},
           request' = "none" \/ (request' = Requested(pc') /\ Waiting'),
           DOMAIN call' = {"tool", "frame", "full", "stopped", "folded", "roots"},
           call'.frame \in Frames, lastFrame' \in Frames, lastFrame'.stop \in 0..stop,
           Expanding(out'), unawaited' \in Nat, target' \in {"running", "stopped"}
    PROVE  Inv'
<1>1. LinkInv'
  BY Asking
<1>2. request' \in {"none", "evaluate", "continue", "stackTrace", "threads", "scopes", "variables"}
  BY DEF Requested
<1>3. invalidated' \in BOOLEAN /\ cancelled' \in BOOLEAN
  BY DEF Inv, TypeInv, TypeOK
<1>4. TypeOK'
  BY <1>2, <1>3, TypesKept DEF Frames, Expanding
<1>5. inbox' \in Seq(Answers)
  BY EmptySeq
<1> QED
  BY <1>1, <1>4, <1>5 DEF Inv, TypeInv, Expanding

\* What the call's steps find.
LEMMA Found ==
    ASSUME Inv
    PROVE  /\ DOMAIN call = {"tool", "frame", "full", "stopped", "folded", "roots"}
           /\ call.frame \in Frames /\ lastFrame \in Frames /\ lastFrame.stop \in 0..stop
           /\ Expanding(out) /\ Expanding(Blank) /\ unawaited \in Nat /\ unawaited + 1 \in Nat
           /\ target \in {"running", "stopped"} /\ stream \in Seq(Message)
           /\ DOMAIN NoCall = {"tool", "frame", "full", "stopped", "folded", "roots"}
           /\ NoCall.frame \in Frames
  BY BlankExpanding DEF Inv, TypeInv, TypeOK, NoCall, NoFrame, Frames

LEMMA WaitFailsStep == ASSUME Inv, WaitFails PROVE Inv'
<1>1. /\ inbox' = <<>> /\ stream' = Unclaimed(stream) /\ unawaited' = unawaited + 1
      /\ target' \in {"running", target}
      /\ UNCHANGED <<lost, cancelled, stop, sent, folded, invalidated, consumed, lastFrame>>
      /\ pc' = "idle" /\ call' = NoCall /\ out' = Blank /\ request' = "none"
  BY DEF WaitFails, GiveUp, Ends, Return
<1> QED
  BY <1>1, Found, UnclaimedFacts, GoesOn

LEMMA ErrorTakenStep == ASSUME Inv, ErrorTaken PROVE Inv'
<1>1. PICK reply \in {inbox[i] : i \in 1..Len(inbox)} : Take(reply)
  BY DEF ErrorTaken
<1>2. /\ inbox # <<>> /\ inbox' = <<>>
      /\ UNCHANGED <<unawaited, cancelled, lost, stream, target, stop, sent, folded, consumed,
                     invalidated>>
  BY <1>1 DEF Take
<1>3. lastFrame' = lastFrame
  BY DEF ErrorTaken, StackFails, Ends
<1>4. \/ pc' = "threads" /\ request' = "threads" /\ UNCHANGED <<call, out>>
      \/ pc' = "idle" /\ call' = NoCall /\ out' = Blank /\ request' = "none"
  BY DEF ErrorTaken, StackFails, Ends, Return, Ask, expandVars
<1>5. request' = "none" \/ (request' = Requested(pc') /\ Waiting')
  BY <1>4 DEF Requested, Waiting
<1> QED
  BY <1>2, <1>3, <1>4, <1>5, Found, InboxFacts, GoesOn

LEMMA ResponseTakenStep == ASSUME Inv, ResponseTaken PROVE Inv'
<1>1. PICK reply \in {inbox[i] : i \in 1..Len(inbox)} : Take(reply)
  BY DEF ResponseTaken
<1>2. /\ inbox # <<>> /\ inbox' = <<>>
      /\ UNCHANGED <<unawaited, cancelled, lost, stream, target, stop, sent, folded, consumed,
                     invalidated>>
  BY <1>1 DEF Take
<1>3. /\ UNCHANGED <<call, lastFrame, out>>
      /\ \/ pc' = "stack" /\ request' = "stackTrace"
         \/ pc' = "stopping" /\ request' = request
  BY DEF ResponseTaken, ReportStop, Ask, expandVars
<1>4. request' = "none" \/ (request' = Requested(pc') /\ Waiting')
  BY <1>2, <1>3, InboxFacts DEF Requested, Waiting
<1> QED
  BY <1>2, <1>3, <1>4, Found, InboxFacts, GoesOn

LEMMA StopTakenStep == ASSUME Inv, StopTaken PROVE Inv'
<1>1. /\ call' = [call EXCEPT !.stopped = TRUE]
      /\ UNCHANGED <<unawaited, cancelled, lost, lastFrame, invalidated, out, stream, inbox, target,
                     stop, sent, folded, consumed>>
  BY DEF StopTaken, sessionVars, expandVars, ghostVars
<1>2. /\ DOMAIN call' = {"tool", "frame", "full", "stopped", "folded", "roots"}
      /\ call'.frame = call.frame
  BY <1>1, Found
<1>3. CASE pc = "stopping"
  <2>1. pc' = "stack" /\ request' = "stackTrace"
    BY <1>3 DEF StopTaken, ReportStop, Ask
  <2>2. request' = Requested(pc') /\ Waiting'
    BY <2>1 DEF Requested, Waiting
  <2> QED
    BY <1>1, <1>2, <1>3, <2>1, <2>2, Found, IdleQuiet, GoesOn
<1>4. CASE pc # "stopping"
  <2>1. UNCHANGED <<pc, request>>
    BY <1>4 DEF StopTaken
  <2>2. LinkInv'
    BY <1>1, <2>1, Beside, InspectionAssumption DEF Inv, TypeInv, TypeOK, InspectionAssumption
  <2> QED
    BY <1>1, <1>2, <2>1, <2>2 DEF Inv, TypeInv, TypeOK, Waiting, Expanding
<1> QED
  BY <1>3, <1>4

LEMMA StackTakenStep == ASSUME Inv, StackTaken PROVE Inv'
<1> DEFINE top == Top(inbox[1].stop, inbox[1].inv)
<1>1. /\ inbox # <<>> /\ inbox' = <<>>
      /\ UNCHANGED <<unawaited, cancelled, lost, stream, target, stop, sent, folded, consumed,
                     invalidated>>
  BY DEF StackTaken, FlagKept, targetVars
<1>2. top \in Frames /\ top.stop \in 0..stop /\ top.stop \in Nat
      /\ Explicit \in Frames /\ Explicit.stop \in 0..stop
  <2>1. inbox[1].stop \in Nat /\ inbox[1].inv \in Nat /\ inbox[1].stop \in 1..stop
    BY <1>1, InboxFacts DEF Answers, Answering
  <2>2. stop \in Nat
    BY InspectionAssumption DEF InspectionAssumption, Inv, TypeInv, TypeOK
  <2> QED
    BY <2>1, <2>2 DEF Top, Explicit, Frames
<1> HIDE DEF top
<1>3. lastFrame' \in {lastFrame, Explicit, top}
  BY DEF StackTaken, Ends, Remembered, top
<1>4. \/ pc' = "scopes" /\ request' = "scopes" /\ UNCHANGED <<call, out>>
      \/ pc' = "idle" /\ call' = NoCall /\ out' = Blank /\ request' = "none"
  BY DEF StackTaken, Ends, Return, Ask, expandVars
<1>5. request' = "none" \/ (request' = Requested(pc') /\ Waiting')
  BY <1>4 DEF Requested, Waiting
<1>6. lastFrame' \in Frames /\ lastFrame'.stop \in 0..stop
  BY <1>2, <1>3, Found
<1> QED
  BY <1>1, <1>4, <1>5, <1>6, Found, InboxFacts, GoesOn

LEMMA ThreadsTakenStep == ASSUME Inv, ThreadsTaken PROVE Inv'
<1>1. PICK reply \in {inbox[i] : i \in 1..Len(inbox)} : Take(reply)
  BY DEF ThreadsTaken
<1>2. /\ inbox # <<>> /\ inbox' = <<>>
      /\ UNCHANGED <<unawaited, cancelled, lost, stream, target, stop, sent, folded, consumed,
                     invalidated>>
  BY <1>1 DEF Take
<1>3. /\ UNCHANGED lastFrame
      /\ pc' = "idle" /\ call' = NoCall /\ out' = Blank /\ request' = "none"
  BY DEF ThreadsTaken, Ends, Return
<1> QED
  BY <1>2, <1>3, Found, InboxFacts, GoesOn

\* A step that starts an expansion, or returns when there is nothing to expand.
LEMMA ExpandsStep ==
    ASSUME Inv, NEW reply \in {inbox[i] : i \in 1..Len(inbox)}, Take(reply),
           NEW size \in Headers, NEW roots \in Seq(Entry),
           (Ends /\ UNCHANGED stopEvents) \/ Expands(size, roots)
    PROVE  Inv'
<1>1. /\ inbox # <<>> /\ inbox' = <<>>
      /\ UNCHANGED <<unawaited, cancelled, lost, stream, target, stop, sent, folded, consumed,
                     invalidated>>
  BY DEF Take
<1>2. CASE Ends
  BY <1>1, <1>2, Found, InboxFacts, GoesOn DEF Ends, Return
<1>3. CASE Expands(size, roots)
  <2>1. /\ pc' = "expand" /\ request' = "none" /\ UNCHANGED lastFrame
        /\ call' = [call EXCEPT !.roots = roots] /\ out' = Expansion(size, roots)
    BY <1>3 DEF Expands
  <2>2. Expanding(Expansion(size, roots))
    BY BlankExpanding, InspectionAssumption DEF InspectionAssumption
  <2>3. /\ DOMAIN call' = {"tool", "frame", "full", "stopped", "folded", "roots"}
        /\ call'.frame = call.frame
    BY <2>1, Found
  <2> QED
    BY <1>1, <2>1, <2>2, <2>3, Found, InboxFacts, GoesOn
<1> QED
  BY <1>2, <1>3

LEMMA EvaluateTakenStep == ASSUME Inv, EvaluateTaken PROVE Inv'
<1>1. PICK reply \in {inbox[i] : i \in 1..Len(inbox)}, size \in Headers :
         /\ Take(reply) /\ reply.ok
         /\ IF reply.refs[1] = 0
            THEN Ends /\ UNCHANGED stopEvents
            ELSE Expands(size, <<Item("variable", <<1>>, reply.refs[1], 0)>>)
  BY DEF EvaluateTaken
<1>2. inbox # <<>> /\ pc = "evaluate"
  BY <1>1 DEF Take, EvaluateTaken
<1>3. reply.refs \in {<<0>>, <<1>>}
  BY <1>1, <1>2, InboxFacts DEF Answering, Listable
<1>4. reply.refs[1] \in Nat
  BY <1>3
<1> DEFINE root == Item("variable", <<1>>, reply.refs[1], 0)
<1>5. root \in Entry
  <2>1. <<1>> \in Seq(Nat)
    OBVIOUS
  <2> QED
    BY <1>4, <2>1 DEF Item, Entry
<1> HIDE DEF root
<1>6. <<root>> \in Seq(Entry)
  BY <1>5
<1>7. (Ends /\ UNCHANGED stopEvents) \/ Expands(size, <<root>>)
  BY <1>1 DEF root
<1> QED
  BY <1>1, <1>6, <1>7, ExpandsStep

LEMMA ScopesTakenStep == ASSUME Inv, ScopesTaken PROVE Inv'
<1> DEFINE scopes(refs) ==
               [i \in 1..Len(refs) |-> Item(refs[i].kind, <<i>>, refs[i].ref, 0)]
<1>1. PICK reply \in {inbox[i] : i \in 1..Len(inbox)}, size \in Headers :
         /\ Take(reply) /\ reply.ok
         /\ (Ends /\ UNCHANGED stopEvents) \/ Expands(size, scopes(reply.refs))
  BY DEF ScopesTaken
<1>2. inbox # <<>> /\ pc = "scopes"
  BY <1>1 DEF Take, ScopesTaken
<1>3. reply.refs \in Seq([kind : {"registers", "scope"}, ref : Nat])
  BY <1>1, <1>2, InboxFacts, InspectionAssumption DEF Answering, Listable, InspectionAssumption
<1>4. /\ Len(reply.refs) \in Nat
      /\ \A i \in 1..Len(reply.refs) : reply.refs[i] \in [kind : {"registers", "scope"}, ref : Nat]
  BY <1>3, ElementOfSeq, LenProperties
<1>5. ASSUME NEW i \in 1..Len(reply.refs)
      PROVE  Item(reply.refs[i].kind, <<i>>, reply.refs[i].ref, 0) \in Entry
  <2>1. <<i>> \in Seq(Nat)
    BY <1>4
  <2> QED
    BY <1>4, <2>1 DEF Item, Entry
<1>6. scopes(reply.refs) \in Seq(Entry)
  BY <1>4, <1>5, IsASeq
<1> HIDE DEF scopes
<1> QED
  BY <1>1, <1>6, ExpandsStep

LEMMA ExpandStep == ASSUME Inv, Expand PROVE Inv'
<1>1. /\ pc = "expand" /\ out.work # <<>> /\ out.asking = NoItem /\ out' = ExpandNext(out)
      /\ request' = IF out'.asking # NoItem THEN "variables" ELSE "none"
      /\ UNCHANGED <<pc, call, unawaited, cancelled, lost, lastFrame, invalidated, stream, inbox,
                     target, stop, sent, folded, consumed>>
  BY DEF Expand, sessionVars, targetVars, ghostVars
<1>2. Asks(out, ExpandNext(out))
  BY <1>1, ExpandNextAsks, Found
<1>3. Expanding(out')
  BY <1>1, <1>2 DEF Asks
<1>4. request' = "none" \/ (request' = Requested(pc') /\ Waiting')
  BY <1>1 DEF Requested, Waiting
<1>5. ~Waiting
  BY <1>1 DEF Waiting
<1> QED
  BY <1>1, <1>3, <1>4, <1>5, Found, IdleQuiet, GoesOn

LEMMA VariablesTakenStep == ASSUME Inv, VariablesTaken PROVE Inv'
<1>1. PICK reply \in {inbox[i] : i \in 1..Len(inbox)} : Take(reply) /\ Listing(reply.ok, reply.refs)
  BY DEF VariablesTaken
<1>2. /\ inbox # <<>> /\ inbox' = <<>> /\ pc = "expand" /\ out.asking # NoItem
      /\ UNCHANGED <<unawaited, cancelled, lost, stream, target, stop, sent, folded, consumed,
                     invalidated>>
  BY <1>1 DEF Take, Waiting, VariablesTaken
<1>3. /\ UNCHANGED <<pc, call, lastFrame>> /\ request' = "none"
      /\ out' = IF reply.ok THEN Answered(out, reply.refs) ELSE Unanswered(out)
  BY <1>1 DEF Listing
<1>4. reply.ok => reply.refs \in Seq(Nat)
  BY <1>1, <1>2, InboxFacts, InspectionAssumption DEF Answering, Listable, InspectionAssumption
<1>5. Expanding(out')
  BY <1>2, <1>3, <1>4, Found, AnsweredResumes, UnansweredResumes DEF Resumes
<1> QED
  BY <1>2, <1>3, <1>5, Found, InboxFacts, GoesOn

LEMMA VariablesUnavailableStep == ASSUME Inv, VariablesUnavailable PROVE Inv'
<1>1. /\ pc = "expand" /\ inbox' = <<>> /\ stream' = Unclaimed(stream)
      /\ unawaited' = unawaited + 1 /\ target' \in {"running", target} /\ request' = "none"
      /\ UNCHANGED <<pc, call, lost, cancelled, stop, sent, folded, invalidated, consumed, lastFrame>>
      /\ out' = Unanswered(out)
  BY DEF VariablesUnavailable, GiveUp, Listing
<1>2. Expanding(out')
  BY <1>1, Found, UnansweredResumes DEF Resumes
<1> QED
  BY <1>1, <1>2, Found, UnclaimedFacts, GoesOn

LEMMA ExpandedStep == ASSUME Inv, Expanded PROVE Inv'
<1>1. /\ pc = "expand" /\ out.asking = NoItem
      /\ UNCHANGED <<unawaited, cancelled, lost, invalidated, stream, inbox, target, stop, sent,
                     folded, consumed, lastFrame>>
      /\ pc' = "idle" /\ call' = NoCall /\ out' = Blank /\ request' = "none"
  BY DEF Expanded, Finished, Ends, Return, targetVars
<1>2. ~Waiting
  BY <1>1 DEF Waiting
<1> QED
  BY <1>1, <1>2, Found, IdleQuiet, GoesOn

LEMMA DeliverStep == ASSUME Inv, Deliver PROVE Inv'
<1>1. /\ stream # <<>> /\ stream' = Tail(stream)
      /\ UNCHANGED <<call, unawaited, out, consumed, pc, cancelled, lost, lastFrame, request,
                     target, stop, sent>>
  BY DEF Deliver, Elsewhere, expandVars, targetVars
<1>2. /\ stream \in Seq(Message) /\ Len(stream) \in Nat /\ sent \in Nat /\ folded \in Nat
      /\ sent \in 0..MaxInvalidations /\ folded \in 0..sent
  BY LenProperties, InspectionAssumption DEF InspectionAssumption, Inv, TypeInv, TypeOK
<1>3. /\ Head(stream) = stream[1] /\ Head(stream) \in Message
      /\ stream' \in Seq(Message) /\ Len(stream') = Len(stream) - 1 /\ Len(stream) # 0
      /\ \A i \in 1..Len(stream') : i + 1 \in 1..Len(stream) /\ stream'[i] = stream[i + 1]
  BY <1>1, <1>2, HeadTailProperties, EmptySeq
<1>4. 1 \in 1..Len(stream) /\ \A i \in 1..Len(stream) : i = 1 \/ i - 1 \in 1..Len(stream')
  BY <1>2, <1>3
<1>5. Waiting' = Waiting /\ \A m : Answering(m) => Answering(m)'
  BY <1>1 DEF Waiting, Answering, Listable
<1>6. CASE Head(stream).type = "invalidated"
  <2>1. invalidated' = TRUE /\ folded' = folded + 1 /\ inbox' = inbox
    BY <1>6 DEF Deliver
  <2>2. NoAnswer(stream') <=> NoAnswer(stream)
    <3>1. ASSUME NoAnswer(stream), NEW i \in 1..Len(stream') PROVE stream'[i].type # "answer"
      BY <1>3, <3>1 DEF NoAnswer
    <3>2. ASSUME NoAnswer(stream'), NEW i \in 1..Len(stream) PROVE stream[i].type # "answer"
      <4>1. CASE i = 1
        BY <1>3, <1>6, <4>1
      <4>2. CASE i # 1
        <5>1. i - 1 \in 1..Len(stream') /\ (i - 1) + 1 = i
          BY <1>2, <1>4, <4>2
        <5> QED
          BY <1>3, <3>2, <5>1 DEF NoAnswer
      <4> QED
        BY <4>1, <4>2
    <3> QED
      BY <3>1, <3>2 DEF NoAnswer
  <2>3. Len(stream') = (sent - folded') + (IF NoAnswer(stream') THEN 0 ELSE 1)
    BY <1>2, <1>3, <2>1, <2>2 DEF Inv, LinkInv
  <2>4. folded' \in 0..sent
    <3>1. CASE NoAnswer(stream)
      BY <1>2, <1>3, <2>1, <2>2, <2>3, <3>1, LenProperties
    <3>2. CASE ~NoAnswer(stream)
      <4>1. Len(stream') # 0 /\ Len(stream') \in Nat
        BY <1>3, <2>2, <3>2, LenProperties DEF NoAnswer
      <4> QED
        BY <1>2, <2>1, <2>2, <2>3, <3>2, <4>1
    <3> QED
      BY <3>1, <3>2
  <2>5. OneAnswer'
    BY <1>1, <1>3, <1>5, <2>1, <2>2 DEF Inv, LinkInv, OneAnswer
  <2>6. LinkInv'
    BY <1>1, <1>3, <1>5, <2>1, <2>3, <2>5 DEF Inv, LinkInv
  <2>7. TypeOK'
    BY <1>1, <1>5, <2>1, <2>4 DEF Inv, TypeInv, TypeOK
  <2>8. consumed' \in [count : 0..folded', hidden : 0..folded']
    <3>1. 0..folded \subseteq 0..folded'
      BY <1>2, <2>1
    <3> QED
      BY <1>1, <3>1 DEF Inv, TypeInv
  <2> QED
    BY <1>1, <1>3, <2>1, <2>6, <2>7, <2>8 DEF Inv, TypeInv, Expanding
<1>7. CASE Head(stream).type # "invalidated"
  <2>1. inbox' = <<Head(stream)>> /\ UNCHANGED <<invalidated, folded>>
    BY <1>7 DEF Deliver
  <2>2. stream[1] \in Answers /\ stream[1].type = "answer"
    BY <1>3, <1>7 DEF Message, Answers
  <2>3. /\ request = "none" /\ inbox = <<>> /\ ~NoAnswer(stream) /\ Waiting /\ pc # "stopping"
        /\ Answering(stream[1])
    BY <1>4, <2>2 DEF Inv, LinkInv, OneAnswer, NoAnswer
  <2>4. NoAnswer(stream')
    <3>1. \A i \in 1..Len(stream) : stream[i].type = "answer" => i = 1
      BY <1>4, <2>2 DEF Inv, LinkInv, OneAnswer
    <3>2. \A i \in 1..Len(stream') : i + 1 # 1
      BY <1>2, <1>3
    <3> QED
      BY <1>3, <3>1, <3>2 DEF NoAnswer
  <2>5. Len(stream') = sent - folded
    BY <1>2, <1>3, <2>3 DEF Inv, LinkInv
  <2>6. PICK m \in Answers : m = stream[1] /\ inbox' = <<m>>
    BY <1>3, <2>1, <2>2
  <2>7. inbox' \in Seq(Answers) /\ Len(inbox') = 1 /\ \A i \in 1..Len(inbox') : inbox'[i] = m
    BY <2>6
  <2>8. OneAnswer'
    BY <1>1, <1>5, <2>3, <2>4 DEF OneAnswer, NoAnswer
  <2>9. Answering(m)'
    BY <1>5, <2>3, <2>6
  <2>10. LinkInv'
    BY <1>1, <1>2, <2>1, <2>4, <2>5, <2>7, <2>8, <2>9 DEF LinkInv, NoAnswer
  <2>11. TypeOK'
    BY <1>1, <1>5, <2>1, <2>3, <2>7 DEF Inv, TypeInv, TypeOK
  <2> QED
    BY <1>1, <1>3, <2>1, <2>7, <2>10, <2>11 DEF Inv, TypeInv, Expanding
<1> QED
  BY <1>6, <1>7

LEMMA CleanUpStep == ASSUME Inv, CleanUp PROVE Inv'
<1>1. /\ pc = "idle" /\ pc' = "closed" /\ lastFrame' = NoFrame /\ invalidated' = FALSE
      /\ UNCHANGED <<call, unawaited, out, consumed, cancelled, lost, request, stream, inbox,
                     target, stop, sent, folded>>
  BY DEF CleanUp, Elsewhere, expandVars, linkVars, targetVars
<1>2. request = "none" /\ inbox = <<>> /\ NoAnswer(stream) /\ Len(stream) = sent - folded
  BY <1>1, IdleQuiet DEF Waiting
<1>3. LinkInv'
  BY <1>1, <1>2, Asking, Found
<1>4. NoFrame \in Frames /\ NoFrame.kind = "none" /\ NoFrame.stop \in 0..stop
  BY InspectionAssumption DEF InspectionAssumption, NoFrame, Frames, Inv, TypeInv, TypeOK
<1> QED
  BY <1>1, <1>2, <1>3, <1>4 DEF Inv, TypeInv, TypeOK, Expanding

\* The caller, the resume tool, the end of the transport and the target.
LEMMA BesideStep == ASSUME Inv, Cancel \/ Resume \/ Lose \/ TargetStops PROVE Inv'
<1>1. /\ UNCHANGED <<call, unawaited, out, consumed, pc, lastFrame, invalidated, request,
                     stream, inbox, sent, folded>>
      /\ cancelled' \in {cancelled, TRUE} /\ lost' \in {lost, TRUE}
      /\ target' \in {target, "running", "stopped"}
      /\ stop' = stop \/ (stop < MaxStops /\ stop' = stop + 1)
  <2>1. CASE Cancel
    BY <2>1 DEF Cancel, Elsewhere, expandVars, sessionVars, linkVars, targetVars
  <2>2. CASE Resume
    BY <2>2 DEF Resume, Elsewhere, expandVars, sessionVars, linkVars
  <2>3. CASE Lose
    BY <2>3 DEF Lose, Elsewhere, expandVars, sessionVars, linkVars, targetVars
  <2>4. CASE TargetStops
    BY <2>4 DEF TargetStops, Elsewhere, expandVars, sessionVars, linkVars
  <2> QED
    BY <2>1, <2>2, <2>3, <2>4
<1>2. stop \in 1..MaxStops /\ MaxStops \in Nat
  BY InspectionAssumption DEF InspectionAssumption, Inv, TypeInv, TypeOK
<1>3. stop' \in 1..MaxStops /\ stop' \in Nat /\ stop' >= stop
  BY <1>1, <1>2
<1>4. LinkInv'
  BY <1>1, <1>3, Beside
<1>5. TypeOK'
  <2>1. lastFrame'.stop \in 0..stop'
    BY <1>1, <1>2, <1>3 DEF Inv, TypeInv, TypeOK
  <2>2. Waiting' = Waiting
    BY <1>1 DEF Waiting
  <2>3. TypeOK
    BY DEF Inv, TypeInv
  <2>4. /\ cancelled' \in BOOLEAN /\ lost' \in BOOLEAN /\ target' \in {"running", "stopped"}
        /\ inbox' # <<>> => Waiting' /\ request' = "none"
    BY <1>1, <2>2, <2>3 DEF TypeOK
  <2> QED
    BY <1>1, <1>3, <2>1, <2>3, <2>4 DEF TypeOK
<1> QED
  BY <1>1, <1>4, <1>5 DEF Inv, TypeInv, Expanding

LEMMA InvalidatesStep == ASSUME Inv, Invalidates PROVE Inv'
<1> DEFINE m == [type |-> "invalidated"]
<1>1. /\ sent < MaxInvalidations /\ sent' = sent + 1 /\ stream' = Append(stream, m)
      /\ UNCHANGED <<call, unawaited, out, consumed, pc, cancelled, lost, lastFrame,
                     invalidated, request, inbox, target, stop, folded>>
  BY DEF Invalidates, Elsewhere, expandVars, sessionVars
<1>2. m \in Message /\ m.type = "invalidated"
  BY DEF Message
<1> HIDE DEF m
<1>3. /\ stream \in Seq(Message) /\ Len(stream) \in Nat /\ sent \in Nat /\ folded \in Nat
      /\ sent' \in 0..MaxInvalidations /\ folded \in 0..sent /\ folded \in 0..sent'
  <2>1. /\ stream \in Seq(Message) /\ sent \in 0..MaxInvalidations /\ folded \in 0..sent
        /\ MaxInvalidations \in Nat
    BY InspectionAssumption DEF InspectionAssumption, Inv, TypeInv, TypeOK
  <2>2. Len(stream) \in Nat
    BY <2>1, LenProperties
  <2> QED
    BY <1>1, <2>1, <2>2
<1>4. /\ stream' \in Seq(Message) /\ Len(stream') = Len(stream) + 1
      /\ \A i \in 1..Len(stream) : stream'[i] = stream[i]
      /\ stream'[Len(stream) + 1] = m
      /\ \A i \in 1..Len(stream') : i \in 1..Len(stream) \/ stream'[i] = m
  BY <1>1, <1>2, <1>3, AppendProperties
<1>5. /\ \A i \in 1..Len(stream') : stream'[i].type = "answer" => i \in 1..Len(stream)
      /\ 1..Len(stream) \subseteq 1..Len(stream')
  BY <1>2, <1>3, <1>4
<1>6. NoAnswer(stream') <=> NoAnswer(stream)
  BY <1>4, <1>5 DEF NoAnswer
<1>7. Waiting' = Waiting /\ \A n : Answering(n) => Answering(n)'
  <2>1. \A n : n \in consumed.count..sent => n \in consumed.count..sent'
    BY <1>1, <1>3 DEF Inv, TypeInv
  <2> QED
    BY <1>1, <2>1 DEF Waiting, Answering, Listable
<1>8. OneAnswer'
  BY <1>1, <1>4, <1>5, <1>6, <1>7 DEF Inv, LinkInv, OneAnswer
<1>9. Len(stream') = (sent' - folded') + (IF NoAnswer(stream') THEN 0 ELSE 1)
  BY <1>1, <1>3, <1>4, <1>6 DEF Inv, LinkInv
<1>10. LinkInv'
  BY <1>1, <1>4, <1>5, <1>7, <1>8, <1>9 DEF Inv, LinkInv
<1>11. TypeOK'
  BY <1>1, <1>3, <1>7 DEF Inv, TypeInv, TypeOK
<1> QED
  BY <1>1, <1>4, <1>10, <1>11 DEF Inv, TypeInv, Expanding

\* The adapter answers the request of the call.
LEMMA ServeStep == ASSUME Inv, Serve PROVE Inv'
<1>1. /\ request # "none" /\ request' = "none"
      /\ UNCHANGED <<call, unawaited, out, consumed, pc, cancelled, lost, lastFrame,
                     invalidated, inbox, stop, sent, folded>>
  BY DEF Serve, Elsewhere, expandVars, sessionVars
<1>2. /\ request = Requested(pc) /\ inbox = <<>> /\ NoAnswer(stream) /\ Waiting
      /\ pc # "stopping" /\ pc' = pc
  BY <1>1 DEF Inv, LinkInv, OneAnswer
<1>3. PICK ok, refs : /\ ok \in BOOLEAN /\ Reply(ok, refs)
                      /\ (ok /\ refs \in Listings) \/ (~ok /\ refs = <<>>)
                      /\ target' \in {target, "running"}
  BY DEF Serve
<1>4. refs \in Lists /\ (ok => refs \in Listable(pc)) /\ (ok \/ refs = <<>>)
  <2>1. <<>> \in Seq(Nat) /\ <<0>> \in Seq(Nat) /\ <<1>> \in Seq(Nat)
    OBVIOUS
  <2>2. ok => refs \in Listable(pc)
    BY <1>2, <1>3, <2>1 DEF Listings, Requested, Listable, Waiting
  <2>3. Listable(pc) \subseteq Lists
    BY <2>1, InspectionAssumption DEF Listable, Lists, InspectionAssumption
  <2> QED
    BY <1>3, <2>1, <2>2, <2>3 DEF Lists
<1>5. /\ stream \in Seq(Message) /\ sent \in Nat /\ stop \in 1..MaxStops /\ stop \in Nat
      /\ consumed.count \in 0..folded /\ folded \in 0..sent /\ MaxStops \in Nat
  BY InspectionAssumption DEF InspectionAssumption, Inv, TypeInv, TypeOK
<1> DEFINE m == [type |-> "answer", ok |-> ok, refs |-> refs, stop |-> stop, inv |-> sent]
<1>6. PICK n \in Answers : n = m
  BY <1>3, <1>4, <1>5 DEF Answers
<1>7. stream' = Append(stream, n)
  <2>1. stream' = Append(stream, m)
    BY <1>3 DEF Reply
  <2> HIDE DEF m
  <2> QED
    BY <1>6, <2>1
<1>8. /\ n.type = "answer" /\ n.ok = ok /\ n.refs = refs /\ n.stop = stop /\ n.inv = sent
  BY <1>6
<1>9. n \in Message
  BY DEF Message
<1> HIDE DEF m
<1>10. Len(stream) \in Nat /\ Len(stream) = sent - folded
  <2>1. Len(stream) = (sent - folded) + 0
    BY <1>2 DEF Inv, LinkInv
  <2> QED
    BY <1>5, <2>1
<1>11. /\ stream' \in Seq(Message) /\ Len(stream') = Len(stream) + 1
       /\ \A i \in 1..Len(stream) : stream'[i] = stream[i]
       /\ stream'[Len(stream) + 1] = n
  BY <1>5, <1>7, <1>9, AppendProperties
<1>12. \A i \in 1..Len(stream') : i \in 1..Len(stream) \/ i = Len(stream) + 1
  BY <1>10, <1>11
<1>13. \A i \in 1..Len(stream') : stream'[i].type = "answer" => i = Len(stream) + 1
  BY <1>2, <1>11, <1>12 DEF NoAnswer
<1>14. ~NoAnswer(stream')
  <2>1. Len(stream) + 1 \in 1..Len(stream')
    BY <1>10, <1>11
  <2> QED
    BY <1>8, <1>11, <2>1 DEF NoAnswer
<1>15. Answering(n)'
  BY <1>1, <1>4, <1>5, <1>8 DEF Answering, Listable
<1>16. Waiting' /\ inbox' = <<>> /\ Len(inbox') = 0
  BY <1>1, <1>2 DEF Waiting
<1>17. OneAnswer'
  BY <1>1, <1>2, <1>13, <1>16 DEF OneAnswer
<1>18. LinkInv'
  <2>1. \A i \in 1..Len(stream') : stream'[i].type = "answer" => stream'[i] = n
    BY <1>11, <1>13
  <2>2. Len(stream') = (sent' - folded') + (IF NoAnswer(stream') THEN 0 ELSE 1)
    BY <1>1, <1>10, <1>11, <1>14
  <2>3. 1..Len(inbox') = {}
    BY <1>16
  <2> QED
    BY <1>15, <1>17, <2>1, <2>2, <2>3 DEF LinkInv
<1>19. TypeOK'
  BY <1>1, <1>3, <1>16 DEF Inv, TypeInv, TypeOK
<1> QED
  BY <1>1, <1>11, <1>18, <1>19 DEF Inv, TypeInv, Expanding

LEMMA InvStep == Inv /\ [Next]_vars => Inv'
<1> SUFFICES ASSUME Inv, [Next]_vars PROVE Inv'
  OBVIOUS
<1>1. CASE Tools
  BY <1>1, CallStep, WaitFailsStep, ErrorTakenStep, ResponseTakenStep, StopTakenStep,
     StackTakenStep, ThreadsTakenStep, EvaluateTakenStep, ScopesTakenStep, ExpandStep,
     VariablesTakenStep, VariablesUnavailableStep, ExpandedStep DEF Tools
<1>2. CASE Deliver \/ Cancel \/ Resume \/ Lose \/ CleanUp
  BY <1>2, DeliverStep, BesideStep, CleanUpStep
<1>3. CASE Serve \/ TargetStops \/ Invalidates
  BY <1>3, ServeStep, BesideStep, InvalidatesStep
<1>4. CASE UNCHANGED vars
  BY <1>4, Beside, InspectionAssumption
     DEF InspectionAssumption, vars, sessionVars, expandVars, linkVars, targetVars, ghostVars, Inv,
         TypeInv, TypeOK, Waiting, Expanding
<1> QED
  BY <1>1, <1>2, <1>3, <1>4 DEF Next

LEMMA Always == Spec => []Inv
  BY InvInit, InvStep, PTL DEF Spec

\* The variables keep their types, for any budgets, answers and numbers of stops and
\* invalidations; a call has an answer in its inbox only while it waits for one.
THEOREM TypeCorrect == Spec => []TypeOK
<1>1. Inv => TypeOK
  BY DEF Inv, TypeInv
<1> QED
  BY <1>1, Always, PTL

------------------------------------------------------------------------------
(* The default frame and the invalidations.                                 *)

\* The flag is up while an invalidation has been folded that nobody consumed; the default
\* frame is no older than the invalidations consumed unless an explicit frame hid the last
\* of them; evaluate uses the default frame of the moment.
FrameInv ==
    /\ pc # "closed" => (invalidated <=> consumed.count # folded)
    /\ lastFrame.kind = "top" =>
          lastFrame.inv >= consumed.count \/ consumed.hidden = consumed.count
    /\ pc = "evaluate" /\ call.frame.kind = "top" =>
          call.frame = lastFrame /\ call.folded = consumed.count

LEMMA FrameInit == Init => FrameInv
  BY DEF Init, FrameInv, NoFrame, Top, NoCall

\* Most steps leave the frame and the flag alone.
LEMMA FrameKept ==
    ASSUME FrameInv, UNCHANGED <<lastFrame, consumed, invalidated, folded>>,
           pc' # "closed" => pc # "closed",
           pc' = "evaluate" => pc = "evaluate" /\ call' = call
    PROVE  FrameInv'
  BY DEF FrameInv

LEMMA EvaluateFrame ==
    ASSUME Inv, FrameInv, NEW explicit \in BOOLEAN, Evaluate(explicit)
    PROVE  FrameInv'
<1>1. /\ pc = "idle" /\ folded' = folded /\ invalidated' = FALSE
      /\ consumed' = [count |-> folded, hidden |-> IF explicit THEN folded ELSE consumed.hidden]
  BY DEF Evaluate, Begins, Consume
<1>2. consumed'.count = folded /\ (explicit => consumed'.hidden = folded)
      /\ (~explicit => consumed'.hidden = consumed.hidden)
  BY <1>1
<1>3. invalidated <=> consumed.count # folded
  BY <1>1 DEF FrameInv
<1>4. CASE invalidated /\ ~explicit
  <2>1. pc' = "idle" /\ lastFrame' = NoFrame
    BY <1>4 DEF Evaluate, Begins
  <2> QED
    BY <1>1, <1>2, <2>1 DEF FrameInv, NoFrame
<1>5. CASE ~(invalidated /\ ~explicit)
  <2> DEFINE frame == IF explicit THEN Explicit ELSE lastFrame
  <2>1. pc' = "evaluate" /\ lastFrame' = lastFrame /\ call' = Call("evaluate", frame, FALSE)
    BY <1>5 DEF Evaluate, Begins
  <2>2. call'.frame = frame /\ call'.folded = folded
    BY <2>1 DEF Call, NoCall
  <2>3. CASE explicit
    <3>1. frame = Explicit /\ Explicit.kind = "explicit"
      BY <2>3 DEF Explicit
    <3>2. consumed'.count = folded /\ consumed'.hidden = folded
      BY <1>2, <2>3
    <3>3. lastFrame'.kind = "top" => lastFrame.kind = "top"
      BY <2>1
    <3> HIDE DEF frame
    <3> QED
      BY <1>1, <2>1, <2>2, <3>1, <3>2, <3>3 DEF FrameInv
  <2>4. CASE ~explicit
    <3>1. consumed.count = folded /\ consumed' = [count |-> folded, hidden |-> consumed.hidden]
      BY <1>1, <1>3, <1>5, <2>4
    <3> QED
      BY <1>1, <1>2, <2>1, <2>2, <2>4, <3>1 DEF FrameInv
  <2> QED
    BY <2>3, <2>4
<1> QED
  BY <1>4, <1>5

\* A new default frame was given since the last invalidation was consumed.
LEMMA StackFrame ==
    ASSUME Inv, FrameInv, StackTaken
    PROVE  FrameInv'
<1> DEFINE top == Top(inbox[1].stop, inbox[1].inv)
<1>1. /\ inbox # <<>> /\ pc = "stack" /\ UNCHANGED <<folded, consumed, invalidated>>
      /\ lastFrame' \in {lastFrame, Explicit, top}
      /\ pc' \in {"scopes", "idle"} /\ (call' = call \/ call' = NoCall)
  BY DEF StackTaken, FlagKept, Ends, Return, Remembered
<1>2. top.inv >= consumed.count
  <2>1. inbox[1].inv \in consumed.count..sent
    BY <1>1, InboxFacts DEF Answering
  <2> QED
    BY <2>1 DEF Top, Inv, TypeInv
<1>3. Explicit.kind = "explicit" /\ NoCall.tool = "none"
  BY DEF Explicit, NoCall
<1> HIDE DEF top
<1> QED
  BY <1>1, <1>2, <1>3 DEF FrameInv

LEMMA FrameStep == Inv /\ FrameInv /\ [Next]_vars => FrameInv'
<1> SUFFICES ASSUME Inv, FrameInv, [Next]_vars PROVE FrameInv'
  OBVIOUS
<1>0. NoCall.tool = "none" /\ NoFrame.kind = "none"
  BY DEF NoCall, NoFrame
<1>1. CASE \E explicit \in BOOLEAN : Evaluate(explicit)
  BY <1>1, EvaluateFrame
<1>2. CASE (\E frame \in {NoFrame, Explicit} : Context(frame)) \/ \E full \in BOOLEAN : Execute(full)
  <2>1. /\ pc = "idle" /\ pc' \in {"stack", "execute"} /\ call'.tool \in {"context", "execute"}
        /\ UNCHANGED <<lastFrame, invalidated, consumed, folded>>
    BY <1>2 DEF Context, Execute, Begins, sessionVars, Call, NoCall
  <2> QED
    BY <2>1 DEF FrameInv
<1>3. CASE StackTaken
  BY <1>3, StackFrame
<1>4. CASE WaitFails \/ ErrorTaken \/ ResponseTaken \/ ThreadsTaken \/ Expanded
  <2>1. /\ UNCHANGED <<lastFrame, consumed, invalidated, folded>>
        /\ pc # "closed" /\ pc' # "evaluate" /\ (call' = call \/ call' = NoCall)
    BY <1>4 DEF WaitFails, ErrorTaken, ResponseTaken, ThreadsTaken, Expanded, GiveUp, Take, Ends,
       Return, StackFails, ReportStop, Waiting
  <2> QED
    BY <1>0, <2>1, FrameKept
<1>5. CASE StopTaken
  <2>1. /\ UNCHANGED <<lastFrame, consumed, invalidated, folded>>
        /\ pc # "closed" /\ pc' # "evaluate" /\ call' = [call EXCEPT !.stopped = TRUE]
    BY <1>5 DEF StopTaken, ReportStop, sessionVars, ghostVars
  <2> QED
    BY <2>1, Found, FrameKept
<1>6. CASE EvaluateTaken \/ ScopesTaken
  <2>1. /\ UNCHANGED <<lastFrame, consumed, invalidated, folded>>
        /\ pc # "closed" /\ pc' # "evaluate"
        /\ call' = NoCall \/ \E roots : call' = [call EXCEPT !.roots = roots]
    BY <1>6 DEF EvaluateTaken, ScopesTaken, Take, Ends, Return, Expands
  <2> QED
    BY <1>0, <2>1, Found, FrameKept
<1>7. CASE Expand \/ VariablesTaken \/ VariablesUnavailable
  <2>1. /\ UNCHANGED <<lastFrame, consumed, invalidated, folded, call, pc>>
        /\ pc = "expand"
    BY <1>7 DEF Expand, VariablesTaken, VariablesUnavailable, GiveUp, Take, Listing, sessionVars,
       ghostVars
  <2> QED
    BY <2>1, FrameKept
<1>8. CASE Deliver
  <2>1. /\ UNCHANGED <<lastFrame, consumed, call, pc>>
        /\ \/ invalidated' = TRUE /\ folded' = folded + 1
           \/ UNCHANGED <<invalidated, folded>>
    BY <1>8 DEF Deliver, Elsewhere
  <2>2. folded \in Nat /\ consumed.count \in 0..folded
    BY InspectionAssumption DEF InspectionAssumption, Inv, TypeInv, TypeOK
  <2> QED
    BY <2>1, <2>2 DEF FrameInv
<1>9. CASE CleanUp
  BY <1>0, <1>9 DEF CleanUp, Elsewhere, FrameInv
<1>10. CASE Cancel \/ Resume \/ Lose \/ Serve \/ TargetStops \/ Invalidates \/ UNCHANGED vars
  <2>1. UNCHANGED <<lastFrame, consumed, invalidated, folded, call, pc>>
    BY <1>10 DEF Cancel, Resume, Lose, Serve, TargetStops, Invalidates, Elsewhere, sessionVars, vars,
       ghostVars
  <2> QED
    BY <2>1, FrameKept
<1> QED
  BY <1>1, <1>2, <1>3, <1>4, <1>5, <1>6, <1>7, <1>8, <1>9, <1>10 DEF Next, Tools

LEMMA FrameAlways == Spec => []FrameInv
  BY FrameInit, FrameStep, Always, PTL DEF Spec

\* evaluate never uses a default frame chosen before an invalidation that was folded when
\* it began, except after an evaluate with an explicit frame has cleared the flag.
THEOREM NoStaleFrame == Spec => []StaleFrameIsAnnounced
<1>1. FrameInv => StaleFrameIsAnnounced
  BY DEF FrameInv, StaleFrameIsAnnounced
<1> QED
  BY <1>1, FrameAlways, PTL

------------------------------------------------------------------------------
(* The default frame and the target.                                        *)

\* A stop the target is at, or one it left and no tool has told where it went.
Accounted(s) == s > Left \/ s <= strayed

\* An execution that has not come to the stack of its stop.
Moving == call.tool = "execute" /\ pc \in {"execute", "stopping", "stack"}

\* Traced(m): a stack in m is of a stop that is accounted for.
Traced(m) == m.ok => Accounted(m.stop)

TracedStacks ==
    /\ \A i \in 1..Len(inbox) : Traced(inbox[i])
    /\ \A i \in 1..Len(stream) : stream[i].type = "answer" => Traced(stream[i])

\* Only an execution under way has taken the target away from the default frame, and the
\* stack that sets a new one is of where the target is.
StrayInv ==
    /\ lastFrame.kind = "top" => Accounted(lastFrame.stop) \/ Moving
    /\ pc = "evaluate" /\ call.frame.kind = "top" => Accounted(call.frame.stop)
    /\ pc = "stack" => TracedStacks
    /\ pc \in {"execute", "stopping"} => call.tool = "execute"

LEMMA StrayInit == Init => StrayInv
  BY DEF Init, StrayInv, Accounted, Left, NoFrame, Top, NoCall

\* The numbers that are compared.
LEMMA Numbers ==
    ASSUME Inv
    PROVE  /\ stop \in Nat /\ Left \in Int /\ Left <= stop /\ lastFrame.stop \in Nat
           /\ call.frame.stop \in Nat
           /\ \A i \in 1..Len(inbox) : inbox[i].stop \in Nat
           /\ \A i \in 1..Len(stream) : stream[i].type = "answer" => stream[i].stop \in Nat
<1>1. stop \in Nat /\ stop \in 1..MaxStops
  BY InspectionAssumption DEF InspectionAssumption, Inv, TypeInv, TypeOK
<1>2. Left \in Int /\ Left <= stop
  BY <1>1 DEF Left
<1>3. lastFrame.stop \in Nat /\ call.frame.stop \in Nat
  BY DEF Inv, TypeInv, Frames
<1>4. \A i \in 1..Len(inbox) : inbox[i].stop \in Nat
  <2>1. inbox \in Seq(Answers)
    BY DEF Inv, TypeInv
  <2>2. \A i \in 1..Len(inbox) : inbox[i] \in Answers
    BY <2>1, ElementOfSeq
  <2> QED
    BY <2>2 DEF Answers
<1>5. \A i \in 1..Len(stream) : stream[i].type = "answer" => stream[i].stop \in Nat
  <2>1. stream \in Seq(Message)
    BY DEF Inv, TypeInv
  <2>2. \A i \in 1..Len(stream) : stream[i] \in Message
    BY <2>1, ElementOfSeq
  <2> QED
    BY <2>2 DEF Message, Answers
<1> QED
  BY <1>1, <1>2, <1>3, <1>4, <1>5

\* The call goes on as it was, and so does the target.
LEMMA StrayKept ==
    ASSUME StrayInv, UNCHANGED <<pc, lastFrame, strayed>>, Left' = Left,
           call'.tool = call.tool, call'.frame = call.frame, pc = "stack" => TracedStacks'
    PROVE  StrayInv'
  BY DEF StrayInv, Accounted, Moving

\* The call goes on elsewhere, with the default frame as it was.
LEMMA StrayOn ==
    ASSUME StrayInv, UNCHANGED <<lastFrame, strayed>>, Left' = Left,
           pc' \notin {"evaluate", "stack", "execute", "stopping"}, ~Moving
    PROVE  StrayInv'
  BY DEF StrayInv, Accounted

LEMMA StrayEnds ==
    ASSUME Inv, StrayInv, Ends, stop' = stop, Left' = Left \/ Moving
    PROVE  StrayInv'
<1>1. /\ pc' = "idle" /\ lastFrame' = lastFrame
      /\ strayed' = IF Moving THEN Left' ELSE strayed
  BY DEF Ends, Return, Moving
<1>2. CASE Moving
  <2>1. Left' \in Int /\ lastFrame.stop \in Nat
    BY Numbers DEF Left
  <2> QED
    BY <1>1, <1>2, <2>1 DEF StrayInv, Accounted
<1>3. CASE ~Moving
  BY <1>1, <1>3, StrayOn
<1> QED
  BY <1>2, <1>3

LEMMA StrayCalls ==
    ASSUME Inv, StrayInv,
           \/ \E explicit \in BOOLEAN : Evaluate(explicit)
           \/ \E frame \in {NoFrame, Explicit} : Context(frame)
           \/ \E full \in BOOLEAN : Execute(full)
    PROVE  StrayInv'
<1>1. /\ pc = "idle" /\ UNCHANGED <<stream, inbox, strayed>> /\ Left' = Left
  BY DEF Evaluate, Context, Execute, Begins, targetVars, Left
<1>2. inbox = <<>> /\ NoAnswer(stream) /\ Len(<<>>) = 0 /\ 1..0 = {}
  BY <1>1, IdleQuiet DEF Waiting
<1>3. TracedStacks'
  BY <1>1, <1>2 DEF TracedStacks, NoAnswer
<1>4. lastFrame.kind = "top" => Accounted(lastFrame.stop)
  BY <1>1 DEF StrayInv, Moving
<1>5. /\ lastFrame' \in {lastFrame, NoFrame}
      /\ pc' = "evaluate" => call'.frame \in {lastFrame, Explicit}
      /\ pc' \in {"execute", "stopping"} => call'.tool = "execute"
  <2>1. CASE \E explicit \in BOOLEAN : Evaluate(explicit)
    BY <2>1 DEF Evaluate, Begins, Call, NoCall
  <2>2. CASE \E frame \in {NoFrame, Explicit} : Context(frame)
    BY <2>2 DEF Context, Begins, sessionVars
  <2>3. CASE \E full \in BOOLEAN : Execute(full)
    BY <2>3 DEF Execute, Begins, Call, NoCall, sessionVars
  <2> QED
    BY <2>1, <2>2, <2>3
<1>6. NoFrame.kind = "none" /\ Explicit.kind = "explicit"
  BY DEF NoFrame, Explicit
<1>7. \A s : Accounted(s)' <=> Accounted(s)
  BY <1>1 DEF Accounted
<1> QED
  BY <1>3, <1>4, <1>5, <1>6, <1>7 DEF StrayInv

\* The steps of a call outside its expansion.
LEMMA StrayWaits ==
    ASSUME Inv, StrayInv, WaitFails \/ ErrorTaken \/ ResponseTaken \/ StopTaken \/ ThreadsTaken
    PROVE  StrayInv'
<1>1. CASE WaitFails
  <2>1. Ends /\ stop' = stop /\ target' = IF request = "continue" THEN "running" ELSE target
    BY <1>1 DEF WaitFails, GiveUp
  <2>2. request = "continue" => pc = "execute"
    BY DEF Inv, LinkInv, OneAnswer, Requested
  <2>3. Left' = Left \/ Moving
    BY <2>1, <2>2 DEF Left, Moving, StrayInv
  <2> QED
    BY <2>1, <2>3, StrayEnds
<1>2. CASE ErrorTaken \/ ThreadsTaken
  <2>1. stop' = stop /\ Left' = Left
    BY <1>2 DEF ErrorTaken, ThreadsTaken, Take, Left
  <2>2. CASE Ends
    BY <2>1, <2>2, StrayEnds
  <2>3. CASE pc = "stack" /\ StackFails /\ ~Ends
    <3>1. call.tool = "context" /\ pc' = "threads" /\ UNCHANGED <<lastFrame, strayed>>
      BY <2>3 DEF StackFails
    <3> QED
      BY <2>1, <3>1, StrayOn DEF Moving
  <2>4. Ends \/ (pc = "stack" /\ StackFails)
    BY <1>2 DEF ErrorTaken, ThreadsTaken
  <2> QED
    BY <2>2, <2>3, <2>4
<1>3. CASE ResponseTaken \/ StopTaken
  <2>1. /\ pc \in {"execute", "stopping"} /\ call'.tool = call.tool
        /\ pc' \in {pc, "stopping", "stack"} /\ pc' # "evaluate"
        /\ UNCHANGED <<lastFrame, strayed>>
    BY <1>3, Found DEF ResponseTaken, StopTaken, ReportStop, sessionVars, ghostVars
  <2>2. Moving' /\ call'.tool = "execute"
    BY <2>1 DEF StrayInv, Moving
  <2>3. pc' = "stack" => inbox' = <<>> /\ NoAnswer(stream')
    <3>1. CASE ResponseTaken
      BY <3>1, InboxFacts DEF ResponseTaken, Take
    <3>2. CASE StopTaken
      BY <2>1, <3>2, IdleQuiet DEF StopTaken, Waiting
    <3> QED
      BY <1>3, <3>1, <3>2
  <2>4. pc' = "stack" => TracedStacks'
    <3>1. Len(<<>>) = 0 /\ 1..0 = {}
      OBVIOUS
    <3> QED
      BY <2>3, <3>1 DEF TracedStacks, NoAnswer
  <2> QED
    BY <2>1, <2>2, <2>4 DEF StrayInv
<1> QED
  BY <1>1, <1>2, <1>3

\* A new default frame is of a stop that is accounted for.
LEMMA StrayStack ==
    ASSUME Inv, StrayInv, StackTaken
    PROVE  StrayInv'
<1>1. /\ pc = "stack" /\ inbox # <<>> /\ inbox[1].ok /\ stop' = stop /\ Left' = Left
  BY DEF StackTaken, targetVars, Left
<1>2. CASE Ends
  BY <1>1, <1>2, StrayEnds
<1>3. CASE ~Ends
  <2> DEFINE top == Top(inbox[1].stop, inbox[1].inv)
  <2>1. lastFrame' \in {Explicit, top} /\ strayed' = strayed /\ pc' \in {"scopes", "idle"}
    BY <1>3 DEF StackTaken, Remembered, Return
  <2>2. Traced(inbox[1])
    <3>1. inbox \in Seq(Answers) /\ Len(inbox) \in Nat /\ Len(inbox) # 0
      BY <1>1, LenProperties, EmptySeq DEF Inv, TypeInv
    <3> QED
      BY <1>1, <3>1 DEF StrayInv, TracedStacks
  <2>3. Accounted(top.stop) /\ Explicit.kind = "explicit"
    BY <1>1, <2>2 DEF Traced, Top, Explicit
  <2> HIDE DEF top
  <2> QED
    BY <1>1, <2>1, <2>3 DEF StrayInv, Accounted
<1> QED
  BY <1>2, <1>3

\* The expansion.
LEMMA StrayExpands ==
    ASSUME Inv, StrayInv,
           \/ EvaluateTaken \/ ScopesTaken
           \/ Expand \/ VariablesTaken \/ VariablesUnavailable \/ Expanded
    PROVE  StrayInv'
<1>1. CASE EvaluateTaken \/ ScopesTaken
  <2>1. pc \in {"evaluate", "scopes"} /\ stop' = stop /\ Left' = Left
    BY <1>1 DEF EvaluateTaken, ScopesTaken, Take, Left
  <2>2. Ends \/ (pc' = "expand" /\ UNCHANGED <<lastFrame, strayed>>)
    BY <1>1 DEF EvaluateTaken, ScopesTaken, Expands
  <2> QED
    BY <2>1, <2>2, StrayEnds, StrayOn DEF Moving
<1>2. CASE Expanded
  <2>1. Ends /\ stop' = stop /\ Left' = Left
    BY <1>2 DEF Expanded, targetVars, Left
  <2> QED
    BY <2>1, StrayEnds
<1>3. CASE Expand \/ VariablesTaken \/ VariablesUnavailable
  <2>1. pc = "expand" /\ pc' = pc /\ UNCHANGED <<lastFrame, strayed>>
    BY <1>3 DEF Expand, VariablesTaken, VariablesUnavailable, Listing, sessionVars, ghostVars
  <2>2. request # "continue"
    BY <2>1 DEF Inv, LinkInv, OneAnswer, Requested
  <2>3. Left' = Left
    BY <1>3, <2>2 DEF Expand, VariablesTaken, VariablesUnavailable, Take, GiveUp, targetVars, Left
  <2> QED
    BY <2>1, <2>3, StrayOn DEF Moving
<1> QED
  BY <1>1, <1>2, <1>3

\* The adapter gives a stack only where the target is stopped.
LEMMA StrayServe ==
    ASSUME Inv, StrayInv, Serve
    PROVE  StrayInv'
<1>1. /\ request # "none"
      /\ UNCHANGED <<call, pc, lastFrame, strayed, stop, inbox>>
  BY DEF Serve, Elsewhere, sessionVars
<1>2. request = Requested(pc) /\ NoAnswer(stream) /\ inbox = <<>>
  BY <1>1 DEF Inv, LinkInv, OneAnswer
<1>3. PICK ok, refs : /\ Reply(ok, refs)
                      /\ \/ ~ok /\ target' = target
                         \/ /\ target = "stopped" \/ request = "threads"
                            /\ target' = IF request = "continue" THEN "running" ELSE target
  BY DEF Serve
<1>4. CASE pc = "execute"
  BY <1>1, <1>4 DEF StrayInv, Moving
<1>5. CASE pc # "execute"
  <2>1. request # "continue" /\ Left' = Left
    BY <1>1, <1>2, <1>3, <1>5 DEF Requested, Left
  <2>2. ASSUME pc = "stack" PROVE TracedStacks'
    <3>1. PICK m : m = [type |-> "answer", ok |-> ok, refs |-> refs, stop |-> stop, inv |-> sent]
      OBVIOUS
    <3>2. m.ok = ok /\ m.stop = stop /\ stream' = Append(stream, m)
      BY <1>3, <3>1 DEF Reply
    <3>3. ok => stop > Left
      <4>1. ok => target = "stopped"
        BY <1>2, <1>3, <2>2 DEF Requested
      <4> QED
        BY <4>1, Numbers DEF Left
    <3>4. ok => stop' > Left'
      BY <1>1, <2>1, <3>3
    <3>5. Traced(m)'
      BY <1>1, <3>2, <3>4 DEF Traced, Accounted
    <3>6. stream \in Seq(Message) /\ Len(stream) \in Nat
      BY LenProperties DEF Inv, TypeInv
    <3>7. (\A i \in 1..Len(stream) : stream[i].type = "answer" => stream[i] = m)'
      BY <1>2, <3>2, <3>6, AppendProperties DEF NoAnswer
    <3>8. (\A i \in 1..Len(inbox) : Traced(inbox[i]))'
      <4>1. Len(<<>>) = 0 /\ 1..0 = {}
        OBVIOUS
      <4> QED
        BY <1>1, <1>2, <4>1
    <3> QED
      BY <3>5, <3>7, <3>8 DEF TracedStacks
  <2> QED
    BY <1>1, <2>1, <2>2, StrayKept
<1> QED
  BY <1>4, <1>5

\* A message the read loop delivers was on its way.
LEMMA StrayDeliver ==
    ASSUME Inv, StrayInv, Deliver
    PROVE  StrayInv'
<1>1. /\ stream # <<>> /\ stream' = Tail(stream)
      /\ inbox' = inbox \/ (Head(stream).type # "invalidated" /\ inbox' = <<Head(stream)>>)
      /\ UNCHANGED <<call, pc, lastFrame, strayed>> /\ Left' = Left
  BY DEF Deliver, Elsewhere, targetVars, Left
<1>2. /\ stream \in Seq(Message) /\ Len(stream) \in Nat /\ Len(stream) # 0
      /\ Head(stream) = stream[1] /\ stream[1] \in Message
      /\ Len(stream') = Len(stream) - 1
      /\ \A i \in 1..Len(stream') : i + 1 \in 1..Len(stream) /\ stream'[i] = stream[i + 1]
  <2>1. stream \in Seq(Message)
    BY DEF Inv, TypeInv
  <2> QED
    BY <1>1, <2>1, HeadTailProperties, LenProperties, EmptySeq, ElementOfSeq
<1>3. \A m : Traced(m)' <=> Traced(m)
  BY <1>1 DEF Traced, Accounted
<1>4. ASSUME pc = "stack" PROVE TracedStacks'
  <2>1. TracedStacks
    BY <1>4 DEF StrayInv
  <2>2. \A i \in 1..Len(stream') : stream'[i].type = "answer" => Traced(stream'[i])
    BY <1>2, <2>1 DEF TracedStacks
  <2>3. \A i \in 1..Len(inbox') : Traced(inbox'[i])
    <3>1. CASE inbox' = inbox
      BY <2>1, <3>1 DEF TracedStacks
    <3>2. CASE Head(stream).type # "invalidated" /\ inbox' = <<Head(stream)>>
      <4>1. stream[1].type = "answer" /\ 1 \in 1..Len(stream)
        BY <1>2, <3>2 DEF Message, Answers
      <4>2. Traced(stream[1])
        BY <2>1, <4>1 DEF TracedStacks
      <4> QED
        BY <1>2, <3>2, <4>2
    <3> QED
      BY <1>1, <3>1, <3>2
  <2> QED
    BY <1>3, <2>2, <2>3 DEF TracedStacks, Traced
<1> QED
  BY <1>1, <1>4, StrayKept

\* The caller, the resume tool, the end of the session and the target.
LEMMA StrayBeside ==
    ASSUME Inv, StrayInv,
           Cancel \/ Resume \/ Lose \/ CleanUp \/ TargetStops \/ Invalidates \/ UNCHANGED vars
    PROVE  StrayInv'
<1>1. CASE Cancel \/ Lose \/ TargetStops \/ UNCHANGED vars
  <2>1. UNCHANGED <<pc, call, lastFrame, strayed, stream, inbox>>
    BY <1>1 DEF Cancel, Lose, TargetStops, vars, Elsewhere, sessionVars, linkVars, ghostVars
  <2>2. Left' = Left
    <3>1. CASE TargetStops
      <4>1. target = "running" /\ target' = "stopped" /\ stop' = stop + 1
        BY <3>1 DEF TargetStops
      <4>2. stop \in Nat
        BY Numbers
      <4> QED
        BY <4>1, <4>2 DEF Left
    <3>2. CASE Cancel \/ Lose \/ UNCHANGED vars
      BY <3>2 DEF Cancel, Lose, vars, targetVars, Left
    <3> QED
      BY <1>1, <3>1, <3>2
  <2>3. pc = "stack" => TracedStacks'
    BY <2>1, <2>2 DEF StrayInv, TracedStacks, Traced, Accounted
  <2> QED
    BY <2>1, <2>2, <2>3, StrayKept
<1>2. CASE Invalidates
  <2> DEFINE m == [type |-> "invalidated"]
  <2>1. stream' = Append(stream, m) /\ UNCHANGED <<pc, call, lastFrame, strayed, inbox>>
        /\ Left' = Left
    BY <1>2 DEF Invalidates, Elsewhere, sessionVars, Left
  <2>2. m.type # "answer"
    OBVIOUS
  <2> HIDE DEF m
  <2>3. stream \in Seq(Message) /\ Len(stream) \in Nat
    BY LenProperties DEF Inv, TypeInv
  <2>4. \A i \in 1..Len(stream') :
          stream'[i].type = "answer" => i \in 1..Len(stream) /\ stream'[i] = stream[i]
    BY <2>1, <2>2, <2>3, AppendProperties
  <2>5. pc = "stack" => TracedStacks'
    BY <2>1, <2>4 DEF StrayInv, TracedStacks, Traced, Accounted
  <2> QED
    BY <2>1, <2>5, StrayKept
<1>3. CASE Resume
  <2>1. /\ UNCHANGED <<pc, call, lastFrame, stream, inbox>> /\ strayed' = stop /\ stop' = stop
        /\ target' = "running"
    BY <1>3 DEF Resume, Elsewhere, sessionVars, linkVars
  <2>2. \A s \in Int : Accounted(s)'
    <3>1. Left' = stop /\ stop \in Nat
      BY <2>1, Numbers DEF Left
    <3> QED
      BY <2>1, <3>1 DEF Accounted
  <2>3. TracedStacks'
    BY <2>1, <2>2, Numbers DEF TracedStacks, Traced
  <2>4. Accounted(lastFrame.stop)' /\ Accounted(call.frame.stop)'
    BY <2>1, <2>2, Numbers
  <2> QED
    BY <2>1, <2>3, <2>4 DEF StrayInv
<1>4. CASE CleanUp
  BY <1>4 DEF CleanUp, StrayInv, NoFrame
<1> QED
  BY <1>1, <1>2, <1>3, <1>4

\* evaluate uses a frame of a stop the target has left only if a resume took it away, or a
\* continue or step that ended before it came to the stack of its stop.
THEOREM FollowsTarget == Spec => []FrameFollowsTarget
<1>1. Inv /\ StrayInv /\ [Next]_vars => StrayInv'
  <2> SUFFICES ASSUME Inv, StrayInv, [Next]_vars PROVE StrayInv'
    OBVIOUS
  <2> QED
    BY StrayCalls, StrayWaits, StrayStack, StrayExpands, StrayServe, StrayDeliver, StrayBeside
       DEF Next, Tools
<1>2. Inv /\ StrayInv => FrameFollowsTarget
  BY Numbers DEF StrayInv, Accounted, FrameFollowsTarget
<1> QED
  BY <1>1, <1>2, StrayInit, Always, PTL DEF Spec

------------------------------------------------------------------------------
(* The budget of requests.                                                  *)

\* The request that is out, if there is one.
Out(x) == IF x.asking = NoItem THEN 0 ELSE 1

\* Every answer, and every wait given up, was for another request of the expansion; no
\* wait of the call was given up before the expansion began.
BudgetInv ==
    /\ pc = "expand" =>
          /\ IsFiniteSet(DOMAIN answers)
          /\ Cardinality(DOMAIN answers) + Out(out) <= out.requests
          /\ unawaited + Out(out) <= out.requests
    /\ pc \notin {"expand", "idle", "closed"} => unawaited = 0

LEMMA BudgetInit == Init => BudgetInv
  BY DEF Init, BudgetInv

\* An expansion begins with no answer and no request.
LEMMA BudgetBegins ==
    ASSUME BudgetInv, pc \in {"evaluate", "scopes"}, unawaited' = unawaited,
           NEW size, NEW roots, Expands(size, roots)
    PROVE  BudgetInv'
<1>1. pc' = "expand" /\ out' = Expansion(size, roots) /\ answers' = <<>>
  BY DEF Expands, NoAnswers
<1>2. DOMAIN answers' = {}
  BY <1>1
<1>3. out'.asking = NoItem /\ out'.requests = 0
  BY <1>1 DEF Expansion
<1> QED
  BY <1>1, <1>2, <1>3, FS_EmptySet DEF BudgetInv, Out

\* The step between two requests takes one from the budget or none.
LEMMA BudgetExpand ==
    ASSUME Inv, BudgetInv, Expand
    PROVE  BudgetInv'
<1>1. /\ pc = "expand" /\ out.work # <<>> /\ out.asking = NoItem /\ out' = ExpandNext(out)
      /\ UNCHANGED <<pc, answers, unawaited>>
  BY DEF Expand
<1>2. out'.requests = out.requests + Out(out')
  BY <1>1, ExpandNextAsks, Found DEF Asks, Out
<1>3. Out(out) = 0 /\ Out(out') \in {0, 1}
  BY <1>1 DEF Out
<1>4. out.requests \in Nat /\ unawaited \in Nat
  BY <1>1, BudgetAssumption DEF BudgetAssumption, Inv, TypeInv, TypeOK
<1>5. IsFiniteSet(DOMAIN answers) /\ Cardinality(DOMAIN answers) \in Nat
  BY <1>1, FS_CardinalityType DEF BudgetInv
<1> QED
  BY <1>1, <1>2, <1>3, <1>4, <1>5 DEF BudgetInv

\* An answer, or its absence, is counted against the request that was out.
LEMMA BudgetListing ==
    ASSUME Inv, BudgetInv, pc = "expand", out.asking # NoItem,
           NEW ok \in BOOLEAN, NEW refs, ok => refs \in Seq(Nat), Listing(ok, refs),
           unawaited' \in {unawaited, unawaited + 1}
    PROVE  BudgetInv'
<1>1. /\ pc' = "expand" /\ out' = IF ok THEN Answered(out, refs) ELSE Unanswered(out)
      /\ DOMAIN answers' = DOMAIN answers \union {out.asking.name}
  BY DEF Listing
<1>3. out'.asking = NoItem /\ out'.requests = out.requests
  BY <1>1, Found, AnsweredResumes, UnansweredResumes DEF Resumes
<1>4. Out(out) = 1 /\ Out(out') = 0
  BY <1>3 DEF Out
<1>5. out.requests \in Nat /\ unawaited \in Nat
  BY BudgetAssumption DEF BudgetAssumption, Inv, TypeInv, TypeOK
<1>6. /\ IsFiniteSet(DOMAIN answers) /\ Cardinality(DOMAIN answers) \in Nat
      /\ Cardinality(DOMAIN answers) + 1 <= out.requests /\ unawaited + 1 <= out.requests
  BY <1>4, FS_CardinalityType DEF BudgetInv
<1>7. /\ IsFiniteSet(DOMAIN answers')
      /\ \/ Cardinality(DOMAIN answers') = Cardinality(DOMAIN answers)
         \/ Cardinality(DOMAIN answers') = Cardinality(DOMAIN answers) + 1
  <2> DEFINE asked == DOMAIN answers
             name  == out.asking.name
  <2>1. IsFiniteSet(asked)
    BY <1>6
  <2>2. DOMAIN answers' = asked \union {name}
    BY <1>1
  <2> HIDE DEF asked, name
  <2>3. /\ IsFiniteSet(asked \union {name})
        /\ Cardinality(asked \union {name}) =
              IF name \in asked THEN Cardinality(asked) ELSE Cardinality(asked) + 1
    BY <2>1, FS_AddElement, Zenon
  <2>4. \/ Cardinality(asked \union {name}) = Cardinality(asked)
        \/ Cardinality(asked \union {name}) = Cardinality(asked) + 1
    BY <2>3
  <2> QED
    BY <2>2, <2>3, <2>4 DEF asked
<1> DEFINE c == Cardinality(DOMAIN answers)
           d == Cardinality(DOMAIN answers')
<1>8. c \in Nat /\ c + 1 <= out.requests /\ (d = c \/ d = c + 1)
  BY <1>6, <1>7
<1> HIDE DEF c, d
<1>9. d + 0 <= out.requests
  BY <1>5, <1>8
<1>10. unawaited' + 0 <= out.requests
  BY <1>5, <1>6
<1> USE DEF d
<1> QED
  BY <1>1, <1>3, <1>4, <1>7, <1>9, <1>10 DEF BudgetInv

LEMMA BudgetStep == Inv /\ BudgetInv /\ [Next]_vars => BudgetInv'
<1> SUFFICES ASSUME Inv, BudgetInv, [Next]_vars PROVE BudgetInv'
  OBVIOUS
<1>1. CASE \/ \E explicit \in BOOLEAN : Evaluate(explicit)
           \/ \E frame \in {NoFrame, Explicit} : Context(frame)
           \/ \E full \in BOOLEAN : Execute(full)
  <2>1. pc' # "expand" /\ unawaited' = 0
    BY <1>1 DEF Evaluate, Context, Execute, Begins
  <2> QED
    BY <2>1 DEF BudgetInv
<1>2. CASE WaitFails
  <2>1. pc' = "idle"
    BY <1>2 DEF WaitFails, Ends, Return
  <2> QED
    BY <2>1 DEF BudgetInv
<1>3. CASE ErrorTaken \/ ResponseTaken \/ StopTaken \/ StackTaken \/ ThreadsTaken
  <2>1. pc \notin {"expand", "idle", "closed"} /\ pc' # "expand" /\ unawaited' = unawaited
    BY <1>3 DEF ErrorTaken, ResponseTaken, StopTaken, StackTaken, ThreadsTaken, Take, Waiting,
       Ends, Return, StackFails, ReportStop
  <2> QED
    BY <2>1 DEF BudgetInv
<1>4. CASE EvaluateTaken \/ ScopesTaken
  <2>1. pc \in {"evaluate", "scopes"} /\ unawaited' = unawaited
    BY <1>4 DEF EvaluateTaken, ScopesTaken, Take
  <2>2. pc' = "idle" \/ \E size, roots : Expands(size, roots)
    BY <1>4 DEF EvaluateTaken, ScopesTaken, Ends, Return
  <2>3. CASE pc' = "idle"
    BY <2>3 DEF BudgetInv
  <2> QED
    BY <2>1, <2>2, <2>3, BudgetBegins
<1>5. CASE Expand
  BY <1>5, BudgetExpand
<1>6. CASE VariablesTaken
  <2>1. PICK reply \in {inbox[i] : i \in 1..Len(inbox)} : Take(reply) /\ Listing(reply.ok, reply.refs)
    BY <1>6 DEF VariablesTaken
  <2>2. /\ inbox # <<>> /\ pc = "expand" /\ out.asking # NoItem /\ unawaited' = unawaited
    BY <1>6, <2>1 DEF Take, Waiting, VariablesTaken
  <2>3. reply.ok => reply.refs \in Seq(Nat)
    BY <2>1, <2>2, InboxFacts, InspectionAssumption DEF Answering, Listable, InspectionAssumption
  <2>4. reply.ok \in BOOLEAN
    BY <2>1, <2>2, InboxFacts DEF Answers
  <2> QED
    BY <2>1, <2>2, <2>3, <2>4, BudgetListing
<1>7. CASE VariablesUnavailable
  <2>1. /\ pc = "expand" /\ out.asking # NoItem /\ unawaited' = unawaited + 1
        /\ Listing(FALSE, <<>>)
    BY <1>7 DEF VariablesUnavailable, GiveUp, Waiting
  <2> QED
    BY <2>1, BudgetListing
<1>8. CASE Expanded \/ CleanUp
  <2>1. pc' \in {"idle", "closed"}
    BY <1>8 DEF Expanded, Ends, Return, CleanUp
  <2> QED
    BY <2>1 DEF BudgetInv
<1>9. CASE \/ Deliver \/ Cancel \/ Resume \/ Lose \/ Serve \/ TargetStops \/ Invalidates
           \/ UNCHANGED vars
  <2>1. UNCHANGED <<pc, out, answers, unawaited>>
    BY <1>9 DEF Deliver, Cancel, Resume, Lose, Serve, TargetStops, Invalidates, Elsewhere,
       expandVars, vars
  <2> QED
    BY <2>1 DEF BudgetInv
<1> QED
  BY <1>1, <1>2, <1>3, <1>4, <1>5, <1>6, <1>7, <1>8, <1>9 DEF Next, Tools

\* However the answers nest, a call asks for at most MaxRequests lists, and gives up at
\* most as many waits.
THEOREM AsksWithinBudget == Spec => []RequestsBounded
<1>1. Inv /\ BudgetInv => RequestsBounded
  <2> SUFFICES ASSUME Inv, BudgetInv, pc = "expand"
               PROVE  Cardinality(DOMAIN answers) <= MaxRequests /\ unawaited <= MaxRequests
    BY DEF RequestsBounded
  <2>1. out.requests \in 0..MaxRequests /\ unawaited \in Nat /\ MaxRequests \in Nat
    BY BudgetAssumption DEF BudgetAssumption, Inv, TypeInv, TypeOK
  <2>2. Cardinality(DOMAIN answers) \in Nat /\ Out(out) \in {0, 1}
    BY FS_CardinalityType DEF BudgetInv, Out
  <2> QED
    BY <2>1, <2>2 DEF BudgetInv
<1> QED
  BY <1>1, BudgetInit, BudgetStep, Always, PTL DEF Spec
==============================================================================
