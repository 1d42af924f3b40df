--------------------------- MODULE VariableExpansion ---------------------------
(***************************************************************************)
(* The recursive expansion of scopes and variables in tools_inspection.go, *)
(* with its budgets.  The recursion is a work list: its head is what the   *)
(* code does next, its tail what the callers do once that has returned.    *)
(* The state of one expansion is a record, and each step an operator on it. *)
(*                                                                         *)
(* The text is a sequence of lines, each known by its kind and by the path *)
(* of positions that leads to the variable; bytes are counted in units.    *)
(***************************************************************************)
EXTENDS Naturals, Sequences, SequencesExt

CONSTANTS MaxDepth,     \* maxVariableExpansionDepth
          MaxNodes,     \* maxExpandedVariables
          MaxRequests,  \* maxVariableRequests
          MaxOutput,    \* maxVariableOutputBytes, in units
          MaxChildren   \* maxChildrenPerVariable

ASSUME BudgetAssumption ==
    {MaxDepth, MaxNodes, MaxRequests, MaxOutput, MaxChildren} \subseteq Nat

Line(kind, name) == [kind |-> kind, name |-> name]

\* A variable's line is wide enough to be cut by the output limit.
Width(line) == IF line.kind = "variable" THEN 2 ELSE 1

\* An entry of the work list; ref 0 is a variable without children.
Item(kind, name, ref, depth) == [kind |-> kind, name |-> name, ref |-> ref, depth |-> depth]
NoItem == Item("none", <<>>, 0, 0)

\* An expansion that continues a text of the given size.
Expansion(size, work) ==
    [work |-> work, asking |-> NoItem, path |-> {}, nodes |-> 0, requests |-> 0,
     truncated |-> FALSE, text |-> <<>>, size |-> size]

Finished(x) == x.work = <<>> /\ x.asking = NoItem

------------------------------------------------------------------------------
(* variableBudget.                                                          *)

\* WriteString: no budget is looked at.
Put(x, line) == [x EXCEPT !.text = Append(@, line), !.size = @ + Width(line)]

\* Fault: the scopes that are left still get their headings.
ScopesGoOn(work) == SelectSeq(work, LAMBDA item : item.kind = "scope")

\* A truncated expansion returns through all its callers.
AfterTruncation(work) == <<>>

\* The marker is written if a byte is left for it.
Truncate(x) ==
    LET marked == IF x.size < MaxOutput THEN Put(x, Line("marker", <<>>)) ELSE x
    IN  [marked EXCEPT !.truncated = TRUE, !.work = AfterTruncation(@)]

\* A line that does not fit is cut at the limit.
Cut(x, line) ==
    [x EXCEPT !.text = Append(@, Line("cut", line.name)), !.size = MaxOutput]

\* variableBudget.write.
Write(x, line) ==
    CASE x.size >= MaxOutput              -> Truncate(x)
      [] x.size < MaxOutput /\ Width(line) > MaxOutput - x.size -> Truncate(Cut(x, line))
      [] OTHER                            -> Put(x, line)

\* Fault: the requests for a scope are not counted.
OnlyVariables(x, item) == IF item.kind = "scope" THEN x.requests ELSE x.requests + 1
Taken(x, item) == x.requests + 1

\* Fault: one request more is allowed.
OffByOne(x)  == x.requests > MaxRequests
Exhausted(x) == x.requests >= MaxRequests

\* takeRequest, and the request it allows.
TakeRequest(x, item) ==
    IF Exhausted(x) THEN Truncate(x)
    ELSE [x EXCEPT !.requests = Taken(x, item), !.asking = item]

------------------------------------------------------------------------------
(* writeScopesAndVariables and writeVariableBudgeted, up to a request.      *)

WriteScope(x, s) ==
    LET headed == Put(x, Line("scope", s.name))
    IN  IF s.ref = 0 THEN headed ELSE TakeRequest(headed, s)

\* Below the line: the children, unless the variable is too deep or on its own path.
Descend(x, v) ==
    CASE v.depth >= MaxDepth -> Truncate(x)
      [] v.depth < MaxDepth /\ v.ref \in x.path -> Write(x, Line("cycle", v.name))
      [] OTHER -> TakeRequest(x, v)

WriteVariable(x, v) ==
    IF x.nodes >= MaxNodes THEN Truncate(x)
    ELSE LET written == Write([x EXCEPT !.nodes = @ + 1], Line("variable", v.name))
         IN  IF written.truncated \/ v.ref = 0 THEN written ELSE Descend(written, v)

\* Fault: a variable stays on the path when its expansion returns.
StaysOnPath(x, v) == x
LeavePath(x, v) == [x EXCEPT !.path = @ \ {v.ref}]

\* The next step of the recursion.  "leave" is the deferred delete from the path, "more"
\* the children above the limit, "registers" the scope that is passed over.
ExpandNext(x) ==
    LET item == Head(x.work)
        rest == [x EXCEPT !.work = Tail(@)]
    IN  CASE item.kind = "registers" -> rest
          [] item.kind = "scope"     -> WriteScope(rest, item)
          [] item.kind = "variable"  -> WriteVariable(rest, item)
          [] item.kind = "leave"     -> LeavePath(rest, item)
          [] item.kind = "more"      -> Truncate(rest)

------------------------------------------------------------------------------
(* The answers.                                                             *)

\* The variables an answer lists, given by their references.
Listed(name, refs, depth) ==
    [i \in 1..Len(refs) |-> Item("variable", Append(name, i), refs[i], depth)]

\* That the request of a scope failed is written without a look at the budget.
Unanswered(x) ==
    LET item == x.asking
        line == Line("unable", item.name)
        done == [x EXCEPT !.asking = NoItem]
    IN  IF item.kind = "scope" THEN Put(done, line) ELSE Write(done, line)

\* All the variables of a scope, but only the first children of a variable.
Answered(x, refs) ==
    LET item  == x.asking
        done  == [x EXCEPT !.asking = NoItem]
        shown == SubSeq(refs, 1, IF Len(refs) < MaxChildren THEN Len(refs) ELSE MaxChildren)
        more  == IF Len(refs) > Len(shown) THEN <<Item("more", item.name, 0, 0)>> ELSE <<>>
    IN  IF item.kind = "scope"
        THEN [done EXCEPT !.work = Listed(item.name, refs, 0) \o @]
        ELSE [done EXCEPT !.path = @ \union {item.ref},
                          !.work = Listed(item.name, shown, item.depth + 1) \o more
                                   \o <<Item("leave", item.name, item.ref, 0)>> \o @]
==============================================================================
