------------------------------ MODULE VariableTree ------------------------------
(***************************************************************************)
(* What an expansion should show: the lines of the whole tree of what was  *)
(* answered, without a budget, and their order.  An entry of the tree is   *)
(* named by the positions that lead to it; answers[n] is what the request  *)
(* for the variables below n came back with, if there was one.             *)
(***************************************************************************)
EXTENDS Inspection

IsVariable(n) == Len(n) > 1 \/ call.roots[n[1]].kind = "variable"

Ref(n) == IF Len(n) = 1 THEN call.roots[n[1]].ref ELSE answers[Front(n)].refs[Last(n)]

\* The references of the variables that n is below.
Above(n) ==
    {Ref(SubSeq(n, 1, k)) : k \in {k \in 1..(Len(n) - 1) : IsVariable(SubSeq(n, 1, k))}}

Cyclic(n) == IsVariable(n) /\ Ref(n) \in Above(n)

\* A variable that is on its own path has no variables below it.
Entries ==
    {<<i>> : i \in {i \in 1..Len(call.roots) : call.roots[i].kind # "registers"}} \union
    UNION {{Append(n, i) : i \in 1..Len(answers[n].refs)} :
              n \in {m \in DOMAIN answers : Ref(m) # 0 /\ ~Cyclic(m)}}

Heading(n) == Line(IF IsVariable(n) THEN "variable" ELSE "scope", n)

\* What is said in place of the variables below n.
Remarks(n) ==
    CASE Ref(n) = 0                                -> {}
      [] Ref(n) # 0 /\ Cyclic(n)                   -> {Line("cycle", n)}
      [] Ref(n) # 0 /\ ~Cyclic(n) /\ n \notin DOMAIN answers -> {Line("unasked", n)}
      [] OTHER -> IF answers[n].ok THEN {} ELSE {Line("unable", n)}

Due == UNION {{Heading(n)} \union Remarks(n) : n \in Entries}

\* A remark stands where the first of the variables would.
Place(line) ==
    IF line.kind \in {"scope", "variable"} THEN line.name ELSE Append(line.name, 0)

LeftOf(m, n) ==
    \E k \in 1..Len(m) : k <= Len(n) /\ m[k] < n[k] /\ \A j \in 1..(k - 1) : m[j] = n[j]

LeadsTo(m, n) == Len(m) < Len(n) /\ \A j \in 1..Len(m) : m[j] = n[j]

Before(m, n) == LeftOf(m, n) \/ LeadsTo(m, n)

\* The lines written in full.
Full(x) == {i \in 1..Len(x.text) : x.text[i].kind \notin {"cut", "marker"}}

\* Nothing but a truncation keeps part of the tree from the reader, and then all that
\* comes after.  It is marked, unless the output is full: the line before may be cut.
ShowsAllOrTruncates(x) ==
    LET full  == Full(x)
        written == {x.text[i] : i \in full}
    IN  /\ written \subseteq Due
        /\ \A i, j \in full : i < j => Before(Place(x.text[i]), Place(x.text[j]))
        /\ \A line \in Due \ written :
              x.truncated /\ \A above \in written : Before(Place(above), Place(line))
        /\ x.truncated => x.size >= MaxOutput \/ Last(x.text).kind = "marker"

\* A context or an evaluate shows the whole tree of what was answered, in order, with a
\* cycle marked where a variable is below itself and nowhere else, or it is truncated and
\* says so while there is room; nothing follows the truncation
\* (tools_inspection.go:449-479 and 547-602).
WholeOrTruncated ==
    pc = "expand" /\ Finished(out) => ShowsAllOrTruncates(out)
==============================================================================
