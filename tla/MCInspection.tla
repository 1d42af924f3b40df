---- MODULE MCInspection ----
EXTENDS VariableTree

\* No children, a leaf and a subtree, more than one variable shows.
MCReplies == {<<>>, <<0, 1>>, <<2, 1, 0>>}

Scope(kind, ref) == [kind |-> kind, ref |-> ref]
MCScopeReplies == {<<>>, <<Scope("registers", 1), Scope("scope", 0)>>,
                   <<Scope("scope", 1), Scope("scope", 2), Scope("scope", 1)>>}

\* A short text, one that leaves room for part of a line, one that leaves none.
MCHeaders == {1, 6, 14}
====
