--------------------------- MODULE VariableTreeProofs ---------------------------
(***************************************************************************)
(* The expansion shows the tree of what was answered, whatever is listed   *)
(* and whatever the budgets are.                                           *)
(*                                                                         *)
(* The work of an expansion stands for the part of the tree that has not   *)
(* been written: its items are entries, in the order of the tree, and each *)
(* line that is due but not written is left to one of them, is about to be *)
(* written, or comes after the truncation.  An answer adds entries to the  *)
(* tree and, in their place, items to the work.                            *)
(***************************************************************************)
EXTENDS InspectionProofs, VariableTree

------------------------------------------------------------------------------
(* The order of the entries.                                                *)

\* A position below n.
LEMMA AppendFacts ==
    ASSUME NEW n \in Seq(Nat), NEW i \in Nat
    PROVE  /\ Append(n, i) \in Seq(Nat) /\ Append(n, i) # <<>>
           /\ Len(n) \in Nat /\ Len(Append(n, i)) = Len(n) + 1
           /\ \A j \in 1..Len(n) : Append(n, i)[j] = n[j] /\ n[j] \in Nat
           /\ Append(n, i)[Len(n) + 1] = i
<1>1. Len(n) \in Nat /\ \A j \in 1..Len(n) : n[j] \in Nat
  BY LenProperties, ElementOfSeq
<1> QED
  BY <1>1, AppendProperties

\* What is below the left one of two is left of what is below the other.
LEMMA LeftOfBelow ==
    ASSUME NEW m \in Seq(Nat), NEW n \in Seq(Nat), NEW i \in Nat, LeftOf(m, n)
    PROVE  LeftOf(Append(m, i), n) /\ LeftOf(m, Append(n, i))
<1>1. PICK k \in 1..Len(m) : k <= Len(n) /\ m[k] < n[k] /\ \A j \in 1..(k - 1) : m[j] = n[j]
  BY DEF LeftOf
<1> DEFINE a == Append(m, i)
           b == Append(n, i)
<1>2. /\ Len(m) \in Nat /\ Len(a) = Len(m) + 1 /\ \A j \in 1..Len(m) : a[j] = m[j]
      /\ Len(n) \in Nat /\ Len(b) = Len(n) + 1 /\ \A j \in 1..Len(n) : b[j] = n[j]
  BY AppendFacts
<1> HIDE DEF a, b
<1>3. k \in 1..Len(a) /\ k <= Len(b) /\ a[k] = m[k] /\ b[k] = n[k]
  BY <1>1, <1>2
<1>4. \A j \in 1..(k - 1) : a[j] = m[j] /\ b[j] = n[j]
  BY <1>1, <1>2
<1>5. LeftOf(a, n)
  BY <1>1, <1>3, <1>4 DEF LeftOf
<1>6. LeftOf(m, b)
  BY <1>1, <1>3, <1>4 DEF LeftOf
<1> QED
  BY <1>5, <1>6 DEF a, b

\* No name is left of itself.
LEMMA Apart == ASSUME NEW n \in Seq(Nat) PROVE ~LeftOf(n, n)
<1>1. \A j \in 1..Len(n) : n[j] \in Nat
  BY ElementOfSeq, LenProperties
<1> QED
  BY <1>1 DEF LeftOf

\* A name comes before those below it, and what comes before it does too.
LEMMA BeforeBelow ==
    ASSUME NEW m \in Seq(Nat), NEW n \in Seq(Nat), NEW i \in Nat
    PROVE  Before(n, Append(n, i)) /\ (Before(m, n) => Before(m, Append(n, i)))
<1> DEFINE b == Append(n, i)
<1>1. Len(n) \in Nat /\ Len(b) = Len(n) + 1 /\ \A j \in 1..Len(n) : b[j] = n[j]
  BY AppendFacts
<1>2. Len(m) \in Nat
  BY LenProperties
<1>3. LeftOf(m, n) => LeftOf(m, b)
  BY LeftOfBelow
<1> HIDE DEF b
<1>4. LeadsTo(n, b)
  BY <1>1 DEF LeadsTo
<1>5. LeadsTo(m, n) => LeadsTo(m, b)
  BY <1>1, <1>2 DEF LeadsTo
<1> QED
  BY <1>3, <1>4, <1>5 DEF Before, b

\* The names directly below n come in the order of their positions.
LEMMA Siblings ==
    ASSUME NEW m \in Seq(Nat), NEW n \in Seq(Nat), NEW i \in Nat, NEW j \in Nat
    PROVE  /\ i < j => LeftOf(Append(n, i), Append(n, j))
           /\ i <= j /\ Before(m, Append(n, i)) => Before(m, Append(n, j))
<1> DEFINE a == Append(n, i)
           b == Append(n, j)
<1>1. /\ Len(n) \in Nat /\ Len(m) \in Nat
      /\ Len(a) = Len(n) + 1 /\ \A k \in 1..Len(n) : a[k] = n[k]
      /\ Len(b) = Len(n) + 1 /\ \A k \in 1..Len(n) : b[k] = n[k]
      /\ a[Len(n) + 1] = i /\ b[Len(n) + 1] = j
      /\ \A k \in 1..Len(m) : m[k] \in Nat
  BY AppendFacts, LenProperties, ElementOfSeq
<1> HIDE DEF a, b
<1>2. i < j => LeftOf(a, b)
  <2> SUFFICES ASSUME i < j PROVE LeftOf(a, b)
    OBVIOUS
  <2>1. Len(n) + 1 \in 1..Len(a) /\ Len(n) + 1 <= Len(b)
    BY <1>1
  <2>2. \A k \in 1..((Len(n) + 1) - 1) : a[k] = b[k]
    BY <1>1
  <2>3. a[Len(n) + 1] < b[Len(n) + 1]
    BY <1>1
  <2> QED
    BY <2>1, <2>2, <2>3 DEF LeftOf
<1>3. ASSUME i <= j, LeftOf(m, a) PROVE LeftOf(m, b)
  <2>1. PICK k \in 1..Len(m) : k <= Len(a) /\ m[k] < a[k] /\ \A l \in 1..(k - 1) : m[l] = a[l]
    BY <1>3 DEF LeftOf
  <2>2. m[k] < b[k]
    <3>1. CASE k <= Len(n)
      BY <1>1, <2>1, <3>1
    <3>2. CASE k = Len(n) + 1
      BY <1>1, <1>3, <2>1, <3>2
    <3> QED
      BY <1>1, <2>1, <3>1, <3>2
  <2>3. ASSUME NEW l \in 1..(k - 1) PROVE m[l] = b[l]
    <3>1. l \in 1..Len(n) /\ m[l] = a[l]
      BY <1>1, <2>1
    <3> QED
      BY <1>1, <3>1
  <2>4. k <= Len(b)
    BY <1>1, <2>1
  <2> QED
    BY <2>1, <2>2, <2>3, <2>4 DEF LeftOf
<1>4. ASSUME LeadsTo(m, a) PROVE LeadsTo(m, b)
  <2>1. Len(m) < Len(a) /\ \A k \in 1..Len(m) : m[k] = a[k]
    BY <1>4 DEF LeadsTo
  <2>2. \A k \in 1..Len(m) : k \in 1..Len(n)
    BY <1>1, <2>1
  <2> QED
    BY <1>1, <2>1, <2>2 DEF LeadsTo
<1> QED
  BY <1>2, <1>3, <1>4 DEF Before, a, b

------------------------------------------------------------------------------
(* What a text shows of the lines that are due.                             *)

Dues  == [kind : {"scope", "variable", "cycle", "unable", "unasked"}, name : Seq(Nat)]
Texts == [kind : {"scope", "variable", "cycle", "unable", "cut", "marker"}, name : Seq(Nat)]

\* The lines of the tree that have been written.
Written(x) == {x.text[i] : i \in Full(x)}

\* Where the next line of an item may stand.
Spot(item) == IF item.kind = "more" THEN Append(item.name, MaxChildren + 1) ELSE item.name

\* Names and places are sequences of positions.
LEMMA PlaceFacts ==
    ASSUME NEW line, line \in Dues \/ line \in Texts
    PROVE  /\ line.name \in Seq(Nat) /\ Place(line) \in Seq(Nat)
           /\ Place(line) = line.name \/ Place(line) = Append(line.name, 0)
<1>1. line.name \in Seq(Nat)
  BY DEF Dues, Texts
<1> QED
  BY <1>1, AppendFacts DEF Place

\* So are the spots of the items.
LEMMA SpotFacts ==
    ASSUME NEW item \in Entry
    PROVE  item.name \in Seq(Nat) /\ Spot(item) \in Seq(Nat) /\ MaxChildren + 1 \in Nat
<1>1. item.name \in Seq(Nat) /\ MaxChildren + 1 \in Nat
  BY BudgetAssumption DEF Entry, BudgetAssumption
<1> QED
  BY <1>1, AppendFacts DEF Spot

\* All that is written stands before p, and p stands before what is to be done.
Past(x, p) == \A line \in Written(x) : Before(Place(line), p)
Ahead(x, p) == \A i \in 1..Len(x.work) : x.work[i].kind # "leave" => Before(p, Spot(x.work[i]))

\* What is written stands in the order of the tree.
Sorted(x) == \A i, j \in Full(x) : i < j => Before(Place(x.text[i]), Place(x.text[j]))

\* The line is left to an item of the work.
LeftTo(x, line) ==
    \E i \in 1..Len(x.work) :
        \/ x.work[i].kind \in {"scope", "variable"} /\ line.name = x.work[i].name
        \/ /\ x.work[i].kind = "more"
           /\ \E j \in Nat : j > MaxChildren /\ line.name = Append(x.work[i].name, j)

\* Nothing is missing but what is about to be written, what is left to the work and,
\* after a truncation, what comes after all that is written.
Good(x, next, due) ==
    /\ Expanding(x) /\ x.text \in Seq(Texts) /\ x.size \in Nat
    /\ due \subseteq Dues /\ next \subseteq due /\ Written(x) \subseteq due
    /\ Sorted(x)
    /\ \A line \in Written(x) : Ahead(x, Place(line))
    /\ \A line \in next : Past(x, Place(line)) /\ Ahead(x, Place(line))
    /\ \A line \in due \ Written(x) :
          IF x.truncated THEN Past(x, Place(line)) ELSE line \in next \/ LeftTo(x, line)
    /\ x.truncated =>
          /\ x.work = <<>> /\ x.asking = NoItem
          /\ x.size >= MaxOutput \/ Last(x.text).kind = "marker"

\* What is left to the work comes after all that is written.
LEMMA LeftPast ==
    ASSUME NEW x, NEW next, NEW due, Good(x, next, due), NEW line \in Dues, LeftTo(x, line)
    PROVE  Past(x, Place(line))
<1> SUFFICES ASSUME NEW w \in Written(x) PROVE Before(Place(w), Place(line))
  BY DEF Past
<1>1. Ahead(x, Place(w)) /\ w \in Dues
  BY DEF Good
<1>2. PICK i \in 1..Len(x.work) :
        \/ x.work[i].kind \in {"scope", "variable"} /\ line.name = x.work[i].name
        \/ /\ x.work[i].kind = "more"
           /\ \E j \in Nat : j > MaxChildren /\ line.name = Append(x.work[i].name, j)
  BY DEF LeftTo
<1>3. x.work[i] \in Entry
  BY ElementOfSeq DEF Good, Expanding
<1>4. Before(Place(w), Spot(x.work[i]))
  BY <1>1, <1>2 DEF Ahead
<1>5. Place(w) \in Seq(Nat) /\ line.name \in Seq(Nat)
  BY <1>1, PlaceFacts
<1>6. Before(Place(w), line.name)
  <2>1. CASE x.work[i].kind \in {"scope", "variable"} /\ line.name = x.work[i].name
    BY <1>4, <2>1 DEF Spot
  <2>2. CASE /\ x.work[i].kind = "more"
             /\ \E j \in Nat : j > MaxChildren /\ line.name = Append(x.work[i].name, j)
    <3>1. PICK j \in Nat : j > MaxChildren /\ line.name = Append(x.work[i].name, j)
      BY <2>2
    <3>2. MaxChildren + 1 \in Nat /\ MaxChildren + 1 <= j
      BY <3>1, BudgetAssumption DEF BudgetAssumption
    <3> QED
      BY <1>3, <1>4, <1>5, <2>2, <3>1, <3>2, SpotFacts, Siblings DEF Spot
  <2> QED
    BY <1>2, <2>1, <2>2
<1> QED
  BY <1>5, <1>6, PlaceFacts, BeforeBelow

\* A line after those that are written.
LEMMA OneMore ==
    ASSUME NEW x, NEW y, x.text \in Seq(Texts), NEW line \in Texts,
           y.text = Append(x.text, line)
    PROVE  /\ y.text \in Seq(Texts) /\ Last(y.text) = line
           /\ Written(y) =
                 IF line.kind \in {"cut", "marker"} THEN Written(x) ELSE Written(x) \union {line}
           /\ Sorted(x) /\ (line.kind \in {"cut", "marker"} \/ Past(x, Place(line))) => Sorted(y)
<1> DEFINE s == x.text
           t == y.text
<1>1. Len(s) \in Nat /\ \A i \in 1..Len(s) : s[i] \in Texts
  BY LenProperties, ElementOfSeq
<1>2. /\ t \in Seq(Texts) /\ Len(t) = Len(s) + 1
      /\ t[Len(s) + 1] = line /\ \A i \in 1..Len(s) : t[i] = s[i]
  BY <1>1, AppendProperties
<1>3. Last(t) = line
  BY <1>2 DEF Last
<1> HIDE DEF s, t
<1>4. Full(x) = {i \in 1..Len(s) : s[i].kind \notin {"cut", "marker"}}
  BY DEF Full, s
<1>5. Full(y) = {i \in 1..Len(t) : t[i].kind \notin {"cut", "marker"}}
  BY DEF Full, t
<1>6. /\ \A i \in Full(x) : i \in Full(y) /\ t[i] = s[i] /\ i < Len(s) + 1
      /\ \A i \in Full(y) : i \in Full(x) \/ (i = Len(s) + 1 /\ t[i] = line)
      /\ Len(s) + 1 \in Full(y) <=> line.kind \notin {"cut", "marker"}
  BY <1>1, <1>2, <1>4, <1>5
<1>7. Written(x) = {s[i] : i \in Full(x)} /\ Written(y) = {t[i] : i \in Full(y)}
  BY DEF Written, s, t
<1>8. Written(y) =
         IF line.kind \in {"cut", "marker"} THEN Written(x) ELSE Written(x) \union {line}
  <2>1. CASE line.kind \in {"cut", "marker"}
    BY <1>2, <1>6, <1>7, <2>1
  <2>2. CASE line.kind \notin {"cut", "marker"}
    <3>1. \A i \in Full(y) : t[i] \in Written(x) \/ t[i] = line
      BY <1>6, <1>7
    <3>2. \A i \in Full(x) : s[i] \in Written(y)
      BY <1>6, <1>7
    <3>3. line \in Written(y)
      BY <1>2, <1>6, <1>7, <2>2
    <3>4. Written(y) \subseteq Written(x) \union {line}
      BY <1>7, <3>1
    <3>5. Written(x) \union {line} \subseteq Written(y)
      BY <1>7, <3>2, <3>3
    <3> QED
      BY <2>2, <3>4, <3>5
  <2> QED
    BY <2>1, <2>2
<1>9. ASSUME Sorted(x), line.kind \in {"cut", "marker"} \/ Past(x, Place(line))
      PROVE  Sorted(y)
  <2> SUFFICES ASSUME NEW i \in Full(y), NEW j \in Full(y), i < j
               PROVE  Before(Place(t[i]), Place(t[j]))
    BY DEF Sorted, t
  <2>1. i \in Full(x) /\ t[i] = s[i]
    BY <1>1, <1>2, <1>5, <1>6
  <2>2. CASE j \in Full(x)
    BY <1>6, <1>9, <2>1, <2>2 DEF Sorted, s
  <2>3. CASE j = Len(s) + 1 /\ t[j] = line
    BY <1>6, <1>7, <1>9, <2>1, <2>3 DEF Past
  <2> QED
    BY <1>6, <2>2, <2>3
<1> QED
  BY <1>2, <1>3, <1>8, <1>9 DEF s, t

\* A line that was about to be written is.
LEMMA PutGood ==
    ASSUME NEW x, NEW next, NEW due, Good(x, next, due), ~x.truncated,
           NEW line \in next, line \in Texts, line.kind \notin {"cut", "marker"},
           \A other \in next \ {line} : Before(Place(line), Place(other))
    PROVE  Good(Put(x, line), next \ {line}, due)
<1> DEFINE y == Put(x, line)
<1>1. Keeps(x, y)
  BY PutKeeps DEF Good
<1>2. /\ y.text = Append(x.text, line) /\ y.work = x.work /\ y.truncated = x.truncated
      /\ y.size \in Nat
  BY DEF Put, Good, Expanding, Fields, Width
<1> HIDE DEF y
<1>3. y.text \in Seq(Texts) /\ Written(y) = Written(x) \union {line} /\ Sorted(y)
  BY <1>2, OneMore DEF Good
<1>4. \A p : Ahead(y, p) <=> Ahead(x, p)
  BY <1>2 DEF Ahead
<1>5. \A l : LeftTo(y, l) <=> LeftTo(x, l)
  BY <1>2 DEF LeftTo
<1>6. ASSUME NEW l \in next \ {line} PROVE Past(y, Place(l))
  BY <1>3 DEF Past, Good
<1> QED
  BY <1>1, <1>2, <1>3, <1>4, <1>5, <1>6 DEF Good, Keeps, y

\* A line cut at the limit adds nothing to what is written.
LEMMA CutGood ==
    ASSUME NEW x, NEW next, NEW due, Good(x, next, due), ~x.truncated, NEW line \in Dues
    PROVE  Good(Cut(x, line), next, due)
<1> DEFINE y == Cut(x, line)
           c == Line("cut", line.name)
<1>1. Keeps(x, y)
  BY DEF Keeps, Good, Expanding, Cut, Fields
<1>2. /\ y.text = Append(x.text, c) /\ y.work = x.work /\ y.truncated = x.truncated
      /\ y.size \in Nat /\ c \in Texts /\ c.kind = "cut"
  BY PlaceFacts, BudgetAssumption DEF Cut, Line, Good, Expanding, Fields, Texts, BudgetAssumption
<1> HIDE DEF y, c
<1>3. y.text \in Seq(Texts) /\ Written(y) = Written(x) /\ Sorted(y)
  <2>1. x.text \in Seq(Texts) /\ Sorted(x) /\ c.kind \in {"cut", "marker"}
    BY <1>2 DEF Good
  <2> QED
    BY <1>2, <2>1, OneMore
<1>4. \A p : (Ahead(y, p) <=> Ahead(x, p)) /\ (Past(y, p) <=> Past(x, p))
  BY <1>2, <1>3 DEF Ahead, Past
<1>5. \A l : LeftTo(y, l) <=> LeftTo(x, l)
  BY <1>2 DEF LeftTo
<1> QED
  BY <1>1, <1>2, <1>3, <1>4, <1>5 DEF Good, Keeps, y

\* What is missing comes after what is written, so nothing else has to.
LEMMA TruncateGood ==
    ASSUME NEW x, NEW next, NEW due, Good(x, next, due), ~x.truncated, x.asking = NoItem
    PROVE  Good(Truncate(x), {}, due) /\ Truncate(x).truncated /\ Truncate(x).work = <<>>
<1> DEFINE y == Truncate(x)
           m == Line("marker", <<>>)
<1>1. Keeps(x, y)
  BY TruncateKeeps DEF Good
<1>2. /\ y.work = <<>> /\ y.truncated /\ m \in Texts /\ m.kind = "marker"
      /\ \/ x.size >= MaxOutput /\ y.text = x.text /\ y.size = x.size
         \/ y.text = Append(x.text, m) /\ y.size \in Nat
  BY EmptySeq, BudgetAssumption DEF Truncate, AfterTruncation, Put, Line, Width, Good, Expanding,
     Fields, Texts, BudgetAssumption
<1> HIDE DEF y, m
<1>3. /\ y.text \in Seq(Texts) /\ Written(y) = Written(x) /\ Sorted(y) /\ y.size \in Nat
      /\ y.size >= MaxOutput \/ Last(y.text).kind = "marker"
  <2>1. CASE x.size >= MaxOutput /\ y.text = x.text /\ y.size = x.size
    BY <2>1 DEF Good, Written, Full, Sorted
  <2>2. CASE y.text = Append(x.text, m) /\ y.size \in Nat
    <3>1. x.text \in Seq(Texts) /\ Sorted(x) /\ m.kind \in {"cut", "marker"}
      BY <1>2 DEF Good
    <3> QED
      BY <1>2, <2>2, <3>1, OneMore
  <2> QED
    BY <1>2, <2>1, <2>2
<1>4. \A p : Ahead(y, p)
  <2>1. 1..Len(y.work) = {}
    BY <1>2
  <2> QED
    BY <2>1 DEF Ahead
<1>5. ASSUME NEW line \in due \ Written(y) PROVE Past(y, Place(line))
  <2>1. line \in next \/ LeftTo(x, line)
    BY <1>3 DEF Good
  <2>2. Past(x, Place(line))
    BY <2>1, LeftPast DEF Good
  <2> QED
    BY <1>3, <2>2 DEF Past
<1> QED
  BY <1>1, <1>2, <1>3, <1>4, <1>5 DEF Good, Keeps, y

\* The line is written, or the expansion is truncated before it or at it.
LEMMA WriteGood ==
    ASSUME NEW x, NEW next, NEW due, Good(x, next, due), ~x.truncated, x.asking = NoItem,
           NEW line \in next, line \in Texts, line.kind \notin {"cut", "marker"},
           \A other \in next \ {line} : Before(Place(line), Place(other))
    PROVE  \/ /\ Write(x, line).truncated /\ Write(x, line).work = <<>>
              /\ Good(Write(x, line), {}, due)
           \/ Write(x, line) = Put(x, line)
<1>1. Write(x, line) \in {Truncate(x), Truncate(Cut(x, line)), Put(x, line)}
  BY DEF Write
<1>2. Good(Cut(x, line), next, due)
  BY CutGood DEF Good
<1>3. ~Cut(x, line).truncated /\ Cut(x, line).asking = NoItem
  BY DEF Cut, Good, Expanding, Fields
<1> QED
  BY <1>1, <1>2, <1>3, TruncateGood

------------------------------------------------------------------------------
(* The work and the path.                                                   *)

\* The items that stand for lines stand in the order of the lines.
Ordered(x) ==
    \A i, j \in 1..Len(x.work) :
        i < j /\ x.work[i].kind # "leave" /\ x.work[j].kind # "leave"
            => LeftOf(Spot(x.work[i]), Spot(x.work[j]))

\* The references that are on the path below the i-th item.
Leaving(x, i) ==
    {x.work[j].ref : j \in {j \in 1..Len(x.work) : j > i /\ x.work[j].kind = "leave"}}

\* An item that stands for the entry of its name, which nothing is known of yet.
Stands(item) ==
    /\ item.name \in Entries /\ item.name \notin DOMAIN answers
    /\ item.ref = Ref(item.name)
    /\ item.kind = Heading(item.name).kind

\* A scope or variable of the work stands for an entry; the references above it are those
\* that will be on the path when its turn comes.
Openings(x) ==
    \A i \in 1..Len(x.work) : x.work[i].kind \in {"scope", "variable"} =>
        Stands(x.work[i]) /\ Above(x.work[i].name) = Leaving(x, i)

\* A reference is on the path once, so that it leaves the path once.
Leaves(x) == \A i \in 1..Len(x.work) : x.work[i].kind = "leave" => x.work[i].ref \notin Leaving(x, i)

\* The path is what the work is still to leave.
WorkInv(x) ==
    /\ Ordered(x) /\ Openings(x) /\ Leaves(x)
    /\ x.truncated \/ x.path = Leaving(x, 0)

\* What has been written when n is asked for, and what is to be done after.
Under(x, n) ==
    /\ \A line \in Written(x) : Place(line) = n \/ Before(Place(line), n)
    /\ \A i \in 1..Len(x.work) : x.work[i].kind # "leave" => LeftOf(n, Spot(x.work[i]))

\* What is asked for are the variables below an entry of which nothing is known.
AskInv(x) ==
    x.asking # NoItem =>
        /\ Stands(x.asking) /\ x.asking.ref # 0 /\ ~Cyclic(x.asking.name)
        /\ Above(x.asking.name) = x.path
        /\ Under(x, x.asking.name)

\* While it is asked for, nothing is said of what is below the entry.
Asked(x) == IF x.asking = NoItem THEN {} ELSE {Line("unasked", x.asking.name)}

\* What an expansion keeps up: all that is due is written, left or asked for, in order.
Shows(x) == Good(x, Asked(x), Due) /\ WorkInv(x) /\ AskInv(x)

\* The work without its first item.
Rest(x) == [x EXCEPT !.work = Tail(@)]

\* The items that are left.
LEMMA RestFacts ==
    ASSUME NEW x, Expanding(x), x.work # <<>>
    PROVE  /\ Expanding(Rest(x)) /\ Head(x.work) = x.work[1] /\ x.work[1] \in Entry
           /\ 1 \in 1..Len(x.work) /\ Len(x.work) \in Nat
           /\ Len(Rest(x).work) = Len(x.work) - 1
           /\ \A i \in 1..Len(Rest(x).work) :
                 i + 1 \in 1..Len(x.work) /\ Rest(x).work[i] = x.work[i + 1]
           /\ \A f \in Fields \ {"work"} : Rest(x)[f] = x[f]
<1>1. x.work \in Seq(Entry) /\ Len(x.work) \in Nat /\ Len(x.work) # 0
  BY EmptySeq DEF Expanding
<1>2. Tail(x.work) \in Seq(Entry) /\ Head(x.work) = x.work[1]
  BY <1>1, HeadTailProperties
<1>3. /\ Len(Tail(x.work)) = Len(x.work) - 1
      /\ \A i \in 1..Len(Tail(x.work)) : Tail(x.work)[i] = x.work[i + 1]
  BY <1>1, HeadTailProperties
<1>4. x.work[1] \in Entry
  BY <1>1, ElementOfSeq
<1>5. /\ Rest(x).work = Tail(x.work) /\ Expanding(Rest(x))
      /\ \A f \in Fields \ {"work"} : Rest(x)[f] = x[f]
  BY <1>2 DEF Rest, Expanding, Fields
<1> QED
  BY <1>1, <1>2, <1>3, <1>4, <1>5

\* What is on the path below an item leaves it later.
LEMMA OnPath ==
    ASSUME NEW x, NEW i, NEW r
    PROVE  r \in Leaving(x, i) <=>
               \E k \in 1..Len(x.work) : k > i /\ x.work[k].kind = "leave" /\ r = x.work[k].ref
  BY DEF Leaving

\* The path that is left.
LEMMA RestLeaving ==
    ASSUME NEW x, Expanding(x), x.work # <<>>
    PROVE  /\ \A i \in Nat : Leaving(Rest(x), i) = Leaving(x, i + 1)
           /\ x.work[1].kind = "leave" => Leaving(x, 0) = Leaving(x, 1) \union {x.work[1].ref}
           /\ x.work[1].kind # "leave" => Leaving(x, 0) = Leaving(x, 1)
<1> DEFINE w == x.work
           t == Rest(x).work
<1>1. /\ Len(w) \in Nat /\ 1 \in 1..Len(w) /\ Len(t) = Len(w) - 1
      /\ \A i \in 1..Len(t) : t[i] = w[i + 1]
  BY RestFacts
<1> HIDE DEF w, t
<1>2. ASSUME NEW i \in Nat PROVE Leaving(Rest(x), i) = Leaving(x, i + 1)
  <2>1. ASSUME NEW r \in Leaving(Rest(x), i) PROVE r \in Leaving(x, i + 1)
    <3>1. PICK j \in 1..Len(t) : j > i /\ t[j].kind = "leave" /\ r = t[j].ref
      BY <2>1, OnPath DEF t
    <3>2. j + 1 \in 1..Len(w) /\ j + 1 > i + 1 /\ t[j] = w[j + 1]
      BY <1>1, <3>1
    <3> QED
      BY <3>1, <3>2, OnPath DEF w
  <2>2. ASSUME NEW r \in Leaving(x, i + 1) PROVE r \in Leaving(Rest(x), i)
    <3>1. PICK j \in 1..Len(w) : j > i + 1 /\ w[j].kind = "leave" /\ r = w[j].ref
      BY <2>2, OnPath DEF w
    <3>2. j - 1 \in 1..Len(t) /\ j - 1 > i /\ w[j] = t[j - 1]
      BY <1>1, <3>1
    <3> QED
      BY <3>1, <3>2, OnPath DEF t
  <2> QED
    BY <2>1, <2>2
<1>3. \A j \in 1..Len(w) : (j > 0 <=> j > 1 \/ j = 1)
  BY <1>1
<1>4. w[1].kind = "leave" => Leaving(x, 0) = Leaving(x, 1) \union {w[1].ref}
  BY <1>1, <1>3 DEF Leaving, w
<1>5. w[1].kind # "leave" => Leaving(x, 0) = Leaving(x, 1)
  BY <1>1, <1>3 DEF Leaving, w
<1> QED
  BY <1>2, <1>4, <1>5 DEF w

\* They keep their order and what they stand for.
LEMMA RestWork ==
    ASSUME NEW x, Expanding(x), x.work # <<>>, WorkInv(x)
    PROVE  Ordered(Rest(x)) /\ Openings(Rest(x)) /\ Leaves(Rest(x))
<1> DEFINE y == Rest(x)
<1>1. /\ Len(x.work) \in Nat
      /\ \A i \in 1..Len(y.work) :
            i \in Nat /\ i + 1 \in 1..Len(x.work) /\ y.work[i] = x.work[i + 1]
  BY RestFacts
<1>2. \A i \in 1..Len(y.work) : Leaving(y, i) = Leaving(x, i + 1)
  BY <1>1, RestLeaving
<1> HIDE DEF y
<1>3. Ordered(y)
  <2> SUFFICES ASSUME NEW i \in 1..Len(y.work), NEW j \in 1..Len(y.work), i < j,
                      y.work[i].kind # "leave", y.work[j].kind # "leave"
               PROVE  LeftOf(Spot(y.work[i]), Spot(y.work[j]))
    BY DEF Ordered
  <2>1. i + 1 < j + 1
    BY <1>1
  <2> QED
    BY <1>1, <2>1 DEF WorkInv, Ordered
<1>4. Openings(y)
  BY <1>1, <1>2 DEF WorkInv, Openings
<1>5. Leaves(y)
  BY <1>1, <1>2 DEF WorkInv, Leaves
<1> QED
  BY <1>3, <1>4, <1>5 DEF y

\* What the first item stood for is to be written next.
LEMMA RestGood ==
    ASSUME NEW x, NEW due, Good(x, {}, due), x.work # <<>>, x.work[1].kind # "more", Ordered(x)
    PROVE  Good(Rest(x), IF x.work[1].kind \in {"scope", "variable"}
                         THEN {line \in due : line.name = x.work[1].name} ELSE {}, due)
<1> DEFINE y == Rest(x)
           h == x.work[1]
           next == IF h.kind \in {"scope", "variable"}
                   THEN {line \in due : line.name = h.name} ELSE {}
<1>1. /\ Expanding(y) /\ h \in Entry /\ 1 \in 1..Len(x.work) /\ Len(x.work) \in Nat
      /\ Len(y.work) = Len(x.work) - 1
      /\ \A i \in 1..Len(y.work) : i + 1 \in 1..Len(x.work) /\ y.work[i] = x.work[i + 1]
  BY RestFacts DEF Good
<1>2. /\ y.text = x.text /\ y.size = x.size /\ y.truncated = x.truncated
      /\ y.asking = x.asking
  BY RestFacts DEF Good, Fields
<1>3. ~x.truncated
  BY DEF Good
<1> HIDE DEF y
<1>4. Written(y) = Written(x) /\ Sorted(y)
  BY <1>2 DEF Written, Full, Sorted, Good
<1>5. \A p : (Past(y, p) <=> Past(x, p)) /\ (Ahead(x, p) => Ahead(y, p))
  BY <1>1, <1>4 DEF Past, Ahead
<1>6. ASSUME NEW line \in next
      PROVE  Past(x, Place(line)) /\ Ahead(y, Place(line))
  <2>1. line \in Dues /\ line.name = h.name /\ h.kind \in {"scope", "variable"} /\ line \in due
    BY DEF Good
  <2>2. LeftTo(x, line)
    BY <1>1, <2>1 DEF LeftTo
  <2>3. Spot(h) = h.name
    BY <2>1 DEF Spot
  <2>4. ASSUME NEW i \in 1..Len(y.work), y.work[i].kind # "leave"
        PROVE  Before(Place(line), Spot(y.work[i]))
    <3>1. y.work[i] = x.work[i + 1] /\ 1 < i + 1 /\ i + 1 \in 1..Len(x.work)
      BY <1>1
    <3>2. LeftOf(h.name, Spot(y.work[i]))
      BY <1>1, <2>1, <2>3, <2>4, <3>1 DEF Ordered
    <3>3. Spot(y.work[i]) \in Seq(Nat) /\ h.name \in Seq(Nat)
      <4>1. y.work[i] \in Entry
        BY <1>1, ElementOfSeq DEF Expanding
      <4> QED
        BY <1>1, <4>1, SpotFacts
    <3>4. LeftOf(Place(line), Spot(y.work[i]))
      BY <2>1, <3>2, <3>3, PlaceFacts, LeftOfBelow
    <3> QED
      BY <3>4 DEF Before
  <2> QED
    BY <2>1, <2>2, <2>4, LeftPast DEF Ahead
<1>7. ASSUME NEW line \in due \ Written(y)
      PROVE  line \in next \/ LeftTo(y, line)
  <2>1. LeftTo(x, line)
    BY <1>3, <1>4 DEF Good
  <2>2. PICK i \in 1..Len(x.work) :
          \/ x.work[i].kind \in {"scope", "variable"} /\ line.name = x.work[i].name
          \/ /\ x.work[i].kind = "more"
             /\ \E j \in Nat : j > MaxChildren /\ line.name = Append(x.work[i].name, j)
    BY <2>1 DEF LeftTo
  <2>3. CASE i = 1
    BY <2>2, <2>3
  <2>4. CASE i # 1
    <3>1. i - 1 \in 1..Len(y.work) /\ y.work[i - 1] = x.work[(i - 1) + 1] /\ (i - 1) + 1 = i
      BY <1>1, <2>4
    <3>2. y.work[i - 1] = x.work[i]
      BY <3>1
    <3> QED
      BY <2>2, <3>1, <3>2 DEF LeftTo
  <2> QED
    BY <2>3, <2>4
<1>8. next \subseteq due
  OBVIOUS
<1> HIDE DEF next
<1>9. Good(y, next, due)
  BY <1>1, <1>2, <1>3, <1>4, <1>5, <1>6, <1>7, <1>8 DEF Good
<1> QED
  BY <1>9 DEF y, next

\* A truncation drops the work.
LEMMA TruncateRest ==
    ASSUME NEW x, Expanding(x)
    PROVE  Truncate(Rest(x)) = Truncate(x)
  BY DEF Truncate, AfterTruncation, Rest, Put, Expanding, Fields

\* What is due of an entry.
LEMMA DueAt ==
    ASSUME NEW n \in Entries
    PROVE  {line \in Due : line.name = n} = {Heading(n)} \union Remarks(n)
<1>1. \A m : \A line \in {Heading(m)} \union Remarks(m) : line.name = m
  BY DEF Heading, Remarks, Line
<1> HIDE DEF Heading, Remarks
<1> QED
  BY <1>1 DEF Due

\* What is said below an entry, case by case.
LEMMA RemarksOf ==
    ASSUME NEW n
    PROVE  /\ Ref(n) = 0 => Remarks(n) = {}
           /\ Ref(n) # 0 /\ Cyclic(n) => Remarks(n) = {Line("cycle", n)}
           /\ Ref(n) # 0 /\ ~Cyclic(n) /\ n \notin DOMAIN answers => Remarks(n) = {Line("unasked", n)}
           /\ \A line \in Remarks(n) : line.name = n /\ line.kind \in {"cycle", "unasked", "unable"}
  BY DEF Remarks, Line

\* A step that leaves the work.
LEMMA SameWork ==
    ASSUME NEW x, NEW y, y.work = x.work
    PROVE  /\ Ordered(x) => Ordered(y)
           /\ Openings(x) => Openings(y)
           /\ Leaves(x) => Leaves(y)
           /\ \A i : Leaving(y, i) = Leaving(x, i)
<1>1. \A i : Leaving(y, i) = Leaving(x, i)
  BY DEF Leaving
<1>2. Ordered(x) => Ordered(y)
  BY DEF Ordered
<1>3. Openings(x) => Openings(y)
  BY <1>1 DEF Openings
<1>4. Leaves(x) => Leaves(y)
  BY <1>1 DEF Leaves
<1> QED
  BY <1>1, <1>2, <1>3, <1>4

\* A step that leaves the work, the path and the text.
LEMMA SameShow ==
    ASSUME NEW x, NEW y, y.work = x.work, y.path = x.path, y.text = x.text,
           y.truncated = x.truncated
    PROVE  /\ WorkInv(x) => WorkInv(y)
           /\ Written(y) = Written(x) /\ Full(y) = Full(x)
           /\ \A n : Under(x, n) => Under(y, n)
<1>1. Written(y) = Written(x) /\ Full(y) = Full(x)
  BY DEF Written, Full
<1>2. WorkInv(x) => WorkInv(y)
  BY SameWork DEF WorkInv
<1> QED
  BY <1>1, <1>2 DEF Under

\* A step that leaves the text and the work.
LEMMA SameGood ==
    ASSUME NEW x, NEW y, NEW next, NEW due, Good(x, next, due), Expanding(y), y.work = x.work,
           y.text = x.text, y.truncated = x.truncated, y.size = x.size,
           y.asking = NoItem \/ ~x.truncated
    PROVE  Good(y, next, due)
<1>1. Written(y) = Written(x) /\ Sorted(y)
  BY DEF Written, Full, Good, Sorted
<1>2. \A p : (Past(y, p) <=> Past(x, p)) /\ (Ahead(y, p) <=> Ahead(x, p))
  BY <1>1 DEF Past, Ahead
<1>3. \A l : LeftTo(y, l) <=> LeftTo(x, l)
  BY DEF LeftTo
<1> QED
  BY <1>1, <1>2, <1>3 DEF Good

\* A truncated expansion is done.
LEMMA TruncatedShows ==
    ASSUME NEW x, Good(x, {}, Due), x.truncated
    PROVE  Shows(x)
<1>1. x.work = <<>> /\ x.asking = NoItem /\ 1..Len(x.work) = {}
  BY DEF Good
<1>2. Asked(x) = {}
  BY <1>1 DEF Asked
<1>3. WorkInv(x)
  BY <1>1 DEF WorkInv, Ordered, Openings, Leaves
<1> QED
  BY <1>1, <1>2, <1>3 DEF Shows, AskInv

\* A request, or a truncation in its place.
LEMMA TakeShows ==
    ASSUME NEW x, NEW item \in Entry, ~x.truncated, x.asking = NoItem, WorkInv(x),
           Good(x, Remarks(item.name), Due),
           Stands(item), item.ref # 0, ~Cyclic(item.name), Above(item.name) = x.path,
           Under(x, item.name)
    PROVE  Shows(TakeRequest(x, item))
<1>1. CASE Exhausted(x)
  BY <1>1, TruncateGood, TruncatedShows DEF TakeRequest
<1>2. CASE ~Exhausted(x)
  <2> DEFINE y == TakeRequest(x, item)
  <2>1. Expanding(y)
    BY TakeAsks DEF Asks, Good
  <2>2. /\ y.work = x.work /\ y.path = x.path /\ y.text = x.text /\ y.size = x.size
        /\ y.truncated = x.truncated /\ y.asking = item
    BY <1>2 DEF TakeRequest, Good, Expanding, Fields
  <2> HIDE DEF y
  <2>3. Good(y, Remarks(item.name), Due) /\ WorkInv(y) /\ Under(y, item.name)
    BY <2>1, <2>2, SameGood, SameShow
  <2>4. item # NoItem
    BY DEF Entry, NoItem, Item
  <2>5. Remarks(item.name) = Asked(y)
    BY <2>2, <2>4, RemarksOf DEF Asked, Stands
  <2> QED
    BY <2>2, <2>3, <2>5 DEF Shows, AskInv, y
<1> QED
  BY <1>1, <1>2

\* Nothing is left to be said of an entry.
LEMMA DoneShows ==
    ASSUME NEW x, Good(x, {}, Due), WorkInv(x), x.asking = NoItem
    PROVE  Shows(x)
  BY DEF Shows, AskInv, Asked

\* The entry of an item at the head of the work.
Opens(x, h) ==
    /\ Expanding(x) /\ ~x.truncated /\ x.asking = NoItem /\ WorkInv(x)
    /\ h \in Entry /\ Stands(h) /\ Above(h.name) = x.path
    /\ Good(x, {Heading(h.name)} \union Remarks(h.name), Due)
    /\ Past(x, h.name)
    /\ \A i \in 1..Len(x.work) : x.work[i].kind # "leave" => LeftOf(h.name, Spot(x.work[i]))

\* The line of the entry, and after it what is said in place of the variables below.
LEMMA HeadingLine ==
    ASSUME NEW x, NEW h, Opens(x, h)
    PROVE  /\ Heading(h.name) = Line(h.kind, h.name)
           /\ Heading(h.name) \in Texts /\ Heading(h.name).kind \notin {"cut", "marker"}
           /\ Place(Heading(h.name)) = h.name
           /\ ({Heading(h.name)} \union Remarks(h.name)) \ {Heading(h.name)} = Remarks(h.name)
           /\ \A other \in Remarks(h.name) : Before(h.name, Place(other))
<1> DEFINE n == h.name
<1>1. h.kind \in {"scope", "variable"} /\ n \in Seq(Nat) /\ h.kind = Heading(n).kind
  BY DEF Opens, Stands, Heading, Line, Entry
<1>2. Heading(n) = Line(h.kind, n)
  BY <1>1 DEF Heading, Line
<1> HIDE DEF n
<1>3. \A other \in Remarks(n) :
        other.name = n /\ other.kind \in {"cycle", "unasked", "unable"} /\ other # Heading(n)
  BY <1>1, <1>2, RemarksOf DEF Line
<1>4. \A other \in Remarks(n) : Place(other) = Append(n, 0)
  BY <1>3 DEF Place
<1>5. Before(n, Append(n, 0))
  BY <1>1, BeforeBelow
<1>6. Heading(n) \in Texts /\ Heading(n).kind \notin {"cut", "marker"} /\ Place(Heading(n)) = n
  BY <1>1, <1>2 DEF Line, Texts, Place
<1> QED
  BY <1>2, <1>3, <1>4, <1>5, <1>6 DEF n

\* y is x with the line of the entry.
LEMMA Headed ==
    ASSUME NEW x, NEW h, Opens(x, h), NEW y, y = Put(x, Line(h.kind, h.name))
    PROVE  /\ Good(y, Remarks(h.name), Due)
           /\ Expanding(y) /\ ~y.truncated /\ y.asking = NoItem /\ WorkInv(y)
           /\ y.path = x.path /\ Under(y, h.name)
<1> DEFINE n == h.name
<1>1. /\ Heading(n) = Line(h.kind, n)
      /\ Heading(n) \in Texts /\ Heading(n).kind \notin {"cut", "marker"}
      /\ Place(Heading(n)) = n
      /\ ({Heading(n)} \union Remarks(n)) \ {Heading(n)} = Remarks(n)
      /\ \A other \in Remarks(n) : Before(n, Place(other))
  BY HeadingLine
<1> HIDE DEF n
<1>2. Good(x, {Heading(n)} \union Remarks(n), Due) /\ ~x.truncated
  BY DEF Opens, n
<1>3. y = Put(x, Heading(n))
  BY <1>1 DEF n
<1>4. Good(y, Remarks(n), Due)
  <2> DEFINE line == Heading(n)
             next == {line} \union Remarks(n)
  <2>1. \A other \in next \ {line} : Before(Place(line), Place(other))
    BY <1>1
  <2>2. next \ {line} = Remarks(n) /\ line \in next
    BY <1>1
  <2> HIDE DEF line, next
  <2> QED
    BY <1>1, <1>2, <1>3, <2>1, <2>2, PutGood DEF line, next
<1>5. /\ y.work = x.work /\ y.path = x.path /\ y.truncated = x.truncated
      /\ y.asking = x.asking /\ y.text = Append(x.text, Heading(n))
  BY <1>3 DEF Put, Opens, Expanding, Fields
<1>6. Written(y) = Written(x) \union {Heading(n)}
  <2>1. x.text \in Seq(Texts) /\ y.text = Append(x.text, Heading(n))
    BY <1>2, <1>5 DEF Good
  <2>2. Heading(n) \in Texts /\ Heading(n).kind \notin {"cut", "marker"}
    BY <1>1
  <2> QED
    BY <2>1, <2>2, OneMore
<1>7. WorkInv(y)
  BY <1>5, SameWork DEF Opens, WorkInv
<1>8. Under(y, n)
  BY <1>1, <1>5, <1>6 DEF Under, Opens, Past, n
<1> QED
  BY <1>4, <1>5, <1>7, <1>8 DEF Opens, Good, n

\* The steps of the expansion, by the kind of the item.
LEMMA ScopeShows ==
    ASSUME NEW x, NEW h, Opens(x, h), h.kind = "scope"
    PROVE  Shows(WriteScope(x, h))
<1> DEFINE y == Put(x, Line("scope", h.name))
<1>1. /\ Good(y, Remarks(h.name), Due)
      /\ Expanding(y) /\ ~y.truncated /\ y.asking = NoItem /\ WorkInv(y)
      /\ y.path = x.path /\ Under(y, h.name)
  BY Headed
<1>2. WriteScope(x, h) = IF h.ref = 0 THEN y ELSE TakeRequest(y, h)
  BY DEF WriteScope
<1> HIDE DEF y
<1>3. ~Cyclic(h.name) /\ h.ref = Ref(h.name) /\ h \in Entry
  BY DEF Opens, Stands, Heading, Line, Cyclic
<1>4. CASE h.ref = 0
  BY <1>1, <1>2, <1>3, <1>4, RemarksOf, DoneShows
<1>5. CASE h.ref # 0
  BY <1>1, <1>2, <1>3, <1>5, TakeShows DEF Opens
<1> QED
  BY <1>4, <1>5

\* Below a line: a truncation, a mark of a cycle or a request.
LEMMA DescendShows ==
    ASSUME NEW x, NEW h, Opens(x, h), h.kind = "variable", h.ref # 0,
           NEW y, y = Put(x, Line("variable", h.name))
    PROVE  Shows(Descend(y, h))
<1> DEFINE n == h.name
<1>1. /\ Good(y, Remarks(n), Due)
      /\ Expanding(y) /\ ~y.truncated /\ y.asking = NoItem /\ WorkInv(y)
      /\ y.path = x.path /\ Under(y, n)
  BY Headed
<1>2. IsVariable(n) /\ h.ref = Ref(n) /\ Above(n) = y.path /\ h \in Entry
  BY <1>1 DEF Opens, Stands, Heading, Line
<1>3. h.ref \in y.path <=> Cyclic(n)
  BY <1>2 DEF Cyclic
<1>4. CASE h.depth >= MaxDepth
  <2>1. ~(h.depth < MaxDepth)
    BY <1>2, <1>4, BudgetAssumption DEF Entry, BudgetAssumption
  <2>2. Descend(y, h) = Truncate(y)
    BY <1>4, <2>1 DEF Descend
  <2> QED
    BY <1>1, <2>2, TruncateGood, TruncatedShows
<1>5. CASE h.depth < MaxDepth /\ h.ref \in y.path
  <2> DEFINE line == Line("cycle", n)
             z == Write(y, line)
  <2>1. Remarks(n) = {line}
    BY <1>2, <1>3, <1>5, RemarksOf
  <2>2. line \in Texts /\ line.kind \notin {"cut", "marker"}
    BY <1>2 DEF Line, Texts, Entry
  <2>3. Descend(y, h) = z
    <3>1. ~(h.depth >= MaxDepth)
      BY <1>2, <1>5, BudgetAssumption DEF Entry, BudgetAssumption
    <3> QED
      BY <1>5, <3>1 DEF Descend
  <2> HIDE DEF n, line
  <2>4. \/ z.truncated /\ Good(z, {}, Due)
        \/ z = Put(y, line)
    BY <1>1, <2>1, <2>2, WriteGood
  <2>5. CASE z = Put(y, line)
    <3>1. Good(z, {line} \ {line}, Due)
      BY <1>1, <2>1, <2>2, <2>5, PutGood
    <3>2. Good(z, {}, Due)
      BY <3>1
    <3>3. /\ z.work = y.work /\ z.path = y.path /\ z.truncated = y.truncated
          /\ z.asking = y.asking
      BY <1>1, <2>5 DEF Put, Expanding, Fields
    <3>4. WorkInv(z)
      BY <1>1, <3>3, SameWork DEF WorkInv
    <3> QED
      BY <1>1, <2>3, <3>2, <3>3, <3>4, DoneShows
  <2> QED
    BY <2>3, <2>4, <2>5, TruncatedShows
<1>6. CASE ~(h.depth >= MaxDepth) /\ ~(h.depth < MaxDepth /\ h.ref \in y.path)
  <2>1. ~Cyclic(n) /\ Descend(y, h) = TakeRequest(y, h)
    BY <1>2, <1>3, <1>6, BudgetAssumption DEF Descend, Entry, BudgetAssumption
  <2> QED
    BY <1>1, <1>2, <2>1, TakeShows DEF Opens
<1> QED
  BY <1>4, <1>5, <1>6

\* The line of a variable, and what is below it.
LEMMA VariableShows ==
    ASSUME NEW x, NEW h, Opens(x, h), h.kind = "variable"
    PROVE  Shows(WriteVariable(x, h))
<1> DEFINE n == h.name
           c == [x EXCEPT !.nodes = @ + 1]
           line == Line("variable", n)
           y == Write(c, line)
<1>1. CASE x.nodes >= MaxNodes
  BY <1>1, TruncateGood, TruncatedShows DEF WriteVariable, Opens
<1>2. CASE ~(x.nodes >= MaxNodes)
  <2>1. WriteVariable(x, h) = IF y.truncated \/ h.ref = 0 THEN y ELSE Descend(y, h)
    BY <1>2 DEF WriteVariable
  <2>2. Expanding(c)
    BY <1>2, BudgetAssumption DEF Opens, Expanding, BudgetAssumption, Fields
  <2>3. /\ c.work = x.work /\ c.path = x.path /\ c.text = x.text /\ c.size = x.size
        /\ c.truncated = x.truncated /\ c.asking = x.asking
    BY DEF Opens, Expanding, Fields
  <2> HIDE DEF c
  <2>4. Opens(c, h)
    <3>1. /\ Good(c, {Heading(n)} \union Remarks(n), Due) /\ WorkInv(c)
          /\ Written(c) = Written(x)
      BY <2>2, <2>3, SameGood, SameShow DEF Opens
    <3> QED
      BY <2>2, <2>3, <3>1 DEF Opens, Past
  <2>5. /\ Heading(n) = line
        /\ Heading(n) \in Texts /\ Heading(n).kind \notin {"cut", "marker"}
        /\ Place(Heading(n)) = n
        /\ ({Heading(n)} \union Remarks(n)) \ {Heading(n)} = Remarks(n)
        /\ \A other \in Remarks(n) : Before(n, Place(other))
    BY <2>4, HeadingLine
  <2> HIDE DEF n, line
  <2>6. \/ y.truncated /\ Good(y, {}, Due)
        \/ y = Put(c, line)
    <3> DEFINE next == {Heading(n)} \union Remarks(n)
    <3>1. /\ line \in next /\ line \in Texts /\ line.kind \notin {"cut", "marker"}
          /\ \A other \in next \ {line} : Before(Place(line), Place(other))
      BY <2>5
    <3>2. Good(c, next, Due) /\ ~c.truncated /\ c.asking = NoItem
      BY <2>4 DEF Opens, n
    <3> HIDE DEF next
    <3> QED
      BY <3>1, <3>2, WriteGood
  <2>7. CASE y.truncated /\ Good(y, {}, Due)
    BY <2>1, <2>7, TruncatedShows
  <2>8. CASE y = Put(c, line)
    <3>1. /\ Good(y, Remarks(n), Due)
          /\ Expanding(y) /\ ~y.truncated /\ y.asking = NoItem /\ WorkInv(y)
      BY <2>4, <2>8, Headed DEF line, n
    <3>2. CASE h.ref = 0
      <4>1. Remarks(n) = {}
        BY <2>4, <3>2, RemarksOf DEF Opens, Stands, n
      <4> QED
        BY <2>1, <3>1, <3>2, <4>1, DoneShows
    <3>3. CASE h.ref # 0
      BY <2>1, <2>4, <2>8, <3>1, <3>3, DescendShows DEF line, n
    <3> QED
      BY <3>2, <3>3
  <2> QED
    BY <2>6, <2>7, <2>8
<1> QED
  BY <1>1, <1>2

\* A step of the recursion keeps to the tree.
LEMMA NextShows ==
    ASSUME NEW x, Shows(x), x.asking = NoItem, x.work # <<>>
    PROVE  Shows(ExpandNext(x))
<1> DEFINE h == x.work[1]
           y == Rest(x)
<1>1. /\ Expanding(x) /\ Good(x, {}, Due) /\ ~x.truncated /\ WorkInv(x)
  BY DEF Shows, Asked, Good
<1>2. /\ Expanding(y) /\ Head(x.work) = h /\ h \in Entry /\ Len(x.work) \in Nat
      /\ 1 \in 1..Len(x.work) /\ Len(y.work) = Len(x.work) - 1
      /\ \A i \in 1..Len(y.work) : i + 1 \in 1..Len(x.work) /\ y.work[i] = x.work[i + 1]
      /\ \A f \in Fields \ {"work"} : y[f] = x[f]
  BY <1>1, RestFacts
<1>3. /\ y.path = x.path /\ y.asking = NoItem /\ ~y.truncated /\ y.text = x.text
  BY <1>1, <1>2 DEF Fields
<1>4. Ordered(y) /\ Openings(y) /\ Leaves(y)
  BY <1>1, RestWork
<1>5. /\ Leaving(y, 0) = Leaving(x, 1)
      /\ h.kind = "leave" => Leaving(x, 0) = Leaving(x, 1) \union {h.ref}
      /\ h.kind # "leave" => Leaving(x, 0) = Leaving(x, 1)
  <2>1. 0 \in Nat /\ 0 + 1 = 1
    OBVIOUS
  <2> QED
    BY <1>1, <2>1, RestLeaving
<1>6. x.path = Leaving(x, 0)
  BY <1>1 DEF WorkInv
<1>7. ExpandNext(x) = CASE h.kind = "registers" -> y
                        [] h.kind = "scope"     -> WriteScope(y, h)
                        [] h.kind = "variable"  -> WriteVariable(y, h)
                        [] h.kind = "leave"     -> LeavePath(y, h)
                        [] h.kind = "more"      -> Truncate(y)
  BY <1>2 DEF ExpandNext, Rest
<1>8. h.kind # "leave" => WorkInv(y)
  BY <1>3, <1>4, <1>5, <1>6 DEF WorkInv
<1> HIDE DEF y
<1>9. CASE h.kind = "registers"
  <2>1. Good(y, {}, Due)
    BY <1>1, <1>9, RestGood DEF WorkInv, y
  <2> QED
    BY <1>3, <1>7, <1>8, <1>9, <2>1, DoneShows
<1>10. CASE h.kind \in {"scope", "variable"}
  <2>1. Stands(h) /\ Above(h.name) = Leaving(x, 1)
    BY <1>1, <1>2, <1>10 DEF WorkInv, Openings
  <2>2. Good(y, {line \in Due : line.name = h.name}, Due)
    BY <1>1, <1>10, RestGood DEF WorkInv, y
  <2>3. Good(y, {Heading(h.name)} \union Remarks(h.name), Due)
    BY <2>1, <2>2, DueAt DEF Stands
  <2>4. Spot(h) = h.name
    BY <1>10 DEF Spot
  <2>5. Past(y, h.name)
    <3>1. Written(y) = Written(x)
      BY <1>3 DEF Written, Full
    <3> QED
      BY <1>1, <1>2, <1>10, <2>4, <3>1 DEF Past, Good, Ahead
  <2>6. ASSUME NEW i \in 1..Len(y.work), y.work[i].kind # "leave"
        PROVE  LeftOf(h.name, Spot(y.work[i]))
    <3>1. 1 < i + 1 /\ i + 1 \in 1..Len(x.work) /\ y.work[i] = x.work[i + 1]
      BY <1>2
    <3> QED
      BY <1>1, <1>2, <1>10, <2>4, <2>6, <3>1 DEF WorkInv, Ordered
  <2>7. Opens(y, h)
    BY <1>2, <1>3, <1>5, <1>6, <1>8, <1>10, <2>1, <2>3, <2>5, <2>6 DEF Opens
  <2> QED
    BY <1>7, <1>10, <2>7, ScopeShows, VariableShows
<1>11. CASE h.kind = "leave"
  <2> DEFINE z == LeavePath(y, h)
  <2>1. Good(y, {}, Due)
    BY <1>1, <1>11, RestGood DEF WorkInv, y
  <2>2. /\ z.work = y.work /\ z.path = y.path \ {h.ref} /\ z.text = y.text /\ z.size = y.size
        /\ z.truncated = y.truncated /\ z.asking = NoItem /\ Expanding(z)
    BY <1>2, <1>3 DEF LeavePath, Expanding, Fields
  <2> HIDE DEF z
  <2>3. Good(z, {}, Due)
    BY <2>1, <2>2, SameGood
  <2>4. z.path = Leaving(x, 1)
    <3>1. h.ref \notin Leaving(x, 1)
      BY <1>1, <1>2, <1>11 DEF WorkInv, Leaves
    <3> QED
      BY <1>3, <1>5, <1>6, <1>11, <2>2, <3>1
  <2>5. Leaving(z, 0) = Leaving(y, 0)
    BY <2>2 DEF Leaving
  <2>6. WorkInv(z)
    BY <1>4, <1>5, <2>2, <2>4, <2>5, SameWork DEF WorkInv
  <2> QED
    BY <1>7, <1>11, <2>2, <2>3, <2>6, DoneShows DEF z
<1>12. CASE h.kind = "more"
  <2>1. ExpandNext(x) = Truncate(x)
    BY <1>1, <1>7, <1>12, TruncateRest DEF y
  <2> QED
    BY <1>1, <2>1, TruncateGood, TruncatedShows DEF Shows
<1> QED
  BY <1>2, <1>9, <1>10, <1>11, <1>12 DEF Entry

------------------------------------------------------------------------------
(* The tree grows with each answer.                                         *)

\* What is answered is the children of an entry that has some, and the answers lead to
\* every entry from a root.
AnswersInv ==
    /\ call.roots \in Seq(Entry)
    /\ \A i \in 1..Len(call.roots) :
          /\ call.roots[i].kind \in {"registers", "scope", "variable"}
          /\ call.roots[i].name = <<i>>
    /\ \A n \in DOMAIN answers :
          /\ n \in Entries /\ Ref(n) # 0 /\ ~Cyclic(n)
          /\ answers[n].refs \in Seq(Nat) /\ (answers[n].ok \/ answers[n].refs = <<>>)
    /\ \A n \in Entries :
          /\ n \in Seq(Nat) /\ n # <<>>
          /\ \A k \in 1..(Len(n) - 1) : SubSeq(n, 1, k) \in DOMAIN answers

\* The names of what leads to an entry.
LEMMA PrefixFacts ==
    ASSUME NEW n \in Seq(Nat), n # <<>>
    PROVE  /\ Len(n) \in Nat /\ Len(n) >= 1
           /\ Front(n) = SubSeq(n, 1, Len(n) - 1) /\ SubSeq(n, 1, Len(n)) = n
           /\ \A k \in 1..Len(n) :
                 /\ SubSeq(n, 1, k) \in Seq(Nat) /\ Len(SubSeq(n, 1, k)) = k
                 /\ \A j \in 1..k : SubSeq(n, 1, k)[j] = n[j]
<1>1. Len(n) \in Nat /\ Len(n) >= 1 /\ \A j \in 1..Len(n) : n[j] \in Nat
  BY LenProperties, ElementOfSeq, EmptySeq
<1>2. ASSUME NEW k \in 1..Len(n)
      PROVE  /\ SubSeq(n, 1, k) \in Seq(Nat) /\ Len(SubSeq(n, 1, k)) = k
             /\ \A j \in 1..k : SubSeq(n, 1, k)[j] = n[j]
  <2>1. k \in Nat /\ 1 <= k /\ \A j \in 1..k : n[j] \in Nat
    BY <1>1
  <2> QED
    BY <2>1, SubSeqProperties
<1>3. SubSeq(n, 1, Len(n)) = n
  BY SubSeqFull
<1>4. Front(n) = SubSeq(n, 1, Len(n) - 1)
  BY DEF Front
<1> QED
  BY <1>1, <1>2, <1>3, <1>4

\* The names of what leads to a child.
LEMMA ChildFacts ==
    ASSUME NEW n \in Seq(Nat), n # <<>>, NEW i \in Nat
    PROVE  /\ Append(n, i) \in Seq(Nat) /\ Append(n, i) # <<>>
           /\ Len(n) \in Nat /\ Len(n) >= 1 /\ Len(Append(n, i)) = Len(n) + 1
           /\ Front(Append(n, i)) = n /\ Last(Append(n, i)) = i
           /\ \A k \in 1..Len(n) : SubSeq(Append(n, i), 1, k) = SubSeq(n, 1, k)
<1> DEFINE c == Append(n, i)
<1>1. /\ c \in Seq(Nat) /\ c # <<>> /\ Len(n) \in Nat /\ Len(c) = Len(n) + 1
      /\ \A j \in 1..Len(n) : c[j] = n[j]
      /\ c[Len(n) + 1] = i
  BY AppendFacts
<1>2. Len(n) >= 1
  BY EmptySeq, <1>1
<1> HIDE DEF c
<1>3. ASSUME NEW k \in 1..Len(n) PROVE SubSeq(c, 1, k) = SubSeq(n, 1, k)
  <2> DEFINE s == SubSeq(c, 1, k)
             t == SubSeq(n, 1, k)
  <2>1. k \in 1..Len(c)
    BY <1>1
  <2>2. s \in Seq(Nat) /\ Len(s) = k /\ \A j \in 1..k : s[j] = c[j]
    BY <1>1, <2>1, PrefixFacts
  <2>3. t \in Seq(Nat) /\ Len(t) = k /\ \A j \in 1..k : t[j] = n[j]
    BY PrefixFacts
  <2>4. \A j \in 1..k : j \in 1..Len(n)
    BY <1>1
  <2> HIDE DEF s, t
  <2>5. s = t
    BY <1>1, <2>2, <2>3, <2>4, SeqEqual
  <2> QED
    BY <2>5 DEF s, t
<1>4. Last(c) = i
  BY <1>1 DEF Last
<1>5. Front(c) = n
  <2>1. Front(c) = SubSeq(c, 1, Len(c) - 1) /\ Len(c) - 1 = Len(n)
    BY <1>1 DEF Front
  <2>2. Len(n) \in 1..Len(n)
    BY <1>1, <1>2
  <2> QED
    BY <1>3, <2>1, <2>2, PrefixFacts
<1> QED
  BY <1>1, <1>2, <1>3, <1>4, <1>5 DEF c

\* The answer to the request for the variables below n.
AnswersFor(n, ok, refs) ==
    answers' = [name \in DOMAIN answers \union {n} |->
                    IF name = n THEN [ok |-> ok, refs |-> refs] ELSE answers[name]]

\* An entry that can be asked about.
Answerable(n) == n \in Entries /\ n \notin DOMAIN answers /\ Ref(n) # 0 /\ ~Cyclic(n)

\* Only the entry asked about is answered.
LEMMA AnswerAt ==
    ASSUME NEW n, NEW ok, NEW refs, AnswersFor(n, ok, refs)
    PROVE  /\ DOMAIN answers' = DOMAIN answers \union {n}
           /\ answers'[n].ok = ok /\ answers'[n].refs = refs
           /\ \A m \in DOMAIN answers \ {n} : answers'[m] = answers[m]
  BY DEF AnswersFor

\* An entry does not change.
LEMMA EntryKept ==
    ASSUME AnswersInv, NEW n, Answerable(n), NEW ok, NEW refs, AnswersFor(n, ok, refs),
           call' = call, NEW m \in Entries
    PROVE  /\ Ref(m)' = Ref(m) /\ IsVariable(m)' = IsVariable(m) /\ Above(m)' = Above(m)
           /\ Cyclic(m)' = Cyclic(m) /\ Heading(m)' = Heading(m)
<1>1. \A l : IsVariable(l)' = IsVariable(l)
  BY DEF IsVariable
<1>2. ASSUME NEW l \in Entries PROVE Ref(l)' = Ref(l)
  <2>1. /\ l \in Seq(Nat) /\ l # <<>>
        /\ \A k \in 1..(Len(l) - 1) : SubSeq(l, 1, k) \in DOMAIN answers
    BY DEF AnswersInv
  <2>2. CASE Len(l) = 1
    BY <2>2 DEF Ref
  <2>3. CASE Len(l) # 1
    <3>0. Len(l) \in Nat /\ Len(l) >= 1 /\ Front(l) = SubSeq(l, 1, Len(l) - 1)
      BY <2>1, PrefixFacts
    <3>1. Len(l) - 1 \in 1..(Len(l) - 1)
      <4> DEFINE d == Len(l)
      <4>1. d \in Nat /\ d >= 1 /\ d # 1
        BY <2>3, <3>0
      <4> HIDE DEF d
      <4>2. d - 1 \in 1..(d - 1)
        BY <4>1
      <4> QED
        BY <4>2 DEF d
    <3>2. Front(l) \in DOMAIN answers \ {n}
      BY <2>1, <3>0, <3>1 DEF Answerable
    <3>3. answers'[Front(l)] = answers[Front(l)]
      BY <3>2, AnswerAt
    <3> QED
      BY <2>3, <3>3 DEF Ref
  <2> QED
    BY <2>2, <2>3
<1>3. Len(m) \in Nat /\ \A k \in 1..(Len(m) - 1) : SubSeq(m, 1, k) \in Entries
  BY PrefixFacts DEF AnswersInv
<1>4. Above(m)' = Above(m)
  <2>1. \A k \in 1..(Len(m) - 1) : Ref(SubSeq(m, 1, k))' = Ref(SubSeq(m, 1, k))
    BY <1>2, <1>3
  <2>2. \A k \in 1..(Len(m) - 1) : IsVariable(SubSeq(m, 1, k))' = IsVariable(SubSeq(m, 1, k))
    BY <1>1
  <2>3. Above(m)' = {Ref(SubSeq(m, 1, k))' : k \in {k \in 1..(Len(m) - 1) : IsVariable(SubSeq(m, 1, k))'}}
    BY DEF Above
  <2> QED
    BY <2>1, <2>2, <2>3 DEF Above
<1>5. Cyclic(m)' = Cyclic(m)
  BY <1>1, <1>2, <1>4 DEF Cyclic
<1>6. Heading(m)' = Heading(m)
  BY <1>1 DEF Heading
<1> QED
  BY <1>1, <1>2, <1>4, <1>5, <1>6

\* A child that is listed is a new entry.
LEMMA ChildNew ==
    ASSUME AnswersInv, NEW n, Answerable(n), NEW ok, NEW refs \in Seq(Nat),
           AnswersFor(n, ok, refs), call' = call, NEW i \in 1..Len(refs),
           NEW c, c = Append(n, i)
    PROVE  /\ c \in Seq(Nat) /\ c # <<>> /\ c \notin Entries /\ c \notin DOMAIN answers'
           /\ Ref(c)' = refs[i] /\ IsVariable(c)' /\ Heading(c)' = Line("variable", c)
           /\ Above(c)' = Above(n) \union (IF IsVariable(n) THEN {Ref(n)} ELSE {})
           /\ \A k \in 1..(Len(c) - 1) : SubSeq(c, 1, k) \in DOMAIN answers'
<1>1. /\ n \in Seq(Nat) /\ n # <<>> /\ n \in Entries
      /\ \A k \in 1..(Len(n) - 1) : SubSeq(n, 1, k) \in DOMAIN answers
  BY DEF AnswersInv, Answerable
<1>2. i \in Nat
  BY LenProperties
<1>3. /\ c \in Seq(Nat) /\ c # <<>> /\ Len(n) \in Nat /\ Len(n) >= 1 /\ Len(c) = Len(n) + 1
      /\ Front(c) = n /\ Last(c) = i
      /\ \A k \in 1..Len(n) : SubSeq(c, 1, k) = SubSeq(n, 1, k)
  BY <1>1, <1>2, ChildFacts
<1>4. SubSeq(n, 1, Len(n)) = n
  BY <1>1, PrefixFacts
<1>5. SubSeq(c, 1, Len(n)) = n /\ Len(n) \in 1..(Len(c) - 1) /\ Len(n) \in 1..Len(n)
  BY <1>3, <1>4
<1>6. c \notin Entries
  BY <1>5 DEF AnswersInv, Answerable
<1>7. c \notin DOMAIN answers'
  <2>1. \A m \in DOMAIN answers : m \in Entries
    BY DEF AnswersInv
  <2>2. DOMAIN answers' = DOMAIN answers \union {n}
    BY AnswerAt
  <2> QED
    BY <1>1, <1>6, <2>1, <2>2
<1>8. Ref(c)' = refs[i]
  <2>1. Ref(c)' = answers'[n].refs[i]
    BY <1>3 DEF Ref
  <2> QED
    BY <2>1, AnswerAt
<1>9. IsVariable(c)' /\ Heading(c)' = Line("variable", c)
  BY <1>3 DEF IsVariable, Heading
<1>10. \A k \in 1..(Len(c) - 1) : SubSeq(c, 1, k) \in DOMAIN answers'
  <2> SUFFICES ASSUME NEW k \in 1..(Len(c) - 1) PROVE SubSeq(c, 1, k) \in DOMAIN answers'
    OBVIOUS
  <2>1. k \in 1..Len(n) /\ (k = Len(n) \/ k \in 1..(Len(n) - 1))
    BY <1>3
  <2> QED
    BY <1>1, <1>3, <1>5, <2>1, AnswerAt
<1>11. Above(c)' = Above(n) \union (IF IsVariable(n) THEN {Ref(n)} ELSE {})
  <2>1. Len(c) - 1 = Len(n)
    BY <1>3
  <2>2. Above(c)' = {Ref(SubSeq(c, 1, k))' : k \in {k \in 1..Len(n) : IsVariable(SubSeq(c, 1, k))'}}
    BY <2>1 DEF Above
  <2>3. ASSUME NEW k \in 1..Len(n)
        PROVE  /\ SubSeq(c, 1, k) = SubSeq(n, 1, k) /\ SubSeq(n, 1, k) \in Entries
               /\ k = Len(n) => SubSeq(n, 1, k) = n
    <3>1. k = Len(n) \/ k \in 1..(Len(n) - 1)
      BY <1>3
    <3> QED
      BY <1>1, <1>3, <1>4, <3>1 DEF AnswersInv
  <2>4. ASSUME NEW k \in 1..Len(n)
        PROVE  /\ Ref(SubSeq(c, 1, k))' = Ref(SubSeq(n, 1, k))
               /\ IsVariable(SubSeq(c, 1, k))' = IsVariable(SubSeq(n, 1, k))
    <3> DEFINE p == SubSeq(n, 1, k)
    <3>1. p \in Entries /\ SubSeq(c, 1, k) = p
      BY <2>3
    <3> HIDE DEF p
    <3>2. Ref(p)' = Ref(p) /\ IsVariable(p)' = IsVariable(p)
      BY <3>1, EntryKept
    <3> QED
      BY <3>1, <3>2 DEF p
  <2>5. Above(c)' = {Ref(SubSeq(n, 1, k)) : k \in {k \in 1..Len(n) : IsVariable(SubSeq(n, 1, k))}}
    BY <2>2, <2>4
  <2>6. \A k : k \in 1..Len(n) <=> k \in 1..(Len(n) - 1) \/ k = Len(n)
    BY <1>3
  <2> QED
    BY <2>3, <2>5, <2>6, <1>4 DEF Above
<1> QED
  BY <1>3, <1>6, <1>7, <1>8, <1>9, <1>10, <1>11

\* The entries after the answer are those of before and what it lists.
LEMMA EntriesGrow ==
    ASSUME AnswersInv, NEW n, Answerable(n), NEW ok, NEW refs \in Seq(Nat),
           AnswersFor(n, ok, refs), call' = call
    PROVE  Entries' = Entries \union {Append(n, i) : i \in 1..Len(refs)}
<1> DEFINE roots == {<<i>> : i \in {i \in 1..Len(call.roots) : call.roots[i].kind # "registers"}}
           open  == {m \in DOMAIN answers : Ref(m) # 0 /\ ~Cyclic(m)}
           below == UNION {{Append(m, i) : i \in 1..Len(answers[m].refs)} : m \in open}
           new   == {Append(n, i) : i \in 1..Len(refs)}
<1>1. Entries = roots \union below
  BY DEF Entries
<1>2. Entries' = roots \union
          UNION {{Append(m, i) : i \in 1..Len(answers'[m].refs)} :
                    m \in {m \in DOMAIN answers' : Ref(m)' # 0 /\ ~Cyclic(m)'}}
  BY DEF Entries
<1>3. \A m \in DOMAIN answers \union {n} :
         m \in Entries /\ Ref(m) # 0 /\ ~Cyclic(m) /\ Ref(m)' = Ref(m) /\ (Cyclic(m)' = Cyclic(m))
  BY EntryKept DEF AnswersInv, Answerable
<1>4. {m \in DOMAIN answers' : Ref(m)' # 0 /\ ~Cyclic(m)'} = open \union {n}
  BY <1>3, AnswerAt
<1>5. n \notin open
  BY DEF Answerable
<1>6. \A m \in open : answers'[m] = answers[m]
  BY <1>5, AnswerAt
<1>7. answers'[n].refs = refs
  BY AnswerAt
<1> HIDE DEF roots, open
<1>8. Entries' = roots \union UNION {{Append(m, i) : i \in 1..Len(answers'[m].refs)} : m \in open \union {n}}
  BY <1>2, <1>4
<1>9. UNION {{Append(m, i) : i \in 1..Len(answers'[m].refs)} : m \in open \union {n}} = below \union new
  BY <1>6, <1>7
<1> HIDE DEF below, new
<1>10. Entries' = Entries \union new
  BY <1>1, <1>8, <1>9
<1> QED
  BY <1>10 DEF new

\* The answers still lead to every entry.
LEMMA AnswersGrow ==
    ASSUME AnswersInv, NEW n, Answerable(n), NEW ok, NEW refs \in Seq(Nat), ok \/ refs = <<>>,
           AnswersFor(n, ok, refs), call' = call
    PROVE  AnswersInv'
<1>1. /\ call'.roots \in Seq(Entry)
      /\ \A i \in 1..Len(call'.roots) :
            /\ call'.roots[i].kind \in {"registers", "scope", "variable"}
            /\ call'.roots[i].name = <<i>>
  BY DEF AnswersInv
<1>2. ASSUME NEW m \in DOMAIN answers'
      PROVE  /\ m \in Entries' /\ Ref(m)' # 0 /\ ~Cyclic(m)'
             /\ answers'[m].refs \in Seq(Nat) /\ (answers'[m].ok \/ answers'[m].refs = <<>>)
  <2>1. m = n \/ (m # n /\ m \in DOMAIN answers)
    BY AnswerAt
  <2>2. m \in Entries /\ Ref(m) # 0 /\ ~Cyclic(m)
    BY <2>1 DEF AnswersInv, Answerable
  <2>3. Ref(m)' = Ref(m) /\ Cyclic(m)' = Cyclic(m)
    BY <2>2, EntryKept
  <2>4. m \in Entries'
    BY <2>2, EntriesGrow
  <2>5. answers'[m].refs \in Seq(Nat) /\ (answers'[m].ok \/ answers'[m].refs = <<>>)
    <3>1. CASE m = n
      <4>1. answers'[n].ok = ok /\ answers'[n].refs = refs
        BY AnswerAt
      <4> QED
        BY <3>1, <4>1
    <3>2. CASE m # n /\ m \in DOMAIN answers
      <4>1. answers'[m] = answers[m]
        BY <3>2, AnswerAt
      <4> QED
        BY <3>2, <4>1 DEF AnswersInv
    <3> QED
      BY <2>1, <3>1, <3>2
  <2> QED
    BY <2>2, <2>3, <2>4, <2>5
<1>3. ASSUME NEW m \in Entries'
      PROVE  /\ m \in Seq(Nat) /\ m # <<>>
             /\ \A k \in 1..(Len(m) - 1) : SubSeq(m, 1, k) \in DOMAIN answers'
  <2>1. m \in Entries \/ \E i \in 1..Len(refs) : m = Append(n, i)
    BY EntriesGrow
  <2>2. CASE m \in Entries
    BY <2>2, AnswerAt DEF AnswersInv
  <2>3. CASE \E i \in 1..Len(refs) : m = Append(n, i)
    BY <2>3, ChildNew
  <2> QED
    BY <2>1, <2>2, <2>3
<1> QED
  BY <1>1, <1>2, <1>3 DEF AnswersInv

\* What is due after the answer.
LEMMA DueGrows ==
    ASSUME AnswersInv, NEW n, Answerable(n), NEW ok \in BOOLEAN, NEW refs \in Seq(Nat),
           AnswersFor(n, ok, refs), call' = call
    PROVE  /\ Due' \subseteq Dues
           /\ Due \ {Line("unasked", n)} \subseteq Due'
           /\ \A line \in Due' :
                 \/ line \in Due \ {Line("unasked", n)}
                 \/ ~ok /\ line = Line("unable", n)
                 \/ \E i \in 1..Len(refs) : line.name = Append(n, i)
           /\ ~ok => Line("unable", n) \in Due' \ Due
<1>1. /\ Due = UNION {{Heading(m)} \union Remarks(m) : m \in Entries}
      /\ Due' = UNION {{Heading(m)'} \union Remarks(m)' : m \in Entries'}
  BY DEF Due
<1>2. \A m : \A line \in ({Heading(m)} \union Remarks(m)) \union ({Heading(m)'} \union Remarks(m)') :
         /\ line.name = m
         /\ line = Line(line.kind, line.name)
         /\ line.kind \in {"scope", "variable", "cycle", "unable", "unasked"}
  BY DEF Heading, Remarks, Line
<1>3. \A m \in Entries : Heading(m)' = Heading(m)
  BY EntryKept
<1>4. ASSUME NEW m \in Entries, m # n PROVE Remarks(m)' = Remarks(m)
  <2>1. Ref(m)' = Ref(m) /\ Cyclic(m)' = Cyclic(m)
    BY EntryKept
  <2>2. m \in DOMAIN answers' <=> m \in DOMAIN answers
    BY <1>4, AnswerAt
  <2>3. m \in DOMAIN answers => answers'[m] = answers[m]
    BY <1>4, AnswerAt
  <2> QED
    BY <2>1, <2>2, <2>3 DEF Remarks
<1>5. Remarks(n)' = IF ok THEN {} ELSE {Line("unable", n)}
  <2>1. Ref(n)' # 0 /\ ~Cyclic(n)'
    BY EntryKept DEF Answerable
  <2>2. n \in DOMAIN answers' /\ answers'[n].ok = ok
    BY AnswerAt
  <2> QED
    BY <2>1, <2>2 DEF Remarks
<1>6. Remarks(n) = {Line("unasked", n)} /\ Heading(n) # Line("unasked", n)
  BY RemarksOf DEF Answerable, Heading, Line
<1>7. n \in Entries /\ Entries' = Entries \union {Append(n, i) : i \in 1..Len(refs)}
  BY EntriesGrow DEF Answerable
<1>8. \A m \in Entries' : m \in Seq(Nat)
  <2>1. \A m \in Entries : m \in Seq(Nat)
    BY DEF AnswersInv
  <2>2. \A i \in 1..Len(refs) : Append(n, i) \in Seq(Nat)
    BY ChildNew
  <2> QED
    BY <1>7, <2>1, <2>2
<1> HIDE DEF Heading, Remarks
<1>9. Due' \subseteq Dues
  <2> SUFFICES ASSUME NEW line \in Due' PROVE line \in Dues
    OBVIOUS
  <2>1. PICK m \in Entries' : line \in {Heading(m)'} \union Remarks(m)'
    BY <1>1
  <2>2. line.name \in Seq(Nat) /\ line = Line(line.kind, line.name)
        /\ line.kind \in {"scope", "variable", "cycle", "unable", "unasked"}
    BY <1>2, <1>8, <2>1
  <2> QED
    BY <2>2 DEF Line, Dues
<1>10. Due \ {Line("unasked", n)} \subseteq Due'
  <2> SUFFICES ASSUME NEW line \in Due, line # Line("unasked", n) PROVE line \in Due'
    OBVIOUS
  <2>1. PICK m \in Entries : line \in {Heading(m)} \union Remarks(m)
    BY <1>1
  <2>2. line \in {Heading(m)'} \union Remarks(m)'
    BY <1>3, <1>4, <1>6, <2>1
  <2> QED
    BY <1>1, <1>7, <2>2
<1>11. ASSUME NEW line \in Due'
       PROVE  \/ line \in Due \ {Line("unasked", n)}
              \/ ~ok /\ line = Line("unable", n)
              \/ \E i \in 1..Len(refs) : line.name = Append(n, i)
  <2>1. PICK m \in Entries' : line \in {Heading(m)'} \union Remarks(m)'
    BY <1>1
  <2>2. CASE m \in Entries /\ m # n
    <3>1. line \in {Heading(m)} \union Remarks(m) /\ line.name = m
      BY <1>2, <1>3, <1>4, <2>1, <2>2
    <3>2. line # Line("unasked", n)
      BY <2>2, <3>1 DEF Line
    <3> QED
      BY <1>1, <2>2, <3>1, <3>2
  <2>3. CASE m = n
    <3>1. line = Heading(n) \/ (~ok /\ line = Line("unable", n))
      BY <1>3, <1>5, <1>7, <2>1, <2>3
    <3> QED
      BY <1>1, <1>6, <1>7, <3>1
  <2>4. CASE m \notin Entries
    <3>1. line.name = m
      BY <1>2, <2>1
    <3> QED
      BY <1>7, <2>4, <3>1
  <2> QED
    BY <2>2, <2>3, <2>4
<1>12. ASSUME ~ok PROVE Line("unable", n) \in Due' \ Due
  <2>1. Line("unable", n) \in Due'
    BY <1>1, <1>5, <1>7, <1>12
  <2>2. Line("unable", n) \notin Due
    <3> SUFFICES ASSUME Line("unable", n) \in Due PROVE FALSE
      OBVIOUS
    <3>1. PICK m \in Entries : Line("unable", n) \in {Heading(m)} \union Remarks(m)
      BY <1>1
    <3>2. m = n
      BY <1>2, <3>1 DEF Line
    <3> QED
      BY <1>6, <3>1, <3>2 DEF Line, Heading
  <2> QED
    BY <2>1, <2>2
<1> QED
  BY <1>9, <1>10, <1>11, <1>12

------------------------------------------------------------------------------
(* The expansion goes on with each answer.                                  *)

\* The work before the answer is the end, after p new items, of the work after it; the
\* first c of them are the variables it lists.
Lays(x, y, refs, p, c) ==
    /\ p \in Nat /\ c \in Nat /\ c <= p /\ c <= Len(refs)
    /\ Len(y.work) = p + Len(x.work)
    /\ \A j \in 1..Len(x.work) : y.work[p + j] = x.work[j]
    /\ \A j \in 1..c : /\ y.work[j].kind = "variable" /\ y.work[j].ref = refs[j]
                       /\ y.work[j].name = Append(x.asking.name, j)
    /\ IF x.asking.kind = "scope"
       THEN p = c /\ c = Len(refs) /\ y.path = x.path
       ELSE /\ p > c /\ y.work[p].kind = "leave" /\ y.work[p].ref = x.asking.ref
            /\ y.path = x.path \union {x.asking.ref}
            /\ \A j \in (c + 1)..(p - 1) : /\ y.work[j].kind = "more" /\ j = MaxChildren + 1
                                           /\ y.work[j].name = x.asking.name
            /\ c < Len(refs) => c = MaxChildren /\ c + 1 <= p - 1

\* The items of a listing, one by one.
LEMMA ListedFacts ==
    ASSUME NEW name \in Seq(Nat), NEW refs \in Seq(Nat), NEW depth \in Nat
    PROVE  /\ Listed(name, refs, depth) \in Seq(Entry)
           /\ Len(Listed(name, refs, depth)) = Len(refs)
           /\ \A j \in 1..Len(refs) :
                 Listed(name, refs, depth)[j] = Item("variable", Append(name, j), refs[j], depth)
<1>1. Listed(name, refs, depth) \in Seq(Entry)
  BY ListedEntries
<1>2. Len(refs) \in Nat
  BY LenProperties
<1>3. DOMAIN Listed(name, refs, depth) = 1..Len(refs)
  BY DEF Listed
<1>4. Len(Listed(name, refs, depth)) = Len(refs)
  BY <1>1, <1>2, <1>3, LenProperties
<1> QED
  BY <1>1, <1>4 DEF Listed

\* One sequence after another.
LEMMA Joined ==
    ASSUME NEW S, NEW s \in Seq(S), NEW t \in Seq(S)
    PROVE  /\ Len(s) \in Nat /\ Len(t) \in Nat
           /\ s \o t \in Seq(S) /\ Len(s \o t) = Len(s) + Len(t)
           /\ \A j \in 1..Len(s) : (s \o t)[j] = s[j]
           /\ \A j \in 1..Len(t) : (s \o t)[Len(s) + j] = t[j]
<1> DEFINE u == s \o t
           p == Len(s)
           q == Len(t)
<1>1. p \in Nat /\ q \in Nat
  BY LenProperties
<1>2. /\ u \in Seq(S) /\ Len(u) = p + q
      /\ \A j \in 1..(p + q) : u[j] = IF j <= p THEN s[j] ELSE t[j - p]
  BY ConcatProperties
<1> HIDE DEF u, p, q
<1>3. \A j \in 1..p : u[j] = s[j]
  BY <1>1, <1>2
<1>4. ASSUME NEW j \in 1..q PROVE u[p + j] = t[j]
  <2>1. p + j \in 1..(p + q) /\ ~(p + j <= p) /\ (p + j) - p = j
    BY <1>1
  <2> QED
    BY <1>2, <2>1
<1> QED
  BY <1>1, <1>2, <1>3, <1>4 DEF u, p, q

\* All the variables of a scope are laid before the work.
LEMMA AnsweredScopeLays ==
    ASSUME NEW x, Expanding(x), x.asking # NoItem, x.asking.kind = "scope", NEW refs \in Seq(Nat)
    PROVE  Lays(x, Answered(x, refs), refs, Len(refs), Len(refs))
<1> DEFINE y   == Answered(x, refs)
           new == Listed(x.asking.name, refs, 0)
           p   == Len(refs)
           q   == Len(x.work)
<1>1. x.asking.name \in Seq(Nat) /\ x.work \in Seq(Entry)
  BY DEF Expanding, Entry
<1>2. /\ new \in Seq(Entry) /\ Len(new) = p
      /\ \A j \in 1..p : new[j] = Item("variable", Append(x.asking.name, j), refs[j], 0)
  BY <1>1, ListedFacts
<1>3. y.work = new \o x.work /\ y.path = x.path
  BY DEF Answered, Expanding, Fields
<1> HIDE DEF y, new, p, q
<1>4. /\ p \in Nat /\ q \in Nat /\ Len(new \o x.work) = p + q
      /\ \A j \in 1..p : (new \o x.work)[j] = new[j]
      /\ \A j \in 1..q : (new \o x.work)[p + j] = x.work[j]
  <2>1. /\ Len(new) \in Nat /\ Len(x.work) \in Nat /\ Len(new \o x.work) = Len(new) + Len(x.work)
        /\ \A j \in 1..Len(new) : (new \o x.work)[j] = new[j]
        /\ \A j \in 1..Len(x.work) : (new \o x.work)[Len(new) + j] = x.work[j]
    <3>1. new \in Seq(Entry) /\ x.work \in Seq(Entry)
      BY <1>1, <1>2
    <3> QED
      BY <3>1, Joined
  <2>2. Len(new) = p /\ Len(x.work) = q
    BY <1>2 DEF q
  <2> QED
    BY <2>1, <2>2
<1>5. \A j \in 1..p : y.work[j] = Item("variable", Append(x.asking.name, j), refs[j], 0)
  BY <1>2, <1>3, <1>4
<1>6. \A j \in 1..p : /\ y.work[j].kind = "variable" /\ y.work[j].ref = refs[j]
                      /\ y.work[j].name = Append(x.asking.name, j)
  <2> SUFFICES ASSUME NEW j \in 1..p
               PROVE  /\ y.work[j].kind = "variable" /\ y.work[j].ref = refs[j]
                      /\ y.work[j].name = Append(x.asking.name, j)
    OBVIOUS
  <2>1. y.work[j] = Item("variable", Append(x.asking.name, j), refs[j], 0)
    BY <1>5
  <2> QED
    BY <2>1 DEF Item
<1>7. Lays(x, y, refs, p, p)
  BY <1>3, <1>4, <1>6 DEF Lays, q, p
<1> QED
  BY <1>7 DEF y, p

\* The first children of a variable are, with what marks the rest and what leaves the
\* path.
LEMMA AnsweredVariableLays ==
    ASSUME NEW x, Expanding(x), x.asking # NoItem, x.asking.kind # "scope", NEW refs \in Seq(Nat)
    PROVE  \E p, c \in Nat : Lays(x, Answered(x, refs), refs, p, c)
<1> DEFINE y     == Answered(x, refs)
           n     == x.asking.name
           l     == Len(refs)
           q     == Len(x.work)
           c     == IF l < MaxChildren THEN l ELSE MaxChildren
           first == SubSeq(refs, 1, c)
           new   == Listed(n, first, x.asking.depth + 1)
           rest  == Item("more", n, 0, 0)
           left  == Item("leave", n, x.asking.ref, 0)
           more  == IF l > Len(first) THEN <<rest>> ELSE <<>>
           leave == <<left>>
           d     == x.asking.depth + 1
<1>1. /\ n \in Seq(Nat) /\ x.work \in Seq(Entry) /\ l \in Nat /\ q \in Nat
      /\ d \in Nat /\ rest \in Entry /\ left \in Entry /\ rest.kind = "more" /\ rest.name = n
      /\ left.kind = "leave" /\ left.ref = x.asking.ref
  BY LenProperties DEF Expanding, Entry, Item
<1> HIDE DEF l, q
<1>2. /\ c \in Nat /\ c <= l /\ (c < l => c = MaxChildren)
      /\ MaxChildren \in Nat
  BY <1>1, BudgetAssumption DEF BudgetAssumption
<1> HIDE DEF c
<1>3. first \in Seq(Nat) /\ Len(first) = c /\ \A j \in 1..c : first[j] = refs[j]
  <2>1. \A j \in 1..c : refs[j] \in Nat
    BY <1>1, <1>2, ElementOfSeq DEF l
  <2>2. \A j \in 1..(c - 1 + 1) : first[j] = refs[1 + j - 1]
    BY <1>2, <2>1, SubSeqProperties
  <2>3. first \in Seq(Nat) /\ Len(first) = IF 1 <= c THEN c - 1 + 1 ELSE 0
    BY <1>2, <2>1, SubSeqProperties
  <2> HIDE DEF first
  <2> QED
    BY <1>2, <2>2, <2>3
<1> HIDE DEF first, d
<1>4. /\ new \in Seq(Entry) /\ Len(new) = c
      /\ \A j \in 1..c : new[j] = Item("variable", Append(n, j), refs[j], d)
  BY <1>1, <1>3, ListedFacts DEF d
<1>5. y.work = new \o more \o leave \o x.work /\ y.path = x.path \union {x.asking.ref}
  BY DEF Answered, Expanding, Fields, first, c, l
<1> HIDE DEF y, new, n, rest, left
<1>6. /\ leave \in Seq(Entry) /\ Len(leave) = 1 /\ leave[1] = left
      /\ more \in Seq(Entry) /\ Len(more) \in 0..1
      /\ Len(more) = 1 <=> c < l
      /\ Len(more) = 1 => more[1] = rest
  BY <1>1, <1>2, <1>3
<1> HIDE DEF more, leave
<1> DEFINE a == new \o more
           b == a \o leave
           m == Len(more)
           p == c + m + 1
<1>7. m \in 0..1 /\ (m = 1 <=> c < l) /\ (m = 1 => more[1] = rest)
  BY <1>6
<1> HIDE DEF m
<1>8. /\ a \in Seq(Entry) /\ Len(a) = c + m
      /\ \A j \in 1..c : a[j] = new[j]
      /\ \A j \in 1..m : a[c + j] = more[j]
  <2>1. /\ a \in Seq(Entry) /\ Len(a) = Len(new) + Len(more)
        /\ \A j \in 1..Len(new) : a[j] = new[j]
        /\ \A j \in 1..Len(more) : a[Len(new) + j] = more[j]
    <3>1. new \in Seq(Entry) /\ more \in Seq(Entry)
      BY <1>4, <1>6
    <3> QED
      BY <3>1, Joined
  <2>2. Len(new) = c /\ Len(more) = m
    BY <1>4 DEF m
  <2> HIDE DEF a
  <2> QED
    BY <2>1, <2>2
<1> HIDE DEF a
<1>9. /\ b \in Seq(Entry) /\ Len(b) = p
      /\ \A j \in 1..(c + m) : b[j] = a[j]
      /\ \A j \in 1..1 : b[(c + m) + j] = leave[j]
  <2>1. /\ b \in Seq(Entry) /\ Len(b) = Len(a) + Len(leave)
        /\ \A j \in 1..Len(a) : b[j] = a[j]
        /\ \A j \in 1..Len(leave) : b[Len(a) + j] = leave[j]
    <3>1. a \in Seq(Entry) /\ leave \in Seq(Entry)
      BY <1>6, <1>8
    <3> QED
      BY <3>1, Joined
  <2> HIDE DEF b
  <2> QED
    BY <1>6, <1>8, <2>1
<1> HIDE DEF b
<1>10. /\ Len(b \o x.work) = p + q
       /\ \A j \in 1..p : (b \o x.work)[j] = b[j]
       /\ \A j \in 1..q : (b \o x.work)[p + j] = x.work[j]
  <2>1. /\ Len(b \o x.work) = Len(b) + Len(x.work)
        /\ \A j \in 1..Len(b) : (b \o x.work)[j] = b[j]
        /\ \A j \in 1..Len(x.work) : (b \o x.work)[Len(b) + j] = x.work[j]
    <3>1. b \in Seq(Entry) /\ x.work \in Seq(Entry)
      BY <1>1, <1>9
    <3> QED
      BY <3>1, Joined
  <2>2. Len(b) = p /\ Len(x.work) = q
    BY <1>9 DEF q
  <2> HIDE DEF p
  <2> QED
    BY <2>1, <2>2
<1>11. y.work = b \o x.work
  BY <1>5 DEF a, b
<1>12. p \in Nat /\ c <= p /\ p > c /\ p = c + m + 1
  BY <1>2, <1>7
<1> HIDE DEF p
<1>13. \A j \in 1..c : y.work[j] = Item("variable", Append(n, j), refs[j], d)
  <2> SUFFICES ASSUME NEW j \in 1..c PROVE y.work[j] = Item("variable", Append(n, j), refs[j], d)
    OBVIOUS
  <2>1. j \in 1..p /\ j \in 1..(c + m)
    BY <1>2, <1>7, <1>12
  <2>2. y.work[j] = b[j] /\ b[j] = a[j] /\ a[j] = new[j]
    BY <1>8, <1>9, <1>10, <1>11, <2>1
  <2> QED
    BY <1>4, <2>2
<1>14. y.work[p] = left
  <2>1. p \in 1..p /\ p = (c + m) + 1 /\ 1 \in 1..1
    BY <1>2, <1>7, <1>12
  <2>2. y.work[p] = b[p] /\ b[p] = leave[1]
    BY <1>9, <1>10, <1>11, <2>1
  <2> QED
    BY <1>6, <2>2
<1>15. \A j \in (c + 1)..(p - 1) : y.work[j] = rest /\ j = MaxChildren + 1
  <2> SUFFICES ASSUME NEW j \in (c + 1)..(p - 1) PROVE y.work[j] = rest /\ j = MaxChildren + 1
    OBVIOUS
  <2>1. m = 1 /\ j = c + 1 /\ 1 \in 1..m
    BY <1>2, <1>7, <1>12
  <2>2. j \in 1..p /\ j \in 1..(c + m)
    BY <1>2, <1>12, <2>1
  <2>3. y.work[j] = b[j] /\ b[j] = a[j] /\ a[j] = more[1]
    BY <1>8, <1>9, <1>10, <1>11, <2>1, <2>2
  <2> QED
    BY <1>2, <1>7, <2>1, <2>3
<1>16. c < l => c = MaxChildren /\ c + 1 <= p - 1
  BY <1>2, <1>7, <1>12
<1>17. Len(y.work) = p + Len(x.work) /\ \A j \in 1..Len(x.work) : y.work[p + j] = x.work[j]
  BY <1>10, <1>11 DEF q
<1>18. \A j \in 1..c : /\ y.work[j].kind = "variable" /\ y.work[j].ref = refs[j]
                       /\ y.work[j].name = Append(n, j)
  <2> SUFFICES ASSUME NEW j \in 1..c
               PROVE  /\ y.work[j].kind = "variable" /\ y.work[j].ref = refs[j]
                      /\ y.work[j].name = Append(n, j)
    OBVIOUS
  <2>1. y.work[j] = Item("variable", Append(n, j), refs[j], d)
    BY <1>13
  <2> QED
    BY <2>1 DEF Item
<1>19. /\ y.work[p].kind = "leave" /\ y.work[p].ref = x.asking.ref
       /\ \A j \in (c + 1)..(p - 1) : y.work[j].kind = "more" /\ j = MaxChildren + 1 /\ y.work[j].name = n
  BY <1>1, <1>14, <1>15
<1>20. Lays(x, y, refs, p, c)
  BY <1>2, <1>5, <1>12, <1>16, <1>17, <1>18, <1>19 DEF Lays, l, n
<1> QED
  BY <1>2, <1>12, <1>20 DEF y

\* Either way the new items come before the work.
LEMMA AnsweredLays ==
    ASSUME NEW x, Expanding(x), x.asking # NoItem, NEW refs \in Seq(Nat)
    PROVE  \E p, c \in Nat : Lays(x, Answered(x, refs), refs, p, c)
<1>1. Len(refs) \in Nat
  BY LenProperties
<1> QED
  BY <1>1, AnsweredScopeLays, AnsweredVariableLays

\* An item of the work after an answer.
Part(x, y, p, c, j) ==
    \/ j \in 1..c
    \/ j \in (c + 1)..(p - 1) /\ y.work[j].kind = "more"
    \/ j = p /\ p > c /\ y.work[p].kind = "leave"
    \/ j > p /\ j - p \in 1..Len(x.work) /\ y.work[j] = x.work[j - p]

\* Every item of the work after an answer is one of these.
LEMMA LaysParts ==
    ASSUME NEW x, NEW y, NEW refs \in Seq(Nat), NEW p \in Nat, NEW c \in Nat,
           Lays(x, y, refs, p, c), Len(x.work) \in Nat
    PROVE  \A j \in 1..Len(y.work) : Part(x, y, p, c, j)
<1> SUFFICES ASSUME NEW j \in 1..Len(y.work) PROVE Part(x, y, p, c, j)
  OBVIOUS
<1>1. Len(y.work) = p + Len(x.work) /\ p \in Nat /\ c \in Nat /\ c <= p
  BY DEF Lays
<1>2. CASE j > p
  <2>1. j - p \in 1..Len(x.work) /\ p + (j - p) = j
    BY <1>1, <1>2
  <2>2. y.work[j] = x.work[j - p]
    BY <2>1 DEF Lays
  <2> QED
    BY <1>2, <2>1, <2>2 DEF Part
<1>3. CASE ~(j > p) /\ ~(j \in 1..c)
  <2>1. j \in (c + 1)..p /\ p > c
    BY <1>1, <1>3
  <2>2. x.asking.kind # "scope"
    BY <1>1, <2>1 DEF Lays
  <2>3. j = p \/ j \in (c + 1)..(p - 1)
    BY <1>1, <2>1
  <2> QED
    BY <2>1, <2>2, <2>3 DEF Lays, Part
<1> QED
  BY <1>2, <1>3 DEF Part

\* Who waits for an answer is not truncated.
LEMMA UnderEntry ==
    ASSUME NEW x, NEW next, NEW due, Good(x, next, due), x.asking # NoItem
    PROVE  /\ ~x.truncated /\ x.asking \in Entry /\ x.asking.name \in Seq(Nat)
           /\ \A i \in 1..Len(x.work) : x.work[i] \in Entry
           /\ Len(x.work) \in Nat
  BY LenProperties, ElementOfSeq DEF Good, Expanding, Entry

\* An answer that lists: the new lines are left to the new items.
LEMMA AnsweredGood ==
    ASSUME NEW x, NEW due, NEW n, n = x.asking.name, x.asking # NoItem,
           Good(x, {Line("unasked", n)}, due), Under(x, n),
           NEW refs \in Seq(Nat), NEW later, later \subseteq Dues,
           due \ {Line("unasked", n)} \subseteq later,
           \A line \in later : \/ line \in due \ {Line("unasked", n)}
                               \/ \E i \in 1..Len(refs) : line.name = Append(n, i)
    PROVE  Good(Answered(x, refs), {}, later)
<1> DEFINE y == Answered(x, refs)
<1>1. Expanding(y) /\ y.asking = NoItem
  BY AnsweredResumes DEF Good, Resumes
<1>2. y.text = x.text /\ y.size = x.size /\ y.truncated = x.truncated
  BY DEF Answered, Good, Expanding, Fields
<1>3. PICK p \in Nat, c \in Nat : Lays(x, y, refs, p, c)
  BY AnsweredLays DEF Good
<1> HIDE DEF y
<1>4. Written(y) = Written(x) /\ Sorted(y)
  BY <1>2 DEF Written, Full, Sorted, Good
<1>5. /\ ~x.truncated /\ x.asking \in Entry /\ n \in Seq(Nat) /\ Len(x.work) \in Nat
      /\ \A i \in 1..Len(x.work) : x.work[i] \in Entry
  BY UnderEntry
<1>6. Written(x) \subseteq later
  <2>1. \A line \in Written(x) : line \in Texts
    BY <1>5, ElementOfSeq DEF Good, Written, Full
  <2>2. \A line \in Written(x) : line # Line("unasked", n)
    <3>1. \A line \in Texts : line.kind # "unasked"
      BY DEF Texts
    <3>2. Line("unasked", n).kind = "unasked"
      BY DEF Line
    <3> QED
      BY <2>1, <3>1, <3>2
  <2> QED
    BY <2>2 DEF Good
<1>7. ASSUME NEW w \in Written(x) PROVE Ahead(y, Place(w))
  <2> SUFFICES ASSUME NEW j \in 1..Len(y.work), y.work[j].kind # "leave"
               PROVE  Before(Place(w), Spot(y.work[j]))
    BY DEF Ahead
  <2>1. Place(w) = n \/ Before(Place(w), n)
    BY DEF Under
  <2>2. Place(w) \in Seq(Nat)
    BY PlaceFacts DEF Good
  <2>3. \A i \in Nat : Before(Place(w), Append(n, i))
    BY <1>5, <2>1, <2>2, BeforeBelow
  <2>4. CASE j \in 1..c
    <3>1. y.work[j].kind = "variable" /\ y.work[j].name = Append(n, j)
      BY <1>3, <2>4 DEF Lays
    <3> QED
      BY <1>3, <2>3, <2>4, <3>1 DEF Spot
  <2>5. CASE j \in (c + 1)..(p - 1) /\ y.work[j].kind = "more"
    <3>1. y.work[j].name = n
      <4>1. x.asking.kind # "scope"
        BY <1>3, <2>5 DEF Lays
      <4> QED
        BY <1>3, <2>5, <4>1 DEF Lays
    <3>2. MaxChildren + 1 \in Nat
      BY BudgetAssumption DEF BudgetAssumption
    <3> QED
      BY <2>3, <2>5, <3>1, <3>2 DEF Spot
  <2>6. CASE j > p /\ j - p \in 1..Len(x.work) /\ y.work[j] = x.work[j - p]
    BY <2>6 DEF Good, Ahead
  <2>7. Part(x, y, p, c, j)
    BY <1>3, <1>5, LaysParts
  <2> QED
    BY <2>4, <2>5, <2>6, <2>7 DEF Part
<1>8. ASSUME NEW line \in later \ Written(y) PROVE LeftTo(y, line)
  <2>1. CASE line \in due \ {Line("unasked", n)}
    <3>1. LeftTo(x, line)
      BY <1>4, <1>5, <2>1 DEF Good
    <3>2. PICK i \in 1..Len(x.work) :
            \/ x.work[i].kind \in {"scope", "variable"} /\ line.name = x.work[i].name
            \/ /\ x.work[i].kind = "more"
               /\ \E j \in Nat : j > MaxChildren /\ line.name = Append(x.work[i].name, j)
      BY <3>1 DEF LeftTo
    <3>3. y.work[p + i] = x.work[i] /\ p + i \in 1..Len(y.work)
      BY <1>3, <1>5 DEF Lays
    <3> QED
      BY <3>2, <3>3 DEF LeftTo
  <2>2. CASE \E i \in 1..Len(refs) : line.name = Append(n, i)
    <3>1. PICK i \in 1..Len(refs) : line.name = Append(n, i)
      BY <2>2
    <3>2. Len(refs) \in Nat
      BY LenProperties
    <3>3. CASE i <= c
      <4>1. i \in 1..c /\ i \in 1..Len(y.work)
        BY <1>3, <1>5, <3>2, <3>3 DEF Lays
      <4>2. y.work[i].kind = "variable" /\ y.work[i].name = Append(n, i)
        BY <1>3, <4>1 DEF Lays
      <4> QED
        BY <3>1, <4>1, <4>2 DEF LeftTo
    <3>4. CASE ~(i <= c)
      <4>1. c < Len(refs)
        BY <1>3, <3>2, <3>4
      <4>2. x.asking.kind # "scope"
        BY <1>3, <4>1 DEF Lays
      <4>3. c = MaxChildren /\ c + 1 \in (c + 1)..(p - 1)
        BY <1>3, <4>1, <4>2 DEF Lays
      <4>4. y.work[c + 1].kind = "more" /\ y.work[c + 1].name = n
        BY <1>3, <4>2, <4>3 DEF Lays
      <4>5. c + 1 \in 1..Len(y.work)
        BY <1>3, <1>5, <4>3 DEF Lays
      <4>6. i \in Nat /\ i > MaxChildren
        BY <1>3, <3>2, <3>4, <4>3
      <4> QED
        BY <3>1, <4>4, <4>5, <4>6 DEF LeftTo
    <3> QED
      BY <3>3, <3>4
  <2> QED
    BY <2>1, <2>2
<1>9. Good(y, {}, later)
  BY <1>1, <1>2, <1>4, <1>5, <1>6, <1>7, <1>8 DEF Good
<1> QED
  BY <1>9 DEF y

\* The order of the work after an answer.
LEMMA AnsweredOrdered ==
    ASSUME NEW x, NEW next, NEW due, Good(x, next, due), NEW n, n = x.asking.name,
           x.asking # NoItem, Ordered(x), Under(x, n), NEW refs \in Seq(Nat)
    PROVE  Ordered(Answered(x, refs))
<1> DEFINE y == Answered(x, refs)
<1>1. PICK p \in Nat, c \in Nat : Lays(x, y, refs, p, c)
  BY AnsweredLays DEF Good
<1> HIDE DEF y
<1>2. /\ n \in Seq(Nat) /\ Len(x.work) \in Nat
      /\ \A i \in 1..Len(x.work) : x.work[i] \in Entry
  BY UnderEntry
<1>3. Len(y.work) \in Nat
  BY <1>1, <1>2 DEF Lays
<1> DEFINE Stand(j) ==
             \/ j \in 1..p /\ Spot(y.work[j]) = Append(n, j)
             \/ /\ j > p /\ j - p \in 1..Len(x.work) /\ y.work[j] = x.work[j - p]
                /\ LeftOf(n, Spot(y.work[j])) /\ Spot(y.work[j]) \in Seq(Nat)
<1>4. ASSUME NEW j \in 1..Len(y.work), y.work[j].kind # "leave" PROVE Stand(j)
  <2>0. c <= p
    BY <1>1 DEF Lays
  <2>1. CASE j \in 1..c
    BY <1>1, <2>0, <2>1 DEF Lays, Spot
  <2>2. CASE j \in (c + 1)..(p - 1) /\ y.work[j].kind = "more"
    <3>1. x.asking.kind # "scope"
      BY <1>1, <2>2 DEF Lays
    <3>2. y.work[j].name = n /\ j = MaxChildren + 1
      BY <1>1, <2>2, <3>1 DEF Lays
    <3>3. j \in 1..p
      BY <1>1, <2>2
    <3> QED
      BY <2>2, <3>2, <3>3 DEF Spot
  <2>3. CASE j > p /\ j - p \in 1..Len(x.work) /\ y.work[j] = x.work[j - p]
    <3>1. x.work[j - p] \in Entry /\ LeftOf(n, Spot(x.work[j - p]))
      BY <1>2, <1>4, <2>3 DEF Under
    <3> QED
      BY <2>3, <3>1, SpotFacts
  <2>4. Part(x, y, p, c, j)
    BY <1>1, <1>2, LaysParts
  <2> QED
    BY <1>4, <2>1, <2>2, <2>3, <2>4 DEF Part
<1>5. SUFFICES ASSUME NEW i \in 1..Len(y.work), NEW j \in 1..Len(y.work), i < j,
                      y.work[i].kind # "leave", y.work[j].kind # "leave"
               PROVE  LeftOf(Spot(y.work[i]), Spot(y.work[j]))
  BY DEF Ordered, y
<1>6. Stand(i) /\ Stand(j)
  BY <1>4, <1>5
<1>7. CASE i > p
  <2>1. i - p \in 1..Len(x.work) /\ y.work[i] = x.work[i - p]
    BY <1>6, <1>7
  <2>2. j > p /\ j - p \in 1..Len(x.work) /\ y.work[j] = x.work[j - p] /\ i - p < j - p
    BY <1>1, <1>3, <1>5, <1>6, <1>7
  <2> QED
    BY <1>5, <2>1, <2>2 DEF Ordered
<1>8. CASE ~(i > p)
  <2>1. i \in Nat /\ j \in Nat /\ Spot(y.work[i]) = Append(n, i)
    BY <1>1, <1>3, <1>6, <1>8
  <2>2. CASE j > p
    <3>1. LeftOf(n, Spot(y.work[j])) /\ Spot(y.work[j]) \in Seq(Nat)
      BY <1>1, <1>6, <2>2
    <3> QED
      BY <1>2, <2>1, <3>1, LeftOfBelow
  <2>3. CASE ~(j > p)
    <3>1. Spot(y.work[j]) = Append(n, j)
      BY <1>1, <1>6, <2>3
    <3> QED
      BY <1>2, <1>5, <2>1, <3>1, Siblings
  <2> QED
    BY <2>2, <2>3
<1> QED
  BY <1>7, <1>8

\* The references that are on the path below an item, after an answer.
Lengthens(x, y, p) ==
    /\ \A j \in Nat : Leaving(y, p + j) = Leaving(x, j)
    /\ \A j \in 0..p :
          (j < p \/ x.asking.kind = "scope") =>
              Leaving(y, j) = Leaving(x, 0) \union
                  (IF x.asking.kind = "scope" THEN {} ELSE {x.asking.ref})

\* The path of the work after an answer.
LEMMA AnsweredLeaving ==
    ASSUME NEW x, Len(x.work) \in Nat, NEW y, NEW refs \in Seq(Nat), NEW p \in Nat, NEW c \in Nat,
           Lays(x, y, refs, p, c)
    PROVE  Lengthens(x, y, p)
<1> DEFINE w == x.work
           v == y.work
<1>1. Len(v) = p + Len(w) /\ \A j \in 1..Len(w) : v[p + j] = w[j]
  BY DEF Lays
<1>2. \A k \in 1..Len(v) :
        \/ k \in 1..c /\ k <= p /\ v[k].kind = "variable"
        \/ k \in 1..p /\ v[k].kind = "more"
        \/ k = p /\ p > c /\ v[p].kind = "leave"
        \/ k > p /\ k - p \in 1..Len(w) /\ v[k] = w[k - p]
  <2> SUFFICES ASSUME NEW k \in 1..Len(v)
               PROVE  \/ k \in 1..c /\ k <= p /\ v[k].kind = "variable"
                      \/ k \in 1..p /\ v[k].kind = "more"
                      \/ k = p /\ p > c /\ v[p].kind = "leave"
                      \/ k > p /\ k - p \in 1..Len(w) /\ v[k] = w[k - p]
    OBVIOUS
  <2>1. \/ k \in 1..c
        \/ k \in (c + 1)..(p - 1) /\ v[k].kind = "more"
        \/ k = p /\ p > c /\ v[p].kind = "leave"
        \/ k > p /\ k - p \in 1..Len(w) /\ v[k] = w[k - p]
    <3>1. Part(x, y, p, c, k)
      BY LaysParts
    <3> QED
      BY <3>1 DEF Part
  <2>2. c <= p /\ \A j \in 1..c : v[j].kind = "variable"
    BY DEF Lays
  <2> HIDE DEF v, w
  <2> QED
    BY <2>1, <2>2
<1>3. IF x.asking.kind = "scope" THEN p = c
      ELSE p > c /\ v[p].kind = "leave" /\ v[p].ref = x.asking.ref
  BY DEF Lays
<1>4. \A j, r : r \in Leaving(y, j) <=>
                  \E k \in 1..Len(v) : k > j /\ v[k].kind = "leave" /\ r = v[k].ref
  BY OnPath
<1>5. \A j, r : r \in Leaving(x, j) <=>
                  \E k \in 1..Len(w) : k > j /\ w[k].kind = "leave" /\ r = w[k].ref
  BY OnPath
<1> HIDE DEF w, v
<1> DEFINE Old(k)  == k > p /\ k - p \in 1..Len(w) /\ v[k] = w[k - p]
           final(k) == k = p /\ p > c /\ v[k].ref = x.asking.ref /\ x.asking.kind # "scope"
<1>6. ASSUME NEW k \in 1..Len(v), v[k].kind = "leave" PROVE Old(k) \/ final(k)
  BY <1>2, <1>3, <1>6
<1>7. ASSUME NEW k \in 1..Len(w) PROVE p + k \in 1..Len(v) /\ p + k > p /\ v[p + k] = w[k]
  BY <1>1
<1>8. ASSUME NEW j \in Nat PROVE Leaving(y, p + j) = Leaving(x, j)
  <2>1. ASSUME NEW r \in Leaving(y, p + j) PROVE r \in Leaving(x, j)
    <3>1. PICK k \in 1..Len(v) : k > p + j /\ v[k].kind = "leave" /\ r = v[k].ref
      BY <1>4, <2>1
    <3>2. Old(k)
      BY <1>6, <3>1
    <3>3. k - p > j
      BY <3>1
    <3> QED
      BY <1>5, <3>1, <3>2, <3>3
  <2>2. ASSUME NEW r \in Leaving(x, j) PROVE r \in Leaving(y, p + j)
    <3>1. PICK k \in 1..Len(w) : k > j /\ w[k].kind = "leave" /\ r = w[k].ref
      BY <1>5, <2>2
    <3>2. p + k > p + j
      BY <3>1
    <3> QED
      BY <1>4, <1>7, <3>1, <3>2
  <2> QED
    BY <2>1, <2>2
<1> DEFINE own == IF x.asking.kind = "scope" THEN {} ELSE {x.asking.ref}
<1>9. ASSUME NEW j \in 0..p, j < p \/ x.asking.kind = "scope"
      PROVE  Leaving(y, j) = Leaving(x, 0) \union own
  <2>1. ASSUME NEW r \in Leaving(y, j) PROVE r \in Leaving(x, 0) \union own
    <3>1. PICK k \in 1..Len(v) : k > j /\ v[k].kind = "leave" /\ r = v[k].ref
      BY <1>4, <2>1
    <3>2. CASE Old(k)
      <4>1. k - p > 0
        BY <3>2
      <4> QED
        BY <1>5, <3>1, <3>2, <4>1
    <3>3. CASE final(k)
      BY <3>1, <3>3
    <3> QED
      BY <1>6, <3>1, <3>2, <3>3
  <2>2. ASSUME NEW r \in Leaving(x, 0) PROVE r \in Leaving(y, j)
    <3>1. PICK k \in 1..Len(w) : k > 0 /\ w[k].kind = "leave" /\ r = w[k].ref
      BY <1>5, <2>2
    <3>2. p + k > j
      BY <3>1
    <3> QED
      BY <1>4, <1>7, <3>1, <3>2
  <2>3. ASSUME x.asking.kind # "scope" PROVE x.asking.ref \in Leaving(y, j)
    <3>1. p \in 1..Len(v) /\ p > j /\ v[p].kind = "leave" /\ v[p].ref = x.asking.ref
      BY <1>1, <1>3, <1>9, <2>3
    <3> QED
      BY <1>4, <3>1
  <2> QED
    BY <2>1, <2>2, <2>3
<1> QED
  BY <1>8, <1>9 DEF Lengthens

\* The items of the work stand for what they stood for before the answer.
LEMMA OpeningsKept ==
    ASSUME AnswersInv, NEW n, Answerable(n), NEW ok, NEW refs \in Seq(Nat),
           AnswersFor(n, ok, refs), call' = call,
           NEW x, Expanding(x), Openings(x), Under(x, n), NEW i \in 1..Len(x.work),
           x.work[i].kind \in {"scope", "variable"}
    PROVE  Stands(x.work[i])' /\ Above(x.work[i].name)' = Leaving(x, i)
<1> DEFINE item == x.work[i]
           m    == item.name
<1>1. Stands(item) /\ Above(m) = Leaving(x, i) /\ LeftOf(n, Spot(item)) /\ Spot(item) = m
  BY DEF Openings, Under, Spot
<1>2. n \in Entries /\ m \in Entries /\ m \notin DOMAIN answers /\ n \in Seq(Nat)
  BY <1>1 DEF Stands, Answerable, AnswersInv
<1>3. m # n
  BY <1>1, <1>2, Apart
<1>4. m \in Entries' /\ m \notin DOMAIN answers'
  <2>1. Entries' = Entries \union {Append(n, j) : j \in 1..Len(refs)}
    BY EntriesGrow
  <2>2. DOMAIN answers' = DOMAIN answers \union {n}
    BY AnswerAt
  <2> HIDE DEF m
  <2> QED
    BY <1>2, <1>3, <2>1, <2>2
<1> HIDE DEF m
<1>5. Ref(m)' = Ref(m) /\ Above(m)' = Above(m) /\ Heading(m)' = Heading(m)
  BY <1>2, EntryKept
<1>6. item.ref = Ref(m) /\ item.kind = Heading(m).kind /\ item.name = m
  BY <1>1 DEF Stands, m
<1>7. Stands(item)'
  BY <1>4, <1>5, <1>6 DEF Stands
<1> QED
  BY <1>1, <1>5, <1>7 DEF m

\* What a listing finds.
AskedAbout(x, n) ==
    /\ Good(x, {Line("unasked", n)}, Due) /\ WorkInv(x) /\ x.asking # NoItem
    /\ n = x.asking.name /\ Answerable(n) /\ Stands(x.asking)
    /\ Above(n) = x.path /\ Under(x, n)

\* A call that waits for an answer is ready for it.
LEMMA AskedFor ==
    ASSUME NEW x, Shows(x), x.asking # NoItem, NEW n, n = x.asking.name
    PROVE  AskedAbout(x, n)
<1>1. Asked(x) = {Line("unasked", n)}
  BY DEF Asked
<1>2. n \in Entries /\ n \notin DOMAIN answers /\ Ref(n) # 0 /\ ~Cyclic(n)
  BY DEF Shows, AskInv, Stands
<1> QED
  BY <1>1, <1>2 DEF Shows, AskInv, AskedAbout, Answerable

\* An answer that lists: the entries it adds are left to the items it adds.
LEMMA AnsweredShows ==
    ASSUME AnswersInv, NEW x, NEW n, AskedAbout(x, n), NEW refs \in Seq(Nat),
           AnswersFor(n, TRUE, refs), call' = call, NEW y, y = Answered(x, refs)
    PROVE  Shows(y)'
<1>0. Expanding(x) /\ Answerable(n) /\ Under(x, n) /\ Ordered(x) /\ Openings(x) /\ Leaves(x)
  BY DEF AskedAbout, Good, WorkInv
<1>1. /\ Due' \subseteq Dues
      /\ Due \ {Line("unasked", n)} \subseteq Due'
      /\ \A line \in Due' : \/ line \in Due \ {Line("unasked", n)}
                            \/ \E i \in 1..Len(refs) : line.name = Append(n, i)
  BY <1>0, DueGrows
<1>2. Good(y, {}, Due')
  <2> DEFINE due   == Due
             later == Due'
  <2>1. Good(x, {Line("unasked", n)}, due) /\ x.asking # NoItem /\ n = x.asking.name /\ Under(x, n)
    BY DEF AskedAbout
  <2> HIDE DEF due, later
  <2>2. /\ later \subseteq Dues
        /\ due \ {Line("unasked", n)} \subseteq later
        /\ \A line \in later : \/ line \in due \ {Line("unasked", n)}
                               \/ \E i \in 1..Len(refs) : line.name = Append(n, i)
    BY <1>1 DEF due, later
  <2>3. Good(y, {}, later)
    BY <2>1, <2>2, AnsweredGood
  <2> QED
    BY <2>3 DEF later
<1>3. Ordered(y)
  BY <1>0, AnsweredOrdered DEF AskedAbout
<1>4. /\ y.asking = NoItem /\ ~y.truncated /\ y.truncated = x.truncated
  BY DEF Answered, AskedAbout, Good, Expanding, Fields
<1>5. PICK p \in Nat, c \in Nat : Lays(x, y, refs, p, c)
  BY <1>0, AnsweredLays DEF AskedAbout
<1>6. Len(x.work) \in Nat
  BY <1>0, LenProperties DEF Expanding
<1>7. x.path = Leaving(x, 0)
  BY <1>4 DEF AskedAbout, WorkInv
<1>8. /\ x.asking.ref = Ref(n) /\ Above(n) = Leaving(x, 0) /\ ~Cyclic(n) /\ x.asking.name = n
      /\ IsVariable(n) <=> x.asking.kind # "scope"
  BY <1>7 DEF AskedAbout, Answerable, Stands, Heading, Line
<1> DEFINE own == IF x.asking.kind = "scope" THEN {} ELSE {x.asking.ref}
<1>9. /\ \A j \in Nat : Leaving(y, p + j) = Leaving(x, j)
      /\ \A j \in 0..p : (j < p \/ x.asking.kind = "scope") => Leaving(y, j) = Leaving(x, 0) \union own
  <2>1. Lengthens(x, y, p)
    BY <1>5, <1>6, AnsweredLeaving
  <2> QED
    BY <2>1 DEF Lengthens
<1>10. /\ c <= p /\ Len(y.work) = p + Len(x.work)
       /\ \A j \in 1..c : /\ y.work[j].kind = "variable" /\ y.work[j].ref = refs[j]
                          /\ y.work[j].name = Append(n, j)
       /\ c <= Len(refs)
       /\ IF x.asking.kind = "scope"
          THEN p = c /\ y.path = x.path
          ELSE p > c /\ y.work[p].kind = "leave" /\ y.work[p].ref = x.asking.ref
               /\ y.path = x.path \union {x.asking.ref}
  BY <1>5, <1>8 DEF Lays
<1>11. \A j \in 1..Len(y.work) : Part(x, y, p, c, j)
  BY <1>5, <1>6, LaysParts
<1>12. y.path = Leaving(y, 0)
  <2>1. 0 \in 0..p /\ (0 < p \/ x.asking.kind = "scope")
    BY <1>10
  <2> QED
    BY <1>7, <1>9, <1>10, <2>1
<1>13. Leaves(y)
  <2> SUFFICES ASSUME NEW j \in 1..Len(y.work), y.work[j].kind = "leave"
               PROVE  y.work[j].ref \notin Leaving(y, j)
    BY DEF Leaves
  <2>1. \/ j = p /\ p > c
        \/ j > p /\ j - p \in 1..Len(x.work) /\ y.work[j] = x.work[j - p]
    <3>1. Part(x, y, p, c, j)
      BY <1>11
    <3> QED
      BY <1>10, <3>1 DEF Part
  <2>2. CASE j = p /\ p > c
    <3>1. x.asking.kind # "scope" /\ y.work[j].ref = Ref(n)
      BY <1>8, <1>10, <2>2
    <3>2. Leaving(y, p + 0) = Leaving(x, 0) /\ p + 0 = p
      BY <1>9
    <3>3. Ref(n) \notin Above(n)
      BY <1>8, <3>1 DEF Cyclic
    <3> QED
      BY <1>8, <2>2, <3>1, <3>2, <3>3
  <2>3. CASE j > p /\ j - p \in 1..Len(x.work) /\ y.work[j] = x.work[j - p]
    <3>1. Leaving(y, p + (j - p)) = Leaving(x, j - p) /\ p + (j - p) = j
      BY <1>6, <1>9, <2>3
    <3> QED
      BY <1>0, <2>3, <3>1 DEF Leaves
  <2> QED
    BY <2>1, <2>2, <2>3
<1>14. ASSUME NEW j \in 1..Len(y.work), y.work[j].kind \in {"scope", "variable"}
       PROVE  Stands(y.work[j])' /\ Above(y.work[j].name)' = Leaving(y, j)
  <2>1. \/ j \in 1..c
        \/ j > p /\ j - p \in 1..Len(x.work) /\ y.work[j] = x.work[j - p]
    <3>1. Part(x, y, p, c, j)
      BY <1>11
    <3> QED
      BY <1>10, <1>14, <3>1 DEF Part
  <2>2. CASE j \in 1..c
    <3> DEFINE child == Append(n, j)
    <3>1. y.work[j].kind = "variable" /\ y.work[j].ref = refs[j] /\ y.work[j].name = child
      BY <1>10, <2>2
    <3>2. j \in 1..Len(refs)
      BY <1>10, <2>2, LenProperties
    <3> HIDE DEF child
    <3>3. /\ child \notin DOMAIN answers'
          /\ Ref(child)' = refs[j] /\ Heading(child)' = Line("variable", child)
          /\ Above(child)' = Above(n) \union (IF IsVariable(n) THEN {Ref(n)} ELSE {})
      BY <1>0, <3>2, ChildNew DEF child
    <3>4. child \in Entries'
      <4>1. Entries' = Entries \union {Append(n, i) : i \in 1..Len(refs)}
        BY <1>0, EntriesGrow
      <4> QED
        BY <3>2, <4>1 DEF child
    <3>5. Stands(y.work[j])'
      BY <3>1, <3>3, <3>4 DEF Stands, Line
    <3>6. Leaving(y, j) = Leaving(x, 0) \union own
      <4>1. j \in 0..p /\ (j < p \/ x.asking.kind = "scope")
        BY <1>10, <2>2
      <4> QED
        BY <1>9, <4>1
    <3>7. Above(child)' = Leaving(x, 0) \union own
      BY <1>8, <3>3
    <3> QED
      BY <3>1, <3>5, <3>6, <3>7
  <2>3. CASE j > p /\ j - p \in 1..Len(x.work) /\ y.work[j] = x.work[j - p]
    <3> DEFINE k == j - p
    <3>1. Leaving(y, p + k) = Leaving(x, k) /\ p + k = j /\ k \in 1..Len(x.work)
      BY <1>6, <1>9, <2>3
    <3> HIDE DEF k
    <3>2. y.work[j] = x.work[k]
      BY <2>3 DEF k
    <3>3. Stands(x.work[k])' /\ Above(x.work[k].name)' = Leaving(x, k)
      BY <1>0, <1>14, <3>1, <3>2, OpeningsKept
    <3> QED
      BY <3>1, <3>2, <3>3
  <2> QED
    BY <2>1, <2>2, <2>3
<1>15. WorkInv(y)'
  BY <1>3, <1>12, <1>13, <1>14 DEF WorkInv, Openings, Ordered, Leaves, Leaving
<1> QED
  BY <1>2, <1>4, <1>15 DEF Shows, AskInv, Asked

\* That there is no answer is said where the variables would stand.
LEMMA UnansweredShows ==
    ASSUME AnswersInv, NEW x, NEW n, AskedAbout(x, n), AnswersFor(n, FALSE, <<>>), call' = call,
           NEW y, y = Unanswered(x)
    PROVE  Shows(y)'
<1> DEFINE none  == <<>>
           no    == FALSE
           line  == Line("unable", n)
           done  == [x EXCEPT !.asking = NoItem]
           due   == Due
           later == Due'
<1>0. /\ Expanding(x) /\ Answerable(n) /\ Under(x, n) /\ Ordered(x) /\ Openings(x) /\ Leaves(x)
      /\ Good(x, {Line("unasked", n)}, due) /\ n = x.asking.name /\ x.asking # NoItem
      /\ none \in Seq(Nat) /\ no \in BOOLEAN /\ ~no /\ AnswersFor(n, no, none)
  BY EmptySeq DEF AskedAbout, Good, WorkInv
<1>1. /\ later \subseteq Dues
      /\ due \ {Line("unasked", n)} \subseteq later
      /\ \A l \in later : l \in due \ {Line("unasked", n)} \/ l = line
      /\ line \in later
  <2>1. /\ Due' \subseteq Dues
        /\ Due \ {Line("unasked", n)} \subseteq Due'
        /\ \A l \in Due' : \/ l \in Due \ {Line("unasked", n)}
                           \/ ~no /\ l = line
                           \/ \E i \in 1..Len(none) : l.name = Append(n, i)
        /\ ~no => line \in Due' \ Due
    <3>1. Answerable(n) /\ none \in Seq(Nat) /\ no \in BOOLEAN /\ AnswersFor(n, no, none)
      BY <1>0
    <3> HIDE DEF no, none, due
    <3> QED
      BY <3>1, DueGrows DEF line
  <2>2. 1..Len(none) = {}
    BY EmptySeq
  <2> QED
    BY <1>0, <2>1, <2>2
<1> HIDE DEF none, due, later
<1>2. /\ done.work = x.work /\ done.path = x.path /\ done.text = x.text /\ done.size = x.size
      /\ done.truncated = x.truncated /\ done.asking = NoItem /\ Expanding(done)
  BY <1>0 DEF Expanding, Fields
<1>3. Unanswered(x) = IF x.asking.kind = "scope" THEN Put(done, line) ELSE Write(done, line)
  BY <1>0 DEF Unanswered
<1> HIDE DEF done
<1>4. /\ ~x.truncated /\ n \in Seq(Nat)
      /\ Line("unasked", n) \in Dues /\ Place(line) = Place(Line("unasked", n))
      /\ line \in Texts /\ line.kind \notin {"cut", "marker"}
  <2>1. ~x.truncated /\ n \in Seq(Nat)
    BY <1>0, UnderEntry
  <2> QED
    BY <2>1 DEF Line, Dues, Texts, Place
<1>5. Written(done) = Written(x) /\ Sorted(done) /\ WorkInv(x)
  BY <1>0, <1>2 DEF Written, Full, Sorted, Good, AskedAbout
<1>6. Good(done, {line}, later)
  <2>1. Written(x) \subseteq later
    <3>1. \A l \in Written(x) : l \in Texts
      BY <1>0, ElementOfSeq DEF Good, Written, Full
    <3>2. \A l \in Texts : l.kind # "unasked"
      BY DEF Texts
    <3>3. Line("unasked", n).kind = "unasked"
      BY DEF Line
    <3>4. Written(x) \subseteq due
      BY <1>0 DEF Good
    <3> QED
      BY <1>1, <3>1, <3>2, <3>3, <3>4
  <2>2. \A p : (Past(done, p) <=> Past(x, p)) /\ (Ahead(done, p) <=> Ahead(x, p))
    BY <1>2, <1>5 DEF Past, Ahead
  <2>3. \A l : LeftTo(done, l) <=> LeftTo(x, l)
    BY <1>2 DEF LeftTo
  <2>4. Past(x, Place(line)) /\ Ahead(x, Place(line))
    BY <1>0, <1>4 DEF Good
  <2>5. \A l \in later \ Written(x) : l \in {line} \/ LeftTo(x, l)
    BY <1>0, <1>1, <1>4 DEF Good
  <2>6. \A w \in Written(x) : Ahead(x, Place(w))
    BY <1>0 DEF Good
  <2>7. done.text \in Seq(Texts) /\ done.size \in Nat
    BY <1>0, <1>2 DEF Good
  <2> QED
    BY <1>1, <1>2, <1>4, <1>5, <2>1, <2>2, <2>3, <2>4, <2>5, <2>6, <2>7 DEF Good
<1>7. \/ y.truncated /\ Good(y, {}, later)
      \/ y = Put(done, line)
  BY <1>2, <1>3, <1>4, <1>6, WriteGood
<1>8. CASE y.truncated /\ Good(y, {}, later)
  <2>1. y.work = <<>> /\ y.asking = NoItem /\ 1..Len(y.work) = {}
    BY <1>8 DEF Good
  <2>2. WorkInv(y)'
    BY <1>8, <2>1 DEF WorkInv, Ordered, Openings, Leaves
  <2> QED
    BY <1>8, <2>1, <2>2 DEF Shows, AskInv, Asked, later
<1>9. CASE y = Put(done, line)
  <2>1. Good(y, {line} \ {line}, later)
    BY <1>2, <1>4, <1>6, <1>9, PutGood
  <2>2. Good(y, {}, later)
    BY <2>1
  <2>3. /\ y.work = x.work /\ y.path = x.path /\ y.truncated = x.truncated
        /\ y.asking = NoItem
    BY <1>2, <1>9 DEF Put, Expanding, Fields
  <2>4. Ordered(y) /\ Leaves(y) /\ \A i : Leaving(y, i) = Leaving(x, i)
    BY <1>0, <2>3, SameWork
  <2>5. y.path = Leaving(y, 0)
    BY <1>4, <1>5, <2>3, <2>4 DEF WorkInv
  <2>6. ASSUME NEW j \in 1..Len(y.work), y.work[j].kind \in {"scope", "variable"}
        PROVE  Stands(y.work[j])' /\ Above(y.work[j].name)' = Leaving(y, j)
    <3>1. Stands(x.work[j])' /\ Above(x.work[j].name)' = Leaving(x, j)
      BY <1>0, <2>3, <2>6, OpeningsKept DEF none
    <3> QED
      BY <2>3, <2>4, <3>1
  <2>7. WorkInv(y)'
    BY <2>4, <2>5, <2>6 DEF WorkInv, Openings, Ordered, Leaves, Leaving
  <2> QED
    BY <2>2, <2>3, <2>7 DEF Shows, AskInv, Asked, later
<1> QED
  BY <1>7, <1>8, <1>9

------------------------------------------------------------------------------
(* The invariant.                                                           *)

\* The invariant: the answers make a tree, and the expansion shows it.
TreeInv == pc = "expand" => AnswersInv /\ Shows(out)

\* The tree is that of the roots and the answers.
LEMMA SameTree ==
    ASSUME UNCHANGED <<answers, call>>
    PROVE  /\ AnswersInv => AnswersInv'
           /\ \A x : Shows(x) => Shows(x)'
<1>1. \A n : Ref(n)' = Ref(n) /\ IsVariable(n)' = IsVariable(n)
  BY DEF Ref, IsVariable
<1>2. \A n : Above(n)' = Above(n)
  BY <1>1 DEF Above
<1>3. \A n : Cyclic(n)' = Cyclic(n)
  BY <1>1, <1>2 DEF Cyclic
<1>4. Entries' = Entries
  BY <1>1, <1>3 DEF Entries
<1>5. \A n : Heading(n)' = Heading(n) /\ Remarks(n)' = Remarks(n)
  BY <1>1, <1>3 DEF Heading, Remarks
<1>6. Due' = Due
  BY <1>4, <1>5 DEF Due
<1>7. AnswersInv => AnswersInv'
  BY <1>1, <1>3, <1>4 DEF AnswersInv
<1>8. \A item : Stands(item)' = Stands(item)
  BY <1>1, <1>4, <1>5 DEF Stands
<1>9. ASSUME NEW x, Shows(x) PROVE Shows(x)'
  <2>1. WorkInv(x)'
    BY <1>2, <1>8, <1>9 DEF Shows, WorkInv, Ordered, Openings, Leaves, Leaving
  <2>2. AskInv(x)'
    BY <1>2, <1>3, <1>8, <1>9 DEF Shows, AskInv, Under
  <2>3. Asked(x)' = Asked(x)
    BY DEF Asked
  <2> QED
    BY <1>6, <1>9, <2>1, <2>2, <2>3 DEF Shows
<1> QED
  BY <1>7, <1>9

\* The lines that are due are lines of entries.
DueTyped == (\A m \in Entries : m \in Seq(Nat)) => Due \subseteq Dues
DueNamed == \A line \in Due : line.name \in Entries

LEMMA DueLines == DueTyped /\ DueNamed
<1>1. DueNamed
  BY DEF DueNamed, Due, Heading, Remarks, Line
<1>2. ASSUME \A m \in Entries : m \in Seq(Nat), NEW line \in Due PROVE line \in Dues
  <2>1. PICK m \in Entries : line \in {Heading(m)} \union Remarks(m)
    BY DEF Due
  <2>2. /\ line.name = m /\ line = Line(line.kind, line.name)
        /\ line.kind \in {"scope", "variable", "cycle", "unable", "unasked"}
    BY <2>1 DEF Heading, Remarks, Line
  <2> QED
    BY <1>2, <2>2 DEF Line, Dues
<1> QED
  BY <1>1, <1>2 DEF DueTyped

\* So they are after a step.
LEMMA DueLater == DueTyped' /\ DueNamed'
  BY DueLines, PTL

\* A new expansion has all its roots before it.
LEMMA TreeBegins ==
    ASSUME NEW size \in Nat, NEW roots \in Seq(Entry),
           \A i \in 1..Len(roots) :
              roots[i].kind \in {"registers", "scope", "variable"} /\ roots[i].name = <<i>>,
           DOMAIN call = {"tool", "frame", "full", "stopped", "folded", "roots"},
           Expands(size, roots)
    PROVE  TreeInv'
<1> DEFINE y == Expansion(size, roots)
<1>1. pc' = "expand" /\ out' = y /\ call'.roots = roots /\ answers' = <<>> /\ DOMAIN answers' = {}
  BY DEF Expands, NoAnswers
<1>2. /\ y.work = roots /\ y.asking = NoItem /\ y.path = {} /\ ~y.truncated /\ y.text = <<>>
      /\ y.size = size /\ Expanding(y)
  BY BlankExpanding DEF Expansion
<1>3. Len(roots) \in Nat
  BY LenProperties
<1> HIDE DEF y
<1>4. Entries' = {<<i>> : i \in {i \in 1..Len(roots) : roots[i].kind # "registers"}}
  BY <1>1 DEF Entries
<1>5. \A i \in 1..Len(roots) : <<i>> \in Seq(Nat) /\ <<i>> # <<>> /\ Len(<<i>>) = 1 /\ <<i>>[1] = i
  BY <1>3
<1>6. AnswersInv'
  <2>1. ASSUME NEW n \in Entries'
        PROVE  n \in Seq(Nat) /\ n # <<>> /\ 1..(Len(n) - 1) = {}
    <3>1. PICK i \in 1..Len(roots) : n = <<i>>
      BY <1>4
    <3>2. n \in Seq(Nat) /\ n # <<>> /\ Len(n) = 1
      BY <1>5, <3>1
    <3> QED
      BY <3>2
  <2> QED
    BY <1>1, <2>1 DEF AnswersInv
<1>7. Full(y) = {} /\ Written(y) = {} /\ y.text \in Seq(Texts)
  <2>1. Len(<<>>) = 0 /\ <<>> \in Seq(Texts) /\ 1..0 = {}
    BY EmptySeq
  <2> QED
    BY <1>2, <2>1 DEF Full, Written
<1>8. Good(y, {}, Due')
  <2>1. Due' \subseteq Dues
    BY <1>6, DueLater DEF AnswersInv, DueTyped
  <2>2. ASSUME NEW line \in Due' PROVE LeftTo(y, line)
    <3>1. line.name \in Entries'
      BY DueLater DEF DueNamed
    <3>2. PICK i \in 1..Len(roots) : roots[i].kind # "registers" /\ line.name = <<i>>
      BY <1>4, <3>1
    <3> QED
      BY <1>2, <3>2 DEF LeftTo
  <2> QED
    BY <1>2, <1>7, <2>1, <2>2 DEF Good, Sorted
<1>9. Ordered(y)
  <2> SUFFICES ASSUME NEW i \in 1..Len(roots), NEW j \in 1..Len(roots), i < j
               PROVE  LeftOf(Spot(roots[i]), Spot(roots[j]))
    BY <1>2 DEF Ordered
  <2>1. Spot(roots[i]) = <<i>> /\ Spot(roots[j]) = <<j>>
    BY DEF Spot
  <2>2. LeftOf(<<i>>, <<j>>)
    <3>1. 1 \in 1..Len(<<i>>) /\ 1 <= Len(<<j>>) /\ <<i>>[1] < <<j>>[1] /\ 1..(1 - 1) = {}
      BY <1>5
    <3> QED
      BY <3>1 DEF LeftOf
  <2> QED
    BY <2>1, <2>2
<1>10. \A i : Leaving(y, i) = {}
  BY <1>2 DEF Leaving
<1>11. ASSUME NEW i \in 1..Len(roots), roots[i].kind \in {"scope", "variable"}
       PROVE  Stands(roots[i])' /\ Above(roots[i].name)' = {}
  <2> DEFINE n == <<i>>
  <2>1. roots[i].name = n /\ Len(n) = 1 /\ n[1] = i /\ n \in Entries' /\ n \notin DOMAIN answers'
    BY <1>1, <1>4, <1>5, <1>11
  <2> HIDE DEF n
  <2>2. Ref(n)' = roots[i].ref /\ (IsVariable(n)' <=> roots[i].kind = "variable")
    BY <1>1, <2>1 DEF Ref, IsVariable
  <2>3. Heading(n)'.kind = roots[i].kind
    BY <1>11, <2>2 DEF Heading, Line
  <2>4. Above(n)' = {}
    <3>1. 1..(Len(n) - 1) = {}
      BY <2>1
    <3> QED
      BY <3>1 DEF Above
  <2> QED
    BY <2>1, <2>2, <2>3, <2>4 DEF Stands
<1>12. WorkInv(y)'
  BY <1>2, <1>9, <1>10, <1>11 DEF WorkInv, Openings, Ordered, Leaves, Leaving
<1>13. Shows(y)'
  BY <1>2, <1>8, <1>12 DEF Shows, AskInv, Asked
<1> QED
  BY <1>1, <1>6, <1>13 DEF TreeInv

\* The evaluate expands its result.
LEMMA TreeEvaluate ==
    ASSUME Inv, EvaluateTaken
    PROVE  TreeInv'
<1>1. PICK reply \in {inbox[i] : i \in 1..Len(inbox)}, size \in Headers :
         /\ Take(reply) /\ reply.ok
         /\ IF reply.refs[1] = 0
            THEN Ends /\ UNCHANGED stopEvents
            ELSE Expands(size, <<Item("variable", <<1>>, reply.refs[1], 0)>>)
  BY DEF EvaluateTaken
<1>2. CASE Ends
  BY <1>2 DEF Ends, Return, TreeInv
<1>3. CASE Expands(size, <<Item("variable", <<1>>, reply.refs[1], 0)>>)
  <2> DEFINE root == Item("variable", <<1>>, reply.refs[1], 0)
  <2>1. reply.refs \in {<<0>>, <<1>>}
    BY <1>1, InboxFacts DEF EvaluateTaken, Answering, Listable, Take
  <2>2. root \in Entry /\ root.kind = "variable" /\ root.name = <<1>>
    BY <2>1 DEF Item, Entry
  <2>3. size \in Nat
    BY InspectionAssumption DEF InspectionAssumption
  <2>4. Expands(size, <<root>>)
    BY <1>3
  <2> HIDE DEF root
  <2>5. /\ <<root>> \in Seq(Entry)
        /\ \A i \in 1..Len(<<root>>) :
              /\ <<root>>[i].kind \in {"registers", "scope", "variable"}
              /\ <<root>>[i].name = <<i>>
    BY <2>2
  <2> DEFINE roots == <<root>>
  <2>6. Expands(size, roots) /\ roots \in Seq(Entry)
        /\ \A i \in 1..Len(roots) :
              roots[i].kind \in {"registers", "scope", "variable"} /\ roots[i].name = <<i>>
    BY <2>4, <2>5
  <2> HIDE DEF roots
  <2> QED
    BY <2>3, <2>6, Found, TreeBegins
<1> QED
  BY <1>1, <1>2, <1>3

\* The context expands the scopes of its frame.
LEMMA TreeScopes ==
    ASSUME Inv, ScopesTaken
    PROVE  TreeInv'
<1>1. PICK reply \in {inbox[i] : i \in 1..Len(inbox)}, size \in Headers :
         /\ Take(reply) /\ reply.ok
         /\ IF reply.refs = <<>>
            THEN Ends /\ UNCHANGED stopEvents
            ELSE Expands(size, [i \in 1..Len(reply.refs) |->
                     Item(reply.refs[i].kind, <<i>>, reply.refs[i].ref, 0)])
  BY DEF ScopesTaken
<1> DEFINE refs  == reply.refs
           roots == [i \in 1..Len(refs) |-> Item(refs[i].kind, <<i>>, refs[i].ref, 0)]
<1>2. CASE Ends
  BY <1>2 DEF Ends, Return, TreeInv
<1>3. CASE Expands(size, roots)
  <2>1. refs \in Seq([kind : {"registers", "scope"}, ref : Nat])
    BY <1>1, InboxFacts, InspectionAssumption DEF ScopesTaken, Answering, Listable, Take,
       InspectionAssumption
  <2>2. size \in Nat
    BY InspectionAssumption DEF InspectionAssumption
  <2> HIDE DEF refs
  <2>3. Len(refs) \in Nat
    BY <2>1, LenProperties
  <2>4. ASSUME NEW i \in 1..Len(refs)
        PROVE  /\ Item(refs[i].kind, <<i>>, refs[i].ref, 0) \in Entry
               /\ Item(refs[i].kind, <<i>>, refs[i].ref, 0).kind \in {"registers", "scope", "variable"}
               /\ Item(refs[i].kind, <<i>>, refs[i].ref, 0).name = <<i>>
    <3>1. refs[i] \in [kind : {"registers", "scope"}, ref : Nat]
      BY <2>1, ElementOfSeq
    <3>2. <<i>> \in Seq(Nat)
      BY <2>3
    <3> QED
      BY <3>1, <3>2 DEF Item, Entry
  <2>5. roots \in Seq(Entry)
    BY <2>3, <2>4, IsASeq
  <2>6. \A i \in 1..Len(refs) : roots[i] = Item(refs[i].kind, <<i>>, refs[i].ref, 0)
    OBVIOUS
  <2>7. Len(roots) = Len(refs)
    <3>1. DOMAIN roots = 1..Len(refs)
      OBVIOUS
    <3> HIDE DEF roots
    <3> QED
      BY <2>3, <2>5, <3>1, LenProperties
  <2> HIDE DEF roots
  <2>8. \A i \in 1..Len(roots) :
           roots[i].kind \in {"registers", "scope", "variable"} /\ roots[i].name = <<i>>
    BY <2>4, <2>6, <2>7
  <2> QED
    BY <1>3, <2>2, <2>5, <2>8, Found, TreeBegins
<1> QED
  BY <1>1, <1>2, <1>3

\* A step of the expansion.
LEMMA TreeExpand ==
    ASSUME Inv, TreeInv, Expand
    PROVE  TreeInv'
<1>1. /\ pc = "expand" /\ out.work # <<>> /\ out.asking = NoItem /\ out' = ExpandNext(out)
      /\ UNCHANGED <<answers, call>>
  BY DEF Expand
<1>2. PICK y : y = ExpandNext(out)
  OBVIOUS
<1>3. Shows(y)
  BY <1>1, <1>2, NextShows DEF TreeInv
<1>4. AnswersInv' /\ Shows(y)'
  BY <1>1, <1>3, SameTree DEF TreeInv
<1> QED
  BY <1>1, <1>2, <1>4 DEF TreeInv

\* The answer to a request for variables, or what stands for it.
LEMMA TreeListing ==
    ASSUME TreeInv, pc = "expand", out.asking # NoItem,
           NEW ok \in BOOLEAN, NEW refs, ok => refs \in Seq(Nat), ~ok => refs = <<>>,
           Listing(ok, refs)
    PROVE  TreeInv'
<1>1. PICK n : n = out.asking.name
  OBVIOUS
<1>2. PICK x : x = out
  OBVIOUS
<1>3. PICK y : y = IF ok THEN Answered(out, refs) ELSE Unanswered(out)
  OBVIOUS
<1>4. /\ AnswersFor(n, ok, refs) /\ call' = call /\ out' = y
  BY <1>1, <1>3 DEF Listing, AnswersFor
<1>5. AnswersInv /\ AskedAbout(x, n)
  BY <1>1, <1>2, AskedFor DEF TreeInv
<1>6. refs \in Seq(Nat) /\ (ok \/ refs = <<>>) /\ Answerable(n)
  BY <1>5, EmptySeq DEF AskedAbout
<1>7. AnswersInv'
  BY <1>4, <1>5, <1>6, AnswersGrow
<1>8. Shows(y)'
  <2>1. CASE ok
    <3>1. AnswersFor(n, TRUE, refs) /\ y = Answered(x, refs)
      BY <1>2, <1>3, <1>4, <2>1
    <3> QED
      BY <1>4, <1>5, <1>6, <3>1, AnsweredShows
  <2>2. CASE ~ok
    <3>1. AnswersFor(n, FALSE, <<>>) /\ y = Unanswered(x)
      BY <1>2, <1>3, <1>4, <2>2
    <3> QED
      BY <1>4, <1>5, <3>1, UnansweredShows
  <2> QED
    BY <2>1, <2>2
<1> QED
  BY <1>4, <1>7, <1>8 DEF TreeInv

\* Each step keeps the tree shown.
LEMMA TreeStep == Inv /\ TreeInv /\ [Next]_vars => TreeInv'
<1> SUFFICES ASSUME Inv, TreeInv, [Next]_vars PROVE TreeInv'
  OBVIOUS
<1>1. CASE \/ \E explicit \in BOOLEAN : Evaluate(explicit)
           \/ \E frame \in {NoFrame, Explicit} : Context(frame)
           \/ \E full \in BOOLEAN : Execute(full)
  <2>1. pc' # "expand"
    BY <1>1 DEF Evaluate, Context, Execute, Begins
  <2> QED
    BY <2>1 DEF TreeInv
<1>2. CASE \/ WaitFails \/ ErrorTaken \/ ResponseTaken \/ StopTaken \/ StackTaken \/ ThreadsTaken
           \/ Expanded \/ CleanUp
  <2>1. pc' # "expand"
    BY <1>2 DEF WaitFails, ErrorTaken, ResponseTaken, StopTaken, StackTaken, ThreadsTaken, Expanded,
       CleanUp, Ends, Return, StackFails, ReportStop
  <2> QED
    BY <2>1 DEF TreeInv
<1>3. CASE EvaluateTaken \/ ScopesTaken
  BY <1>3, TreeEvaluate, TreeScopes
<1>4. CASE Expand
  BY <1>4, TreeExpand
<1>5. CASE VariablesTaken
  <2>1. PICK reply \in {inbox[i] : i \in 1..Len(inbox)} : Take(reply) /\ Listing(reply.ok, reply.refs)
    BY <1>5 DEF VariablesTaken
  <2>2. inbox # <<>> /\ pc = "expand" /\ out.asking # NoItem
    BY <1>5, <2>1 DEF Take, Waiting, VariablesTaken
  <2>3. /\ reply.ok \in BOOLEAN /\ (reply.ok => reply.refs \in Seq(Nat))
        /\ ~reply.ok => reply.refs = <<>>
    BY <2>1, <2>2, InboxFacts, InspectionAssumption DEF Answering, Listable, InspectionAssumption,
       Answers
  <2> QED
    BY <2>1, <2>2, <2>3, TreeListing
<1>6. CASE VariablesUnavailable
  <2>1. pc = "expand" /\ out.asking # NoItem /\ Listing(FALSE, <<>>)
    BY <1>6 DEF VariablesUnavailable, GiveUp, Waiting
  <2> QED
    BY <2>1, TreeListing
<1>7. CASE \/ Deliver \/ Cancel \/ Resume \/ Lose \/ Serve \/ TargetStops \/ Invalidates
           \/ UNCHANGED vars
  <2>1. UNCHANGED <<pc, out, answers, call>>
    BY <1>7 DEF Deliver, Cancel, Resume, Lose, Serve, TargetStops, Invalidates, Elsewhere,
       expandVars, vars
  <2>2. PICK x : x = out
    OBVIOUS
  <2>3. pc = "expand" => AnswersInv' /\ Shows(x)'
    BY <2>1, <2>2, SameTree DEF TreeInv
  <2> QED
    BY <2>1, <2>2, <2>3 DEF TreeInv
<1> QED
  BY <1>1, <1>2, <1>3, <1>4, <1>5, <1>6, <1>7 DEF Next, Tools

\* However many variables are listed and however they refer to each other, a context or
\* an evaluate shows the whole tree of what was answered, in order, or is truncated,
\* says so while there is room, and shows what comes first (tools_inspection.go:449-602).
THEOREM ShowsTree == Spec => []WholeOrTruncated
<1>1. Init => TreeInv
  BY DEF Init, TreeInv
<1>2. TreeInv => WholeOrTruncated
  <2> SUFFICES ASSUME pc = "expand", Finished(out), Good(out, {}, Due)
               PROVE  ShowsAllOrTruncates(out)
    BY DEF TreeInv, WholeOrTruncated, Finished, Shows, Asked
  <2>1. out.work = <<>> /\ 1..Len(out.work) = {}
    BY DEF Finished
  <2>2. \A line \in Due \ Written(out) : out.truncated /\ Past(out, Place(line))
    BY <2>1 DEF Good, LeftTo
  <2> QED
    BY <2>2 DEF Good, ShowsAllOrTruncates, Written, Past, Sorted
<1> QED
  BY <1>1, <1>2, TreeStep, Always, PTL DEF Spec
================================================================================
