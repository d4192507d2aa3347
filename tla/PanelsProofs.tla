---------------------------- MODULE PanelsProofs ----------------------------
(***************************************************************************)
(* For any terminals, machines and keys between two draws: on the process  *)
(* page an arrow goes from a process to the next one, or to the one        *)
(* before, through the ends of the list, however far it is scrolled.       *)
(*                                                                         *)
(* The page is a panel with a row below the other for each process it has  *)
(* room for (ListOf); of these the nearest one below is the next           *)
(* (NearestRow); past the last, either the list has more and scrolls, or   *)
(* the frame turns round and the list with it (Onward).                    *)
(***************************************************************************)
EXTENDS MCPanels, SumTheorems, SequenceTheorems

USE FarAssumption

\* The least of some numbers is the one that is below all.
LEMMA LeastIs ==
    ASSUME NEW S, S \subseteq Int, NEW x \in S, \A y \in S : x <= y
    PROVE  Min(S) = x
<1>1. \A z \in S : (\A y \in S : z <= y) => z = x
    OBVIOUS
<1> QED BY <1>1 DEF Min

\* The greatest is the one that is above all.
LEMMA GreatestIs ==
    ASSUME NEW S, S \subseteq Int, NEW x \in S, \A y \in S : x >= y
    PROVE  Max(S) = x
<1>1. \A z \in S : (\A y \in S : z >= y) => z = x
    OBVIOUS
<1> QED BY <1>1 DEF Max

\* All members of a sequence, picked, are the sequence.
LEMMA PickedAll ==
    ASSUME NEW s, NEW n \in Nat, DOMAIN s = 1..n
    PROVE  /\ DOMAIN Picked(s, 1..n) = 1..n
           /\ \A k \in 1..n : Picked(s, 1..n)[k] = s[k]
<1> DEFINE P == 1..n
           rank(j) == Cardinality({i \in P : i < j}) + 1
<1>1. Cardinality(P) = n
    <2>1. 1 \in Int /\ n \in Int
        OBVIOUS
    <2>2. Cardinality(1..n) = IF 1 > n THEN 0 ELSE n - 1 + 1
        BY <2>1, FS_Interval, Zenon
    <2> QED BY <2>2
<1>2. ASSUME NEW j \in P PROVE rank(j) = j
    <2>1. {i \in P : i < j} = 1..(j - 1)
        OBVIOUS
    <2>2. PICK q \in Int : q = j - 1 /\ 1 \in Int
        OBVIOUS
    <2>3. Cardinality(1..q) = IF 1 > q THEN 0 ELSE q - 1 + 1
        BY <2>2, FS_Interval, Zenon
    <2>4. Cardinality({i \in P : i < j}) = q
        <3>1. {i \in P : i < j} = 1..q /\ q \in Nat
            BY <2>1, <2>2
        <3> QED BY <2>3, <3>1
    <2> QED BY <2>2, <2>4
<1>3. Picked(s, P) = [k \in 1..Cardinality(P) |-> s[CHOOSE j \in P : rank(j) = k]]
    BY DEF Picked
<1> HIDE DEF rank
<1>4. ASSUME NEW k \in P PROVE (CHOOSE j \in P : rank(j) = k) = k
    <2>1. \A j \in P : rank(j) = k <=> j = k
        BY <1>2
    <2> HIDE DEF P
    <2> QED BY <2>1
<1> QED BY <1>1, <1>3, <1>4

\* Nothing picked is no sequence at all.
LEMMA PickedNone == ASSUME NEW s PROVE Picked(s, {}) = <<>>
<1>1. Cardinality({}) = 0
    BY FS_EmptySet
<1>2. 1..0 = {}
    OBVIOUS
<1>3. Picked(s, {}) = [k \in {} |-> s[CHOOSE j \in {} : Cardinality({i \in {} : i < j}) + 1 = k]]
    BY <1>1, <1>2 DEF Picked
<1> QED BY <1>3

\* A page of one panel.
LEMMA RegisterOne ==
    ASSUME NEW p
    PROVE  Register(<<p>>) = AddPanel(<<>>, p)
<1> DEFINE ps == <<p>>
           F(g, n) == IF n = 0 THEN <<>> ELSE AddPanel(g[n - 1], ps[n])
           first == CHOOSE g : g = [n \in 0..1 |-> F(g, n)]
<1>1. Len(ps) = 1 /\ ps[1] = p
    OBVIOUS
<1>2. Register(ps) = first[1]
    BY <1>1 DEF Register
<1>3. \E g : g = [n \in 0..1 |-> F(g, n)]
    <2> DEFINE h == [n \in 0..1 |-> IF n = 0 THEN <<>> ELSE AddPanel(<<>>, p)]
    <2>1. h[0] = <<>> /\ h[1] = AddPanel(<<>>, p)
        OBVIOUS
    <2>2. F(h, 0) = <<>> /\ F(h, 1) = AddPanel(<<>>, p)
        <3> HIDE DEF h
        <3> QED BY <1>1, <2>1
    <2>3. h = [n \in 0..1 |-> F(h, n)]
        <3>1. \A n \in 0..1 : h[n] = F(h, n)
            <4>1. \A n \in 0..1 : n = 0 \/ n = 1
                OBVIOUS
            <4> HIDE DEF h, F
            <4> QED BY <2>1, <2>2, <4>1
        <3> HIDE DEF F
        <3> QED BY <3>1
    <2> QED BY <2>3
<1>4. first = [n \in 0..1 |-> F(first, n)]
    BY <1>3, Zenon
<1> HIDE DEF first
<1>5. first[0] = <<>>
    BY <1>4
<1>6. first[1] = AddPanel(first[0], ps[1])
    BY <1>4
<1> QED BY <1>1, <1>2, <1>5, <1>6

-----------------------------------------------------------------------------
(* The process page *)

\* How many rows it has for a machine m on an area a.
RowCount(a, m) == Smaller(Len(m.procs), VisibleProcesses(a))

\* Areas have whole coordinates, and no negative size where lines are laid out.
LEMMA AreaTypes ==
    ASSUME NEW size, size.w \in Nat, size.h \in Nat, NEW m, IsMachine(m)
    PROVE  /\ Drawable(size).x \in Int /\ Drawable(size).y \in Int
           /\ Drawable(size).w \in Nat /\ Drawable(size).h \in Int
           /\ Content(Drawable(size)).x \in Int /\ Content(Drawable(size)).y \in Int
           /\ Content(Drawable(size)).w \in Nat /\ Content(Drawable(size)).h \in Nat
           /\ Len(m.procs) \in Nat /\ VisibleProcesses(Drawable(size)) \in Nat
           /\ RowCount(Drawable(size), m) \in Nat
<1> DEFINE a == Drawable(size)
           b == Body(size)
<1>1. b.x = 0 /\ b.y = 2 /\ b.w = size.w /\ b.h = size.h - 3
    BY DEF Body, Rect
<1>2. b = [x |-> 0, y |-> 2, w |-> size.w, h |-> size.h - 3]
    BY DEF Body, Rect
<1> HIDE DEF b
<1>3. a.x \in Int /\ a.y \in Int /\ a.w \in Nat /\ a.h \in Int
    BY <1>1, <1>2 DEF Drawable, Top, Smaller, b
<1> HIDE DEF a
<1>4. Framed(a).x \in Int /\ Framed(a).y \in Int /\ Framed(a).w \in Nat /\ Framed(a).h \in Nat
    BY <1>3 DEF Framed, Inset, Rect, Minus, Larger
<1>5. Content(a).x \in Int /\ Content(a).y \in Int /\ Content(a).w \in Nat /\ Content(a).h \in Nat
    BY <1>4 DEF Content, Inset, Rect, Minus, Larger
<1>6. VisibleProcesses(a) \in Nat
    BY <1>5 DEF VisibleProcesses, Minus, Larger
<1>7. Len(m.procs) \in Nat
    BY DEF IsMachine, IsList
<1>8. RowCount(a, m) \in Nat
    BY <1>6, <1>7 DEF RowCount, Smaller
<1> QED BY <1>3, <1>5, <1>6, <1>7, <1>8 DEF a

\* A panel that scrolls with a row below the other for each line of c.
ListOf(shown, c, n) ==
    /\ DOMAIN shown = 1..(n + 1)
    /\ shown[1].parent = Root /\ shown[1].list = TRUE
    /\ \A k \in 1..n : shown[k + 1].rect = Line(c, k) /\ shown[k + 1].parent = 1

\* The process page is nothing but its panel, or such a list with all the rows.
LEMMA PageIsList ==
    ASSUME NEW size, size.w \in Nat, size.h \in Nat, NEW m, IsMachine(m)
    PROVE  LET shown == Page("process", size, m, 0, 1, 0)
               c == Content(Drawable(size))
           IN  \/ \A f \in DOMAIN shown : f = 1
               \/ c.w > 0 /\ ListOf(shown, c, RowCount(Drawable(size), m))
<1> DEFINE a == Drawable(size)
           c == Content(a)
           n == RowCount(a, m)
           start == Smaller(0, Minus(Len(m.procs), VisibleProcesses(a)))
           Of(i) == Thing("process", m.procs[start + i].pid, m.procs[start + i].since)
           lines == [i \in 1..n |-> Cell(Line(c, i), Of(i))]
           panel == Panel(a, TRUE, Metric("proc.cpu"), lines)
           shown == Page("process", size, m, 0, 1, 0)
<1>1. ProcessPage(a, m, 0) = <<panel>>
    BY Zenon DEF ProcessPage, RowCount
<1>2. shown = AddPanel(<<>>, panel)
    <2>1. PanelsOf("process", a, m, 0) = ProcessPage(a, m, 0)
        BY DEF PanelsOf
    <2>2. shown = Register(PanelsOf("process", a, m, 0))
        BY Zenon DEF Page
    <2> HIDE DEF panel
    <2> QED BY <1>1, <2>1, <2>2, RegisterOne
<1>3. n \in Nat /\ c.w \in Nat
    BY AreaTypes
<1>4. panel.rect = a /\ panel.list = TRUE /\ panel.tells = Metric("proc.cpu") /\ panel.lines = lines
    <2> HIDE DEF lines, a
    <2> QED BY DEF Panel
<1> DEFINE places == {i \in DOMAIN lines : ~Empty(lines[i].rect) /\ lines[i].tells # NoTarget}
<1>5. places = IF c.w = 0 THEN {} ELSE 1..n
    <2>1. DOMAIN lines = 1..n
        OBVIOUS
    <2>2. ASSUME NEW i \in 1..n PROVE Empty(lines[i].rect) <=> c.w = 0
        <3>1. lines[i].rect = Line(c, i)
            <4> HIDE DEF c, n, Of
            <4> QED BY DEF Cell
        <3> HIDE DEF lines, c
        <3> QED BY <3>1 DEF Empty, Line, Rect
    <2>3. ASSUME NEW i \in 1..n PROVE lines[i].tells # NoTarget
        <3>1. lines[i].tells = Of(i)
            <4> HIDE DEF c, n, Of
            <4> QED BY DEF Cell
        <3>2. Of(i).kind = "process" /\ NoTarget.kind = "none"
            <4> HIDE DEF start
            <4> QED BY DEF Thing, NoTarget
        <3> HIDE DEF lines, Of
        <3> QED BY <3>1, <3>2
    <2> HIDE DEF lines
    <2> QED BY <2>1, <2>2, <2>3
<1> DEFINE head == Region(a, Root, TRUE, NoIndex, NoTab, Metric("proc.cpu"))
           kept == Picked(lines, places)
           rows == [i \in DOMAIN kept |->
                      Region(kept[i].rect, 1, FALSE, NoIndex, NoTab, kept[i].tells)]
<1>6. shown = IF Empty(a) THEN <<>> ELSE <<head>> \o rows
    <2>1. Len(<<>>) + 1 = 1 /\ Append(<<>>, head) = <<head>>
        OBVIOUS
    <2> HIDE DEF panel, a
    <2>2. AddPanel(<<>>, panel) = IF Empty(a) THEN <<>> ELSE Append(<<>>, head) \o rows
        <3>1. \A q : AddPanel(<<>>, q) =
                LET keep == Picked(q.lines, {i \in DOMAIN q.lines :
                              ~Empty(q.lines[i].rect) /\ q.lines[i].tells # NoTarget})
                IN  IF Empty(q.rect) THEN <<>>
                    ELSE Append(<<>>, Region(q.rect, Root, q.list, NoIndex, NoTab, q.tells))
                           \o [i \in DOMAIN keep |->
                                 Region(keep[i].rect, Len(<<>>) + 1, FALSE, NoIndex, NoTab, keep[i].tells)]
            BY Zenon DEF AddPanel
        <3> HIDE DEF lines
        <3> QED BY <1>4, <2>1, <3>1, Zenon
    <2> QED BY <1>2, <2>1, <2>2
<1>7. CASE Empty(a)
    <2>1. shown = <<>>
        BY <1>6, <1>7
    <2> HIDE DEF shown
    <2>2. \A f \in DOMAIN shown : f = 1
        BY <2>1
    <2> QED BY <2>2 DEF shown
<1>8. CASE ~Empty(a) /\ c.w = 0
    <2>1. kept = <<>>
        BY <1>5, <1>8, PickedNone
    <2>2. rows = <<>>
        <3> HIDE DEF kept
        <3> QED BY <2>1
    <2> HIDE DEF rows, head
    <2>3. shown = <<head>>
        BY <1>6, <1>8, <2>2
    <2> HIDE DEF shown
    <2>4. \A f \in DOMAIN shown : f = 1
        BY <2>3
    <2> QED BY <2>4 DEF shown
<1>9. CASE ~Empty(a) /\ c.w # 0
    <2>1. DOMAIN kept = 1..n /\ \A k \in 1..n : kept[k] = lines[k]
        <3>1. DOMAIN lines = 1..n
            OBVIOUS
        <3>2. places = 1..n
            BY <1>5, <1>9
        <3> HIDE DEF lines, places, n
        <3> QED BY <1>3, <3>1, <3>2, PickedAll
    <2>2. \A k \in 1..n : kept[k].rect = Line(c, k)
        <3> HIDE DEF kept, c, Of, n
        <3> QED BY <2>1 DEF Cell
    <2> HIDE DEF kept, n
    <2>3. DOMAIN rows = 1..n /\ rows = [k \in 1..n |-> rows[k]]
        BY <2>1
    <2>4. \A k \in 1..n : rows[k].rect = Line(c, k) /\ rows[k].parent = 1
        BY <2>1, <2>2 DEF Region
    <2>5. head.parent = Root /\ head.list = TRUE
        <3> HIDE DEF a
        <3> QED BY DEF Region
    <2> HIDE DEF rows, head
    <2>6. /\ DOMAIN (<<head>> \o rows) = 1..(n + 1)
          /\ (<<head>> \o rows)[1] = head
          /\ \A k \in 1..n : (<<head>> \o rows)[k + 1] = rows[k]
        <3>1. rows \in Seq({rows[k] : k \in 1..n}) /\ Len(rows) = n
            BY <1>3, <2>3
        <3> DEFINE T == {head} \cup {rows[k] : k \in 1..n}
        <3>2. rows \in Seq(T) /\ <<head>> \in Seq(T) /\ Len(<<head>>) = 1 /\ <<head>>[1] = head
            BY <3>1
        <3> HIDE DEF T
        <3> DEFINE one == <<head>>
        <3> HIDE DEF one
        <3>3. /\ one \o rows \in Seq(T) /\ Len(one \o rows) = Len(one) + Len(rows)
              /\ \A i \in 1..(Len(one) + Len(rows)) :
                    (one \o rows)[i] = IF i <= Len(one) THEN one[i] ELSE rows[i - Len(one)]
            BY <3>2, ConcatProperties DEF one
        <3>4. Len(one) = 1 /\ one[1] = head
            BY <3>2 DEF one
        <3>5. /\ DOMAIN (one \o rows) = 1..(n + 1)
              /\ (one \o rows)[1] = head
              /\ \A k \in 1..n : (one \o rows)[k + 1] = rows[k]
            <4>1. DOMAIN (one \o rows) = 1..(n + 1)
                BY <1>3, <3>1, <3>3, <3>4
            <4>2. (one \o rows)[1] = head
                BY <1>3, <3>1, <3>3, <3>4
            <4>3. ASSUME NEW k \in 1..n PROVE (one \o rows)[k + 1] = rows[k]
                <5>1. k + 1 \in 1..(Len(one) + Len(rows)) /\ ~(k + 1 <= Len(one))
                    BY <1>3, <3>1, <3>4
                <5>2. (one \o rows)[k + 1] = rows[k + 1 - Len(one)]
                    BY <3>3, <5>1
                <5>3. k + 1 - Len(one) = k
                    BY <1>3, <3>4
                <5> QED BY <5>2, <5>3
            <4> QED BY <4>1, <4>2, <4>3
        <3> QED BY <3>5 DEF one
    <2>7. shown = <<head>> \o rows
        BY <1>6, <1>9 DEF head, rows
    <2> HIDE DEF shown, c
    <2>8. ListOf(shown, c, n)
        BY <2>4, <2>5, <2>6, <2>7 DEF ListOf
    <2>9. c.w > 0
        BY <1>3, <1>9
    <2> QED BY <2>8, <2>9 DEF shown, c, n
<1> QED BY <1>7, <1>8, <1>9

-----------------------------------------------------------------------------
(* The frame among the rows *)

\* The rows hang on the panel and nothing hangs on them.
LEMMA RowsOfList ==
    ASSUME NEW shown, NEW c, NEW n \in Nat, ListOf(shown, c, n), NEW f \in 2..(n + 1)
    PROVE  /\ Exists(shown, f) /\ ParentOf(shown, f) = 1
           /\ SiblingsOf(shown, f) = 2..(n + 1) /\ ChildrenOf(shown, f) = {}
           /\ Exists(shown, 1) /\ shown[1].list = TRUE
<1>1. /\ DOMAIN shown = 1..(n + 1)
      /\ shown[1].parent = 0 /\ shown[1].list = TRUE
    BY DEF ListOf, Root
<1>2. ASSUME NEW i \in 2..(n + 1) PROVE shown[i].parent = 1
    <2>1. PICK k \in 1..n : i = k + 1
        <3>1. i - 1 \in 1..n /\ i = (i - 1) + 1
            OBVIOUS
        <3> QED BY <3>1
    <2> QED BY <2>1 DEF ListOf
<1>3. Exists(shown, f) /\ Exists(shown, 1) /\ ParentOf(shown, f) = 1
    BY <1>1, <1>2 DEF Exists, ParentOf
<1>4. ChildrenOf(shown, 1) = 2..(n + 1) /\ ChildrenOf(shown, f) = {}
    BY <1>1, <1>2 DEF ChildrenOf
<1> QED BY <1>1, <1>3, <1>4 DEF SiblingsOf, Root

\* The same on an area where there is something to see.
SeenList(shown, c, n) ==
    /\ c.x \in Int /\ c.y \in Int /\ c.w \in Nat \ {0}
    /\ n \in Nat /\ ListOf(shown, c, n)

\* The row below f, or above, among n.
RowBelow(f, n) == IF f = n + 1 THEN Root ELSE f + 1
RowAbove(f) == IF f = 2 THEN Root ELSE f - 1

\* The next row is the nearest one below, the one before the nearest above.
LEMMA NearestRow ==
    ASSUME NEW shown, NEW c, NEW n, SeenList(shown, c, n), NEW f \in 2..(n + 1),
           NEW dir \in {"up", "down"}
    PROVE  Nearest(shown, 2..(n + 1), f, dir) =
             IF dir = "down" THEN RowBelow(f, n) ELSE RowAbove(f)
<1>0. /\ c.x \in Int /\ c.y \in Int /\ c.w \in Nat \ {0}
      /\ n \in Nat /\ ListOf(shown, c, n)
    BY DEF SeenList
<1> USE <1>0
<1> DEFINE S == 2..(n + 1)
           Y(i) == c.y + i - 1
<1>1. ASSUME NEW i \in S PROVE shown[i].rect = Rect(c.x, Y(i), c.w, 1)
    <2>1. PICK k \in 1..n : i = k + 1
        <3>1. i - 1 \in 1..n /\ i = (i - 1) + 1
            OBVIOUS
        <3> QED BY <3>1
    <2>2. shown[i].rect = Line(c, k)
        BY <2>1 DEF ListOf
    <2>3. c.y + k = Y(i)
        BY <2>1
    <2> QED BY <2>2, <2>3 DEF Line
<1> DEFINE R(i) == Rect(c.x, Y(i), c.w, 1)
<1>2. ASSUME NEW i \in S
      PROVE  R(i).x = c.x /\ R(i).y = Y(i) /\ R(i).w = c.w /\ R(i).h = 1
    BY DEF Rect
<1> HIDE DEF R
<1>3. Exists(shown, f)
    BY RowsOfList
<1>4. ASSUME NEW i \in S, NEW j \in S
      PROVE  /\ Ahead(R(i), R(j), "down") <=> j > i
             /\ Ahead(R(i), R(j), "up") <=> j < i
             /\ j > i => Gap(R(i), R(j), "down") = j - i - 1
             /\ j < i => Gap(R(i), R(j), "up") = i - j - 1
             /\ Overlap(R(i), R(j), dir) = c.w
    <2>1. /\ Along(R(i), "down") = [start |-> Y(i), end |-> Y(i) + 1]
          /\ Along(R(i), "up") = [start |-> Y(i), end |-> Y(i) + 1]
          /\ Along(R(j), "down") = [start |-> Y(j), end |-> Y(j) + 1]
          /\ Along(R(j), "up") = [start |-> Y(j), end |-> Y(j) + 1]
        BY <1>2 DEF Along, Vertical
    <2>2. /\ Across(R(i), dir) = [lo |-> c.x, hi |-> c.x + c.w]
          /\ Across(R(j), dir) = [lo |-> c.x, hi |-> c.x + c.w]
        BY <1>2 DEF Across, Vertical
    <2>3. Overlap(R(i), R(j), dir) = c.w
        BY <2>2 DEF Overlap, Minus, Smaller, Larger
    <2>4. Ahead(R(i), R(j), "down") <=> j > i
        BY <2>1 DEF Ahead
    <2>5. Ahead(R(i), R(j), "up") <=> j < i
        BY <2>1 DEF Ahead
    <2>6. j > i => Gap(R(i), R(j), "down") = j - i - 1
        BY <2>1 DEF Gap, Minus, Larger
    <2>7. j < i => Gap(R(i), R(j), "up") = i - j - 1
        BY <2>1 DEF Gap, Minus, Larger
    <2> QED BY <2>3, <2>4, <2>5, <2>6, <2>7
<1> DEFINE ahead == {i \in S \ {f} : Ahead(shown[f].rect, shown[i].rect, dir)}
           inLine == {i \in ahead : Overlap(shown[f].rect, shown[i].rect, dir) > 0}
           far(i) == IF dir = "down" THEN i - f - 1 ELSE f - i - 1
<1>5. shown[f].rect = R(f) /\ \A i \in S : shown[i].rect = R(i)
    BY <1>1 DEF R
<1>6. ahead = IF dir = "down" THEN (f + 1)..(n + 1) ELSE 2..(f - 1)
    <2>1. ahead = {i \in S \ {f} : IF dir = "down" THEN i > f ELSE i < f}
        BY <1>4, <1>5
    <2> HIDE DEF ahead
    <2> QED BY <2>1
<1>7. inLine = ahead
    <2>1. \A i \in ahead : i \in S
        OBVIOUS
    <2>2. \A i \in ahead : Overlap(shown[f].rect, shown[i].rect, dir) = c.w
        BY <1>4, <1>5, <2>1
    <2> HIDE DEF ahead
    <2> QED BY <2>2
<1>8. Nearest(shown, S, f, dir) =
        IF ahead = {} THEN Root ELSE Best(shown, ahead, shown[f].rect, dir)
    BY <1>3, <1>7, Zenon DEF Nearest
<1>9. ASSUME NEW i \in ahead PROVE Score(shown[f].rect, shown[i].rect, dir) = far(i) * 10000 - c.w
    <2>1. i \in S /\ (IF dir = "down" THEN i > f ELSE i < f)
        BY <1>6
    <2>2. Gap(R(f), R(i), dir) = far(i)
        BY <1>4, <2>1
    <2>3. Overlap(R(f), R(i), dir) = c.w
        BY <1>4, <2>1
    <2>4. Score(R(f), R(i), dir) = far(i) * 10000 - c.w
        BY <2>1, <2>2, <2>3 DEF Score
    <2> QED BY <1>5, <2>1, <2>4
<1> DEFINE best == IF dir = "down" THEN f + 1 ELSE f - 1
<1>10. ASSUME ahead # {} PROVE Best(shown, ahead, shown[f].rect, dir) = best
    <2>1. best \in ahead /\ far(best) = 0 /\ \A i \in ahead : far(i) \in Nat /\ (far(i) = 0 <=> i = best)
        <3> HIDE DEF ahead
        <3> QED BY <1>6, <1>10
    <2> DEFINE score(i) == Score(shown[f].rect, shown[i].rect, dir)
               scores == {score(i) : i \in ahead}
    <2>2. \A i \in ahead : score(i) = far(i) * 10000 - c.w
        BY <1>9
    <2>3. Best(shown, ahead, shown[f].rect, dir) = Min({i \in ahead : score(i) = Min(scores)})
        BY DEF Best
    <2> HIDE DEF score
    <2>4. ahead \subseteq Int
        BY <1>6
    <2> HIDE DEF ahead, far, best
    <2>5. Min(scores) = -c.w
        <3>1. scores \subseteq Int
            BY <2>1, <2>2
        <3>2. score(best) = -c.w
            BY <2>1, <2>2
        <3>3. -c.w \in scores /\ \A y \in scores : -c.w <= y
            BY <2>1, <2>2, <3>2
        <3> HIDE DEF scores
        <3> QED BY <3>1, <3>3, LeastIs
    <2>6. \A i \in ahead : score(i) = -c.w <=> i = best
        BY <2>1, <2>2
    <2>7. {i \in ahead : score(i) = Min(scores)} = {best}
        BY <2>1, <2>5, <2>6
    <2>8. Min({best}) = best
        <3>1. {best} \subseteq Int /\ best \in {best} /\ \A y \in {best} : best <= y
            BY <2>1, <2>4
        <3> QED BY <3>1, LeastIs
    <2> QED BY <2>3, <2>7, <2>8
<1>11. ahead = {} <=> IF dir = "down" THEN f = n + 1 ELSE f = 2
    <2> HIDE DEF ahead
    <2>1. f # n + 1 => f + 1 \in (f + 1)..(n + 1)
        OBVIOUS
    <2>2. f = n + 1 => (f + 1)..(n + 1) = {}
        OBVIOUS
    <2>3. f # 2 => f - 1 \in 2..(f - 1)
        OBVIOUS
    <2>4. f = 2 => 2..(f - 1) = {}
        OBVIOUS
    <2> QED BY <1>6, <2>1, <2>2, <2>3, <2>4
<1> HIDE DEF ahead
<1> QED BY <1>8, <1>10, <1>11 DEF best, RowBelow, RowAbove

\* Around the ends.
LEMMA RoundTheEnds ==
    ASSUME NEW n \in Nat, NEW f \in 2..(n + 1)
    PROVE  /\ Min(2..(n + 1)) = 2 /\ Max(2..(n + 1)) = n + 1
           /\ f = n + 1 => WrapWithin(2..(n + 1), f, TRUE) = 2
           /\ f = 2 => WrapWithin(2..(n + 1), f, FALSE) = n + 1
<1>1. Min(2..(n + 1)) = 2
    <2>1. 2..(n + 1) \subseteq Int /\ 2 \in 2..(n + 1) /\ \A y \in 2..(n + 1) : 2 <= y
        OBVIOUS
    <2> QED BY <2>1, LeastIs
<1>2. Max(2..(n + 1)) = n + 1
    <2>1. 2..(n + 1) \subseteq Int /\ n + 1 \in 2..(n + 1) /\ \A y \in 2..(n + 1) : n + 1 >= y
        OBVIOUS
    <2> QED BY <2>1, GreatestIs
<1>3. f = n + 1 => {i \in 2..(n + 1) : i > f} = {}
    OBVIOUS
<1>4. f = 2 => {i \in 2..(n + 1) : i < f} = {}
    OBVIOUS
<1> QED BY <1>1, <1>2, <1>3, <1>4 DEF WrapWithin

\* Rows stand in one line only when there is but one.
LEMMA StackedRows ==
    ASSUME NEW shown, NEW c, c.y \in Int, NEW n \in Nat, ListOf(shown, c, n), NEW f \in 2..(n + 1)
    PROVE  Stacked(shown, f) <=> n # 1
<1>1. ASSUME NEW i \in 2..(n + 1) PROVE shown[i].rect.y = c.y + i - 1
    <2>1. PICK k \in 1..n : i = k + 1
        <3>1. i - 1 \in 1..n /\ i = (i - 1) + 1
            OBVIOUS
        <3> QED BY <3>1
    <2>2. shown[i].rect = Line(c, k)
        BY <2>1 DEF ListOf
    <2>3. shown[i].rect.y = c.y + k
        BY <2>2 DEF Line, Rect
    <2> QED BY <2>1, <2>3
<1>2. Exists(shown, f) /\ SiblingsOf(shown, f) = 2..(n + 1)
    BY RowsOfList
<1>3. Stacked(shown, f) <=> \E i \in 2..(n + 1) : shown[i].rect.y # shown[f].rect.y
    BY <1>2 DEF Stacked
<1>4. \A i \in 2..(n + 1) : shown[i].rect.y # shown[f].rect.y <=> i # f
    BY <1>1
<1>5. (\E i \in 2..(n + 1) : i # f) <=> n # 1
    <2>1. n = 1 => \A i \in 2..(n + 1) : i = f
        OBVIOUS
    <2>2. n # 1 => n + 1 \in 2..(n + 1) /\ 2 \in 2..(n + 1) /\ n + 1 # 2
        OBVIOUS
    <2> QED BY <2>1, <2>2
<1> QED BY <1>3, <1>4, <1>5

\* Numbers below p, p itself and the one before 0, modulo p.
LEMMA Turning ==
    ASSUME NEW p \in Nat \ {0}
    PROVE  /\ \A k \in 0..(p - 1) : k % p = k
           /\ p % p = 0 /\ (-1) % p = p - 1
OBVIOUS

-----------------------------------------------------------------------------
(* The invariant *)

\* The keys come after a draw of the page they find, and the list is scrolled by
\* a number of lines.
PanelInv ==
    /\ scroll \in Nat /\ typed \in Nat
    /\ drawn \in Draws /\ regs = Shown[drawn]
    /\ typed = 0 => drawn[1] = view

\* What a draw is of, and what it registers.
LEMMA DrawnIs ==
    ASSUME NEW d \in Draws
    PROVE  /\ d[2] \in Sizes /\ d[3] \in Machines
           /\ d[1] = "process" => d[4] = 1 /\ d[5] = 0
           /\ Shown[d] = Page(d[1], d[2], Make[d[3]], 0, d[4], d[5])
<1>1. Shown[d] = Page(d[1], d[2], Make[d[3]], 0, d[4], d[5])
    BY DEF Shown
<1>2. /\ d[2] \in Sizes /\ d[3] \in Machines
      /\ d[1] = "process" => d[4] = 1 /\ d[5] = 0
    BY DEF Draws
<1> QED BY <1>1, <1>2

\* How far a list can be scrolled is a number of lines.
LEMMA BoundIsNat ==
    ASSUME PanelInv
    PROVE  bound \in Nat
<1>1. Drawable(drawn[2]).h \in Int /\ Len(Make[drawn[3]].procs) \in Nat
      /\ VisibleProcesses(Drawable(drawn[2])) \in Nat
    BY DrawnIs, MachinesAssumption, AreaTypes DEF PanelInv
<1> QED BY <1>1 DEF bound, ScrollBound, Minus, Larger

\* Wherever the list is scrolled to, it is by a number.
LEMMA ScrollIsNat ==
    ASSUME PanelInv, NEW delta \in Int, ScrollList(delta)
    PROVE  scroll' \in Nat
<1>1. CASE view = "admin"
    BY <1>1 DEF ScrollList, PanelInv
<1>2. CASE view # "admin"
    <2>1. bound \in Nat /\ scroll \in Nat
        BY BoundIsNat DEF PanelInv
    <2>2. ListPlace = [at |-> scroll, last |-> bound]
        BY <1>2 DEF ListPlace
    <2> HIDE DEF bound
    <2>3. ListPlace.at = scroll /\ ListPlace.last = bound
        BY <2>2
    <2>4. Scrolled(delta).at \in Nat
        BY <2>1, <2>3 DEF Scrolled, Smaller, Clamp, Larger
    <2> QED BY <1>2, <2>4 DEF ScrollList
<1> QED BY <1>1, <1>2

\* The first draw is of the page the program begins with.
LEMMA PanelInit == Init => PanelInv
BY DEF Init, PanelInv

\* A draw is of the page shown, and a key leaves the draw what it is.
LEMMA PanelKept == PanelInv /\ [Next]_vars => PanelInv'
<1> SUFFICES ASSUME PanelInv, [Next]_vars PROVE PanelInv'
    OBVIOUS
<1>1. ASSUME Key, scroll' \in Nat PROVE PanelInv'
    <2>1. typed' \in Nat \ {0} /\ drawn' = drawn /\ regs' = regs
        BY <1>1 DEF Key, PanelInv
    <2>2. drawn' \in Draws'
        BY <2>1 DEF PanelInv, Draws, Longest
    <2>3. regs' = Shown'[drawn']
        BY <2>1 DEF PanelInv, Shown, Draws, Longest
    <2> QED BY <1>1, <2>1, <2>2, <2>3 DEF PanelInv
<1>2. ASSUME NEW dir \in Dirs, Arrow(dir) PROVE PanelInv'
    <2>1. Key
        BY <1>2 DEF Arrow
    <2>2. CASE ArrowOnPages(dir)
        BY <1>1, <2>1, <2>2 DEF ArrowOnPages, SwitchPage, GoTo, PanelInv
    <2>3. CASE ArrowToNeighbour(dir)
        BY <1>1, <2>1, <2>3 DEF ArrowToNeighbour, PanelInv
    <2>4. CASE ArrowAtListEnd(dir)
        BY <1>1, <2>1, <2>4, ScrollIsNat DEF ArrowAtListEnd
    <2>5. CASE ArrowAtEdge(dir)
        BY <1>1, <2>1, <2>5 DEF ArrowAtEdge, PanelInv
    <2> QED BY <1>2, <2>2, <2>3, <2>4, <2>5 DEF Arrow
<1>3. CASE Enter
    BY <1>1, <1>3 DEF Enter, PanelInv
<1>4. CASE Esc
    BY <1>1, <1>4 DEF Esc, GoTo, PanelInv
<1>5. CASE PageKey
    BY <1>1, <1>5 DEF PageKey, SwitchPage, GoTo
<1>6. CASE Home
    BY <1>1, <1>6 DEF Home
<1>7. CASE End
    BY <1>1, <1>7 DEF End
<1>8. ASSUME NEW delta \in {-10, 10}, PageScroll(delta) PROVE PanelInv'
    BY <1>1, <1>8, ScrollIsNat DEF PageScroll, PanelInv
<1>9. ASSUME NEW step \in {-1, 1}, Bracket(step) PROVE PanelInv'
    BY <1>1, <1>9 DEF Bracket, PanelInv
<1>10. CASE Draw
    <2>1. PICK d \in Draws :
            d[1] = view /\ drawn' = d /\ regs' = Shown[d] /\ typed' = 0
              /\ UNCHANGED <<view, scroll, tab, selected>>
        BY <1>10 DEF Draw
    <2> QED BY <2>1 DEF PanelInv
<1>11. CASE UNCHANGED vars
    BY <1>11 DEF vars, PanelInv
<1> QED BY <1>2, <1>3, <1>4, <1>5, <1>6, <1>7, <1>8, <1>9, <1>10, <1>11 DEF Next

-----------------------------------------------------------------------------
(* One process on *)

\* The lines there are, as the last draw of the process page found them.
RowsDrawn == RowCount(Drawable(drawn[2]), Make[drawn[3]])

\* On a row of the page, as drawn: the layout, and where the last row leads.
LEMMA OnRow ==
    ASSUME PanelInv, OnProcess
    PROVE  \E c : /\ c.x \in Int /\ c.y \in Int /\ c.w \in Nat \ {0}
                  /\ ListOf(regs, c, RowsDrawn)
                  /\ RowsDrawn \in Nat /\ focus \in 2..(RowsDrawn + 1)
                  /\ bound \in Nat /\ Processes \in Nat /\ scroll \in Nat
                  /\ Processes = bound + RowsDrawn
<1> DEFINE a == Drawable(drawn[2])
           m == Make[drawn[3]]
           c == Content(a)
<1>1. /\ drawn[2] \in Sizes /\ drawn[3] \in Machines
      /\ drawn[1] = "process" /\ typed = 0 /\ focus > 1 /\ Exists(regs, focus)
      /\ drawn[4] = 1 /\ drawn[5] = 0
      /\ Shown[drawn] = Page(drawn[1], drawn[2], Make[drawn[3]], 0, drawn[4], drawn[5])
    BY DrawnIs DEF PanelInv, OnProcess
<1>2. regs = Page("process", drawn[2], m, 0, 1, 0)
    BY <1>1 DEF PanelInv
<1>3. drawn[2].w \in Nat /\ drawn[2].h \in Nat /\ IsMachine(m)
    BY <1>1, MachinesAssumption
<1>4. /\ c.x \in Int /\ c.y \in Int /\ c.w \in Nat
      /\ Len(m.procs) \in Nat /\ VisibleProcesses(a) \in Nat /\ RowsDrawn \in Nat
    BY <1>3, AreaTypes DEF RowsDrawn
<1>5. \/ \A f \in DOMAIN regs : f = 1
      \/ c.w > 0 /\ ListOf(regs, c, RowsDrawn)
    BY <1>2, <1>3, PageIsList DEF RowsDrawn
<1>6. focus \in DOMAIN regs /\ focus # 1
    BY <1>1 DEF Exists
<1>7. c.w > 0 /\ ListOf(regs, c, RowsDrawn)
    BY <1>5, <1>6
<1>8. focus \in 2..(RowsDrawn + 1)
    BY <1>1, <1>4, <1>6, <1>7 DEF ListOf
<1>9. bound = Minus(Len(m.procs), VisibleProcesses(a))
    <2>1. RowsDrawn # 0
        BY <1>4, <1>8
    <2>2. VisibleProcesses(a) # 0
        BY <1>4, <2>1 DEF RowsDrawn, RowCount, Smaller
    <2> QED BY <1>1, <1>4, <2>2 DEF bound, ScrollBound
<1>10. Processes = Len(m.procs) /\ Processes = bound + RowsDrawn /\ bound \in Nat
    BY <1>4, <1>9 DEF Processes, RowsDrawn, RowCount, Smaller, Minus, Larger
<1> HIDE DEF c
<1> QED BY <1>4, <1>7, <1>8, <1>10 DEF PanelInv

\* Whether a step has gone round, from how it is recorded.
LEMMA WrappedField ==
    ASSUME NEW s, NEW p \in BOOLEAN, NEW v, s = [wrapped |-> p, at |-> v]
    PROVE  s.wrapped <=> p
OBVIOUS

\* How far an arrow goes, with N rows of all the processes drawn.
LEMMA Onward ==
    ASSUME PanelInv, OnProcess, NEW dir \in {"up", "down"}, Arrow(dir)
    PROVE  /\ dir = "down" => FramedProcess' = (FramedProcess + 1) % Processes
           /\ dir = "up" => FramedProcess' = (FramedProcess - 1) % Processes
<1> DEFINE n == RowsDrawn
           S == 2..(n + 1)
           at == Smaller(scroll, bound)
<1>1. PICK c : /\ c.x \in Int /\ c.y \in Int /\ c.w \in Nat \ {0}
               /\ ListOf(regs, c, n)
               /\ n \in Nat /\ focus \in S
               /\ bound \in Nat /\ Processes \in Nat /\ scroll \in Nat
               /\ Processes = bound + n
    BY OnRow
<1>2. /\ Exists(regs, focus) /\ ParentOf(regs, focus) = 1
      /\ SiblingsOf(regs, focus) = S /\ ChildrenOf(regs, focus) = {}
      /\ InList /\ focus # Root
    <2>1. focus # Root
        BY <1>1 DEF Root
    <2> HIDE DEF n
    <2>2. /\ Exists(regs, focus) /\ ParentOf(regs, focus) = 1
          /\ SiblingsOf(regs, focus) = S /\ ChildrenOf(regs, focus) = {}
          /\ Exists(regs, 1) /\ regs[1].list = TRUE
        BY <1>1, RowsOfList
    <2> QED BY <2>1, <2>2 DEF InList
<1>3. Neighbour(dir) = IF dir = "down" THEN IF focus = n + 1 THEN Root ELSE focus + 1
                       ELSE IF focus = 2 THEN Root ELSE focus - 1
    <2> HIDE DEF n
    <2>1. Nearest(regs, S, focus, dir) =
            IF dir = "down" THEN IF focus = n + 1 THEN Root ELSE focus + 1
            ELSE IF focus = 2 THEN Root ELSE focus - 1
        <3>1. SeenList(regs, c, n) /\ focus \in 2..(n + 1)
            BY <1>1 DEF SeenList
        <3> HIDE DEF S
        <3>2. Nearest(regs, 2..(n + 1), focus, dir) =
                IF dir = "down" THEN RowBelow(focus, n) ELSE RowAbove(focus)
            BY <3>1, NearestRow
        <3> QED BY <3>2 DEF S, RowBelow, RowAbove
    <2> QED BY <1>2, <2>1 DEF Neighbour
<1>4. bound' = bound /\ Processes' = Processes
    BY DEF Arrow, Key, bound, Processes
<1>5. FramedProcess = at + focus - 2 /\ at \in 0..bound
    BY <1>1 DEF FramedProcess, Smaller
<1>6. FramedProcess' = Smaller(scroll', bound) + focus' - 2
    BY <1>4 DEF FramedProcess
<1>7. Vertical(dir) /\ view = "process"
    BY DEF Vertical, OnProcess
<1>8. ListPlace.at = scroll /\ ListPlace.last = bound /\ (CanScroll <=> bound > 0)
    <2>1. ListPlace = [at |-> scroll, last |-> bound]
        BY <1>7 DEF ListPlace
    <2> HIDE DEF bound
    <2> QED BY <2>1 DEF CanScroll
<1>9. /\ Min(S) = 2 /\ Max(S) = n + 1
      /\ focus = n + 1 => WrapWithin(S, focus, TRUE) = 2
      /\ focus = 2 => WrapWithin(S, focus, FALSE) = n + 1
    BY <1>1, RoundTheEnds
<1>10. /\ \A k \in 0..(Processes - 1) : k % Processes = k
       /\ Processes % Processes = 0 /\ (-1) % Processes = Processes - 1
    <2>1. Processes \in Nat \ {0}
        BY <1>1
    <2> QED BY <2>1, Turning
<1> HIDE DEF bound, Processes, FramedProcess, n
\* It is enough to say how the process in the frame changes.
<1>11. SUFFICES FramedProcess' =
                  IF dir = "down"
                  THEN IF FramedProcess = Processes - 1 THEN 0 ELSE FramedProcess + 1
                  ELSE IF FramedProcess = 0 THEN Processes - 1 ELSE FramedProcess - 1
    <2>1. FramedProcess \in 0..(Processes - 1) /\ Processes # 0
        BY <1>1, <1>5
    <2>2. (FramedProcess + 1) % Processes =
             IF FramedProcess = Processes - 1 THEN 0 ELSE FramedProcess + 1
        <3>1. CASE FramedProcess = Processes - 1
            <4>1. FramedProcess + 1 = Processes
                BY <1>1, <3>1
            <4> QED BY <1>10, <3>1, <4>1
        <3>2. CASE FramedProcess # Processes - 1
            <4>1. FramedProcess + 1 \in 0..(Processes - 1)
                BY <1>1, <2>1, <3>2
            <4>2. (FramedProcess + 1) % Processes = FramedProcess + 1
                BY <1>10, <4>1, Zenon
            <4> QED BY <3>2, <4>2
        <3> QED BY <3>1, <3>2
    <2>3. (FramedProcess - 1) % Processes =
             IF FramedProcess = 0 THEN Processes - 1 ELSE FramedProcess - 1
        <3>1. CASE FramedProcess = 0
            <4>1. FramedProcess - 1 = -1
                BY <3>1
            <4> QED BY <1>10, <3>1, <4>1
        <3>2. CASE FramedProcess # 0
            <4>1. FramedProcess - 1 \in 0..(Processes - 1)
                BY <1>1, <2>1, <3>2
            <4>2. (FramedProcess - 1) % Processes = FramedProcess - 1
                BY <1>10, <4>1, Zenon
            <4> QED BY <3>2, <4>2
        <3> QED BY <3>1, <3>2
    <2> QED BY <2>2, <2>3
<1>12. CASE ArrowOnPages(dir)
    BY <1>2, <1>12 DEF ArrowOnPages
<1>13. CASE ArrowToNeighbour(dir)
    <2>1. focus' = Neighbour(dir) /\ scroll' = scroll /\ Neighbour(dir) # Root
        BY <1>13 DEF ArrowToNeighbour, FrameAndSync
    <2>2. focus' = IF dir = "down" THEN focus + 1 ELSE focus - 1
        BY <1>3, <2>1
    <2>3. IF dir = "down" THEN focus # n + 1 ELSE focus # 2
        BY <1>3, <2>1
    <2> QED BY <1>1, <1>5, <1>6, <2>1, <2>2, <2>3
<1>14. CASE ArrowAtListEnd(dir)
    <2>1. /\ Neighbour(dir) = Root /\ bound > 0
          /\ ScrollList(IF dir = "down" THEN 1 ELSE -1)
        BY <1>8, <1>14 DEF ArrowAtListEnd, AtListEnd
    <2>2. focus = IF dir = "down" THEN n + 1 ELSE 2
        BY <1>1, <1>3, <2>1 DEF Root
    <2>3. CASE dir = "down"
        <3>1. /\ Scrolled(1).wrapped <=> at = bound
              /\ Scrolled(1).at = IF at = bound THEN 0 ELSE at + 1
            <4>1. Scrolled(1).wrapped <=> at = bound
                <5>1. Scrolled(1) =
                        [wrapped |-> at = bound,
                         at |-> IF at = bound THEN bound - at ELSE Clamp(at + 1, 0, bound)]
                    BY <1>8 DEF Scrolled
                <5> HIDE DEF at
                <5> QED BY <5>1, WrappedField
            <4>3. Scrolled(1).at = IF at = bound THEN bound - at ELSE Clamp(at + 1, 0, bound)
                BY <1>8 DEF Scrolled
            <4> HIDE DEF at
            <4>2. at # bound => Clamp(at + 1, 0, bound) = at + 1
                BY <1>1, <1>5 DEF Clamp, Smaller, Larger
            <4> QED BY <1>1, <1>5, <4>1, <4>2, <4>3
        <3>2. /\ scroll' = Scrolled(1).at
              /\ focus' = IF Scrolled(1).wrapped THEN 2 ELSE focus
            BY <1>1, <1>2, <1>7, <1>9, <2>1, <2>3 DEF ScrollList
        <3>3. FramedProcess = at + n - 1
            BY <1>1, <1>5, <2>2, <2>3
        <3>4. CASE at = bound
            BY <1>1, <1>5, <1>6, <2>3, <3>1, <3>2, <3>3, <3>4 DEF Smaller
        <3>5. CASE at # bound
            <4>1. scroll' = at + 1 /\ focus' = focus /\ at + 1 \in 0..bound
                BY <1>1, <1>5, <3>1, <3>2, <3>5
            <4>2. Smaller(scroll', bound) = at + 1
                BY <1>1, <1>5, <4>1 DEF Smaller
            <4> HIDE DEF at
            <4> QED BY <1>1, <1>5, <1>6, <2>2, <2>3, <3>3, <3>5, <4>1, <4>2
        <3> QED BY <3>4, <3>5
    <2>4. CASE dir = "up"
        <3>1. /\ Scrolled(-1).wrapped <=> at = 0
              /\ Scrolled(-1).at = IF at = 0 THEN bound ELSE at - 1
            <4>1. Scrolled(-1).wrapped <=> at = 0
                <5>1. Scrolled(-1) =
                        [wrapped |-> at = 0,
                         at |-> IF at = 0 THEN bound - at ELSE Clamp(at + -1, 0, bound)]
                    BY <1>8 DEF Scrolled
                <5> HIDE DEF at
                <5> QED BY <5>1, WrappedField
            <4>3. Scrolled(-1).at = IF at = 0 THEN bound - at ELSE Clamp(at + -1, 0, bound)
                BY <1>8 DEF Scrolled
            <4> HIDE DEF at
            <4>2. at # 0 => Clamp(at + -1, 0, bound) = at - 1
                BY <1>1, <1>5 DEF Clamp, Smaller, Larger
            <4> QED BY <1>1, <1>5, <4>1, <4>2, <4>3
        <3>2. /\ scroll' = Scrolled(-1).at
              /\ focus' = IF Scrolled(-1).wrapped THEN n + 1 ELSE focus
            BY <1>1, <1>2, <1>7, <1>9, <2>1, <2>4 DEF ScrollList
        <3>3. FramedProcess = at
            BY <1>1, <1>5, <2>2, <2>4
        <3>4. CASE at = 0
            BY <1>1, <1>5, <1>6, <2>4, <3>1, <3>2, <3>3, <3>4 DEF Smaller
        <3>5. CASE at # 0
            <4>1. scroll' = at - 1 /\ focus' = focus /\ at - 1 \in 0..bound
                BY <1>1, <1>5, <3>1, <3>2, <3>5
            <4>2. Smaller(scroll', bound) = at - 1
                BY <1>1, <1>5, <4>1 DEF Smaller
            <4> HIDE DEF at
            <4> QED BY <1>1, <1>5, <1>6, <2>2, <2>4, <3>3, <3>5, <4>1, <4>2
        <3> QED BY <3>4, <3>5
    <2> QED BY <2>3, <2>4
<1>15. CASE ArrowAtEdge(dir)
    <2>1. Neighbour(dir) = Root /\ bound = 0 /\ scroll' = scroll
        BY <1>1, <1>2, <1>7, <1>8, <1>15 DEF ArrowAtEdge, AtListEnd
    <2>2. focus = IF dir = "down" THEN n + 1 ELSE 2
        BY <1>1, <1>3, <2>1 DEF Root
    <2>3. Stacked(regs, focus) <=> n # 1
        BY <1>1, StackedRows
    <2>4. at = 0 /\ Smaller(scroll', bound) = 0 /\ Processes = n
        BY <1>1, <2>1 DEF Smaller
    <2> HIDE DEF at
    <2>5. CASE n # 1
        <3>1. focus' = WrapWithin(S, focus, dir = "down")
            BY <1>2, <1>7, <1>15, <2>3, <2>5 DEF ArrowAtEdge
        <3>2. focus' = IF dir = "down" THEN 2 ELSE n + 1
            BY <1>9, <2>2, <3>1
        <3> QED BY <1>1, <1>5, <1>6, <2>2, <2>4, <3>2
    <2>6. CASE n = 1
        <3>1. focus' = focus
            <4>1. Inside(focus) = {}
                BY <1>2 DEF Inside
            <4>2. Descend => focus' = focus
                BY <4>1 DEF Descend, FrameAndSync
            <4> QED BY <1>15, <2>3, <2>6, <4>2 DEF ArrowAtEdge
        <3> QED BY <1>1, <1>5, <1>6, <2>2, <2>4, <2>6, <3>1
    <2> QED BY <2>5, <2>6
<1> QED BY <1>12, <1>13, <1>14, <1>15 DEF Arrow

\* On the process page, as drawn, Down and Up frame the next and the previous
\* process of the whole list, through its ends: for every size of the terminal,
\* every machine and every place the list has been scrolled to.
THEOREM ArrowsGoOneProcess == Spec => OneProcessOn
<1>1. Spec => []PanelInv
    BY PanelInit, PanelKept, PTL DEF Spec
<1>2. PanelInv /\ [Next]_vars =>
        [OnProcess =>
            /\ Arrow("down") => FramedProcess' = (FramedProcess + 1) % Processes
            /\ Arrow("up") => FramedProcess' = (FramedProcess - 1) % Processes]_vars
    BY Onward
<1> QED BY <1>1, <1>2, PTL DEF Spec, OneProcessOn
=============================================================================
