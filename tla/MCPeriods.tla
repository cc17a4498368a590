------------------------------ MODULE MCPeriods ------------------------------
(* Tables and questions for Periods: a day is four quarters, a month two days, *)
(* a quarter two months.                                                       *)
EXTENDS PeriodsInv

CONSTANTS ga, gb, gc, MaxRows   \* MaxRows bounds the rows about windows and periods

Lengths == [day |-> 4, month |-> 8, quarter |-> 16]
Labels == {Unnamed} \cup 0..2
Times == {<<0, ga>>, <<1, gb>>, <<7, ga>>, <<8, gb>>, <<13, gb>>, <<16, ga>>, <<18, gb>>, <<25, ga>>, <<NULL, gb>>}

Row(time, group, value, open) ==
    [time |-> time, group |-> group, value |-> value, complete |-> time # NULL /\ time < open]

\* Months are over up to a time.
Calendars ==
    {{Row(x[1], x[2], 1, open) : x \in xs} :
        xs \in {xs \in SUBSET Times : Cardinality(xs) \in 1..MaxRows}, open \in {8, 24, 32}}

Question == [grain |-> "month", kind |-> None, a |-> Unnamed, b |-> Unnamed, group |-> None,
             last_n |-> 0, unit |-> "day", during |-> NULL, start |-> NULL, end |-> NULL,
             k |-> 2, direction |-> "desc"]

Windows == {[Question EXCEPT !.group = g, !.last_n = n, !.unit = u] :
               g \in {None, ga}, n \in 1..3, u \in DOMAIN Lengths}
Bounds == {[Question EXCEPT !.last_n = n, !.unit = u, !.during = p, !.start = x, !.end = y] :
               n \in {1, 3}, u \in DOMAIN Lengths,
               p \in {NULL, [grain |-> "month", period |-> 1]}, x \in {NULL, 7}, y \in {NULL, 16}}
Comparisons == {[Question EXCEPT !.kind = "growth", !.grain = g, !.a = x, !.b = y, !.group = h, !.last_n = n] :
                   g \in DOMAIN Lengths, x \in Labels, y \in Labels, h \in {None, ga}, n \in {0, 4}}
                  \cup {[Question EXCEPT !.kind = "growth", !.end = 18, !.b = y] : y \in Labels}

\* The two months of each of three groups: nothing, or a value.
Values == {-2, 0, 1, 150}
History == [first : Values \cup {-1}, second : Values \cup {-1}]
RowsWith(g, h) == {Row(x[1], g, x[2], 16) : x \in {x \in {<<0, h.first>>, <<8, h.second>>} : x[2] # -1}}
Markets ==
    {RowsWith(ga, x) \cup RowsWith(gb, y) \cup RowsWith(gc, z) :
        x \in History, y \in History, z \in {[first |-> 1, second |-> 1], [first |-> 150, second |-> -2]}}
Rankings == {[Question EXCEPT !.kind = kind, !.k = k, !.direction = d] :
                kind \in Kinds, k \in 1..2, d \in {"asc", "desc"}}

CaseSet == [table : Calendars, question : Windows \cup Bounds \cup Comparisons]
               \cup [table : Markets, question : Rankings]
=============================================================================
