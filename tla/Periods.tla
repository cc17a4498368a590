------------------------------- MODULE Periods -------------------------------
(***************************************************************************)
(* Questions about time: the comparison of two periods, which periods it   *)
(* is about, how groups are ranked by their growth, what the answer says   *)
(* of the bases, and what it says of a window "last n" days or months.     *)
(*                                                                         *)
(* A row is [time, group, value, complete]: its time may be NULL, and      *)
(* complete is the flag that says that its month is over.  Times count     *)
(* quarters of a day, a grain a number of them, the months taken as        *)
(* equally long; the labels of periods sort as the periods do, so a period *)
(* is a number.  A question is                                             *)
(*   [grain, kind, a, b, group, last_n, unit, during, start, end, k,       *)
(*    direction]:                                                          *)
(* kind None asks for no comparison, a and b are the periods named or      *)
(* Unnamed, group is the one it is restricted to or None; of its window,   *)
(* last_n units or 0, during is a named period [grain, period] and start   *)
(* and end are times, or each of them NULL; its k first groups in the      *)
(* direction are the answer.                                               *)
(***************************************************************************)
EXTENDS Integers, FiniteSets, FiniteSetsExt

CONSTANTS
    Cases,      \* the tables, each with what it is asked: [table, question]
    Length,     \* grain -> how long one is
    FlagGrain,  \* the grain the completeness flag is about
    Small,      \* a base is small under one Small-th of the total: 100
    NULL        \* SQL's: no time, no bound

None == "none"
Unnamed == -1
Grains == DOMAIN Length
Kinds == {"growth", "change", "ratio"}

ASSUME PeriodsAssumption ==
    /\ \A g \in Grains : Length[g] \in Nat \ {0}
    /\ {"day", FlagGrain} \subseteq Grains
    /\ Small \in Nat \ {0}
    /\ NULL \notin Int

\* _period_expr
Period(grain, time) == time \div Length[grain]

\* A table has rows; none of them need have a time.
ASSUME CasesAssumption ==
    \A c \in Cases :
        /\ IsFiniteSet(c.table) /\ c.table # {}
        /\ \A r \in c.table : r.time \in Nat \cup {NULL} /\ r.value \in Int /\ r.complete \in BOOLEAN
        /\ {c.question.grain, c.question.unit} \subseteq Grains
        /\ c.question.last_n \in Nat

VARIABLES
    table,
    flagged,   \* does the model have a completeness flag
    question,
    stage,     \* what execute does next, or "answered" or "clarify"
    periods,   \* the two periods compared
    shipped,   \* the groups in the answer's rows
    says       \* what the answer says

vars == <<table, flagged, question, stage, periods, shipped, says>>

Comparing == question.kind # None

-----------------------------------------------------------------------------
(* The rows a question is about. *)

\* The rows that have a time, and the times there are.
Timed(rows) == {r \in rows : r.time # NULL}
Moments == {r.time : r \in Timed(table)}
Anchor == Max(Moments)

\* last_n_interval
Interval == question.last_n * Length[question.unit]
Windowed == question.last_n # 0

OfGroup(r) == question.group \in {None, r.group}

\* Mutant of Rolling: anchored on the latest row the question is about.
RollingOfScope(r) ==
    Windowed => r.time # NULL /\ r.time >= Max({0} \cup {s.time : s \in {s \in Timed(table) : OfGroup(s)}}) - Interval

\* _time: "last n" ends at the latest time in the table, not today.
Rolling(r) == Windowed => r.time # NULL /\ r.time >= Anchor - Interval

\* _time: the other bounds a window may have.
Within(r) ==
    /\ question.during # NULL =>
          r.time # NULL /\ Period(question.during.grain, r.time) = question.during.period
    /\ question.start # NULL => r.time # NULL /\ r.time >= question.start
    /\ question.end # NULL => r.time # NULL /\ r.time < question.end

InWindow(r) == Within(r) /\ Rolling(r)

\* A comparison leaves the incomplete periods out, if the model can tell.
NotIncomplete(r) == Comparing /\ flagged => r.complete

\* _where
Scope == {r \in table : OfGroup(r) /\ InWindow(r) /\ NotIncomplete(r)}

\* Mutant of Available: of the table.
AvailableAtAll == {Period(question.grain, r.time) : r \in Timed(table)}

Available == {Period(question.grain, r.time) : r \in Timed(Scope)}

-----------------------------------------------------------------------------
(* The values of a group. *)

Groups == {r.group : r \in {r \in Timed(Scope) : Period(question.grain, r.time) \in {periods.a, periods.b}}}

RowsOf(g, p) == {r \in Timed(Scope) : r.group = g /\ Period(question.grain, r.time) = p}
Sum(rows) == MapThenSumSet(LAMBDA r : r.value, rows)
Value(g, p) == Sum(RowsOf(g, p))

InBoth(g) == RowsOf(g, periods.a) # {} /\ RowsOf(g, periods.b) # {}
Base(g) == Value(g, periods.a)
Later(g) == Value(g, periods.b)

\* Mutant of Ranked: only a zero base has no growth.
RankedUnlessZero(g) == InBoth(g) /\ (question.kind # "change" => Base(g) # 0)

\* Does a group have a value to be ranked by?
Ranked(g) == InBoth(g) /\ (question.kind # "change" => Base(g) > 0)

\* The value, a fraction.
Growth(g) ==
    CASE question.kind = "change" -> [num |-> Later(g) - Base(g), den |-> 1]
      [] question.kind = "ratio" -> [num |-> Later(g), den |-> Base(g)]
      [] OTHER -> [num |-> Later(g) - Base(g), den |-> Base(g)]

\* A value over a value.
Exceeds(x, y) == x.num * y.den > y.num * x.den

\* ORDER BY growth in the direction asked for, NULLS LAST.
Ahead(g, h) ==
    /\ Ranked(g)
    /\ Ranked(h) => IF question.direction = "desc" THEN Exceeds(Growth(g), Growth(h))
                                                    ELSE Exceeds(Growth(h), Growth(g))

-----------------------------------------------------------------------------
Init ==
    /\ \E c \in Cases : table = c.table /\ question = c.question
    /\ flagged \in BOOLEAN
    /\ stage = "resolving"
    /\ periods = None /\ shipped = {} /\ says = None

Named == {question.a, question.b} \ {Unnamed}

\* The latest available period other than the one named.
Other(p) == Max(Available \ {p})

\* _resolve_periods, when the data have the periods it takes.
Resolved ==
    IF Named = {} THEN [a |-> Max(Available \ {Max(Available)}), b |-> Max(Available)]
    ELSE [a |-> IF question.a = Unnamed THEN Other(question.b) ELSE question.a,
          b |-> IF question.b = Unnamed THEN Other(question.a) ELSE question.b]

Resolvable ==
    /\ Named \subseteq Available
    /\ Unnamed \in {question.a, question.b} => Cardinality(Available) >= 2

ResolvePeriods ==
    /\ stage = "resolving" /\ Comparing /\ Resolvable
    /\ periods' = Resolved
    /\ stage' = "executing"
    /\ UNCHANGED <<table, flagged, question, shipped, says>>

NeedsClarification ==
    /\ stage = "resolving" /\ Comparing /\ ~Resolvable
    /\ stage' = "clarify"
    /\ UNCHANGED <<table, flagged, question, periods, shipped, says>>

\* _period_comparison_sql: the first k groups, those without a value last.
RankGroups ==
    /\ stage = "executing"
    /\ shipped' \in {s \in SUBSET Groups :
                        /\ Cardinality(s) = Min({question.k, Cardinality(Groups)})
                        /\ \A g \in Groups \ s, h \in s : ~Ahead(g, h)}
    /\ stage' = "disclosing"
    /\ UNCHANGED <<table, flagged, question, periods, says>>

\* A question without a comparison takes one query over its scope.
RunStandard ==
    /\ stage = "resolving" /\ ~Comparing
    /\ shipped' = {r.group : r \in Scope}
    /\ stage' = "disclosing"
    /\ UNCHANGED <<table, flagged, question, periods, says>>

\* _disclose_growth_base_anomalies: the groups it says are not ranked for a
\* negative base, and the ranked ones whose base is small.
Negative == {g \in Groups : InBoth(g) /\ Base(g) <= 0}
Total == MapThenSumSet(Base, {g \in Groups : InBoth(g)})
SmallBase == {g \in Groups : InBoth(g) /\ Base(g) > 0 /\ Total > 0 /\ Base(g) * Small < Total}

\* _disclose_last_n_window: does it say that this is the whole dataset?  Both
\* dates are cut to the day; the other bounds are not looked at.
ClaimsWhole ==
    /\ Windowed /\ Moments # {}
    /\ Period("day", Anchor - Interval) <= Period("day", Min(Moments))

Disclose ==
    /\ stage = "disclosing"
    /\ says' = [negative |-> IF Comparing THEN Negative ELSE {},
                small |-> IF Comparing THEN SmallBase ELSE {},
                unflagged |-> Comparing /\ ~flagged,
                whole |-> ClaimsWhole]
    /\ stage' = "answered"
    /\ UNCHANGED <<table, flagged, question, periods, shipped>>

Next == ResolvePeriods \/ NeedsClarification \/ RankGroups \/ RunStandard \/ Disclose

Spec == Init /\ [][Next]_vars

-----------------------------------------------------------------------------
(* Properties. *)

Compared == stage = "answered" /\ Comparing

\* Does the flag say the same of all rows of one of its periods?  It was taken
\* for such a flag as they determine it, up to one row in a hundred.
FlagIsExact ==
    \A r, s \in Timed(table) :
        Period(FlagGrain, r.time) = Period(FlagGrain, s.time) => r.complete = s.complete

\* The periods compared have rows the question is about and are two, unless
\* it names one twice; those it names are compared, and with none named the
\* latest two.  Each is whole, if the model can tell: of its rows none was
\* left out as incomplete, where the flag is exact and its periods are made of
\* such ones.
PeriodsCompared ==
    Compared =>
        /\ {periods.a, periods.b} \subseteq {Period(question.grain, r.time) : r \in Timed(Scope)}
        /\ periods.a = periods.b => question.a = question.b
        /\ question.a \in {Unnamed, periods.a} /\ question.b \in {Unnamed, periods.b}
        /\ Named = {} =>
              /\ periods.a < periods.b
              /\ \A r \in Timed(Scope) : LET p == Period(question.grain, r.time)
                               IN p <= periods.a \/ p = periods.b
        /\ FlagIsExact /\ Length[FlagGrain] % Length[question.grain] = 0 =>
              \A r \in Timed(table) :
                  ( /\ OfGroup(r) /\ InWindow(r)
                    /\ Period(question.grain, r.time) \in {periods.a, periods.b} ) => r \in Scope

\* A group in both periods is ranked, or the answer says that it is not; a
\* group ranked by growth has grown just when its value has.  The ranking by
\* change ranks every group, whatever the answer says.  Nobody ranked below a
\* group that is not ships before one who is.
RankingAccounted ==
    Compared =>
        /\ question.kind # "change" =>
              /\ {g \in Groups : InBoth(g) /\ ~Ranked(g)} = says.negative
              /\ says.small \subseteq {g \in Groups : Ranked(g)}
        /\ question.kind = "change" => \A g \in Groups : InBoth(g) => Ranked(g)
        /\ question.kind = "growth" =>
              \A g \in Groups : Ranked(g) => (Exceeds(Growth(g), [num |-> 0, den |-> 1]) <=> Later(g) > Base(g))
        /\ (\E g \in shipped : ~Ranked(g)) => {g \in Groups : Ranked(g)} \subseteq shipped

\* "This is the whole dataset" is said of the dates alone.  Where it is, a row
\* left out is of the first day there is, or it has no time at all, or another
\* bound of the window keeps it out: of the last two the answer does not speak.
\* Where it is not, "last n" leaves out a row, unless none has a time.
WindowClaimHolds ==
    stage = "answered" /\ Windowed =>
        IF says.whole
        THEN \A r \in table :
                 \/ InWindow(r)
                 \/ r.time = NULL \/ ~Within(r)
                 \/ \A s \in Timed(table) : Period("day", r.time) <= Period("day", s.time)
        ELSE Timed(table) # {} => \E r \in Timed(table) : ~Rolling(r)

\* What _resolve_periods says of a question that names the later period only:
\* "earlier = most recent distinct before it".
BaseIsEarlier ==
    Compared /\ question.a = Unnamed /\ question.b # Unnamed => periods.a < periods.b
=============================================================================
