------------------------------ MODULE Proposer ------------------------------
(***************************************************************************)
(* The profile of a table, as far as roles are proposed from it, and the   *)
(* proposer that needs no language model.                                  *)
(*                                                                         *)
(* A profile is [columns, links]: the columns in file order and the        *)
(* functional dependencies the profiler reports.  A column is              *)
(*   [name, type,                                                          *)
(*    distinct   number of distinct values                                 *)
(*    unique     distinct values per thousand non-null ones                *)
(*    whole      whole numbers per hundred values, None if not numeric     *)
(*    negative   are there negative values                                 *)
(*    support    how many of its values occur in several rows]             *)
(* and a link is [det, dep, strength], in thousandths.                     *)
(***************************************************************************)
EXTENDS SemanticModel

CONSTANT MaxDeterminants  \* fd_max_determinants

ASSUME DeterminantsAssumption == MaxDeterminants \in Nat \ {0}

MaxGroups == 100000
MinSupport == 5
MinStrength == 950

Elements(s) == {s[i] : i \in DOMAIN s}

\* The elements of s that are in a set.
Kept(s, set) ==
    LET kept[n \in 0..Len(s)] ==
            IF n = 0 THEN <<>> ELSE IF s[n] \in set THEN Append(kept[n - 1], s[n]) ELSE kept[n - 1]
    IN kept[Len(s)]

\* A stable sort by a key of the elements, the greatest first.
Descending(s, key) ==
    LET before(i) == {k \in DOMAIN s : key[s[k]] > key[s[i]] \/ (key[s[k]] = key[s[i]] /\ k < i)}
    IN [p \in DOMAIN s |-> s[CHOOSE i \in DOMAIN s : Cardinality(before(i)) = p - 1]]

Names(cols) == {cols[i].name : i \in DOMAIN cols}

-----------------------------------------------------------------------------
(* _functional_dependencies *)

\* The columns grouped by: repeated ones, the most repeated first, as far as
\* the budget goes.
Examined(cols) ==
    LET candidates == Kept(cols, {c \in Elements(cols) : c.distinct \in 2..MaxGroups /\ c.unique < 990})
        sorted == Descending(candidates, [c \in Elements(cols) |-> 1000 - c.unique])
    IN {sorted[i] : i \in {i \in DOMAIN sorted : i <= MaxDeterminants}}

\* What of the dependencies in the data the profiler reports.
Reported(cols, links) ==
    {l \in links : /\ l.strength >= MinStrength
                   /\ \E c \in Examined(cols) : c.name = l.det /\ c.support >= MinSupport}

-----------------------------------------------------------------------------
(* propose_heuristically *)

Numeric == {"integer", "decimal"}
Temporal == {"date", "timestamp"}
Textish == {"text", "unknown"}

Columns(p) == Elements(p.columns)

\* build_evidence: the columns a column determines, and is determined by.
Determines(p, c) == {l.dep : l \in {l \in p.links : l.det = c.name}}
DeterminedBy(p, c) == {l.det : l \in {l \in p.links : l.dep = c.name}}

Integral(c) == c.type \in Numeric /\ c.whole >= 90
LooksLikeId(c) == Integral(c) /\ ~c.negative /\ c.distinct >= 1000

FirstOf(cols) == SubSeq(cols, 1, IF cols = <<>> THEN 0 ELSE 1)
FirstName(cols) == IF cols = <<>> THEN None ELSE cols[1].name

Times(p) ==
    Descending(Kept(p.columns, {c \in Columns(p) : c.type \in Temporal}),
               [c \in Columns(p) |-> Cardinality(Determines(p, c))])
EventTime(p) == FirstName(Times(p))

\* Mutant of TimesClaimed: in file order.
TimesInFileOrder(p) == Kept(p.columns, {c \in Columns(p) : c.type \in Temporal})
TimesClaimed(p) == Times(p)

\* Mutant of Derived: the direction of the dependency is mistaken.
DerivedBackwards(p) ==
    Kept(p.columns, {c \in Columns(p) :
        /\ c.type \notin Temporal
        /\ EventTime(p) \in Determines(p, c) /\ EventTime(p) \notin DeterminedBy(p, c)})

\* The slices of the event time: it determines them, and not they it.
Derived(p) ==
    Kept(p.columns, {c \in Columns(p) :
        /\ c.type \notin Temporal
        /\ EventTime(p) \in DeterminedBy(p, c) /\ EventTime(p) \notin Determines(p, c)})

Flags(p) ==
    Kept(p.columns, {c \in Columns(p) :
        /\ c.type \notin Temporal /\ c.name \notin Names(Derived(p))
        /\ c.type = "boolean" \/ c.distinct = 2})

\* The most key-like of the recurring columns that determine the event time.
Keys(p) ==
    LET keys == Kept(p.columns, {c \in Columns(p) :
                    /\ c.type \notin Temporal /\ c.name \notin Names(Derived(p) \o Flags(p))
                    /\ c.unique < 999 /\ EventTime(p) \in Determines(p, c)})
    IN FirstOf(Descending(keys, [c \in Columns(p) |-> c.unique]))

Measures(p) ==
    Kept(p.columns, {c \in Columns(p) :
        /\ c.type \in Numeric /\ c.name \notin Names(Derived(p) \o Flags(p) \o Keys(p))
        /\ c.distinct > 2 /\ ~LooksLikeId(c)})

Quantities(p) == Kept(Measures(p), {c \in Columns(p) : Integral(c)})
Decimals(p) == Kept(Measures(p), {c \in Columns(p) : ~Integral(c)})

\* The roles of the money columns, each with its confidence: an only decimal is
\* the rate; of two, beside a quantity, the first is the rate and the second the
\* amount.
Money(decimals, quantities) ==
    CASE Len(decimals) = 1 -> << <<"monetary_rate", 50>> >>
      [] Len(decimals) = 2 /\ quantities # <<>> -> << <<"monetary_rate", 45>>, <<"monetary_amount", 40>> >>
      [] OTHER -> <<>>

\* The role of a column no rule above took, and the confidence in it.
Leftover(p, c) ==
    IF c.type \notin Textish THEN <<"dimension", 30>>
    ELSE IF c.unique >= 900
    THEN <<IF Determines(p, c) \cup DeterminedBy(p, c) # {} THEN "description" ELSE "ignore", 35>>
    ELSE <<IF c.distinct >= 20 THEN "entity_key" ELSE "dimension", 40>>

ClaimOf(c, role, confidence) ==
    [column |-> c.name, role |-> role, entity |-> IF role = "entity_key" THEN "other" ELSE None,
     confidence |-> confidence]

ClaimAll(cols, role, confidence) == [i \in DOMAIN cols |-> ClaimOf(cols[i], role, confidence)]
ClaimEach(cols, roles) == [i \in DOMAIN roles |-> ClaimOf(cols[i], roles[i][1], roles[i][2])]

\* The claims of the rules, in their order.
ByRule(p) ==
    ClaimAll(TimesClaimed(p), "event_time", 70) \o ClaimAll(Derived(p), "dimension", 50)
        \o ClaimAll(Flags(p), "flag", 50) \o ClaimAll(Keys(p), "transaction_key", 60)
        \o ClaimAll(FirstOf(Quantities(p)), "additive_quantity", 55)
        \o ClaimEach(Decimals(p), Money(Decimals(p), Quantities(p)))

\* And those of the columns they leave.
WithLeftovers(p, claims) ==
    LET rest == Kept(p.columns, {c \in Columns(p) : \A i \in DOMAIN claims : claims[i].column # c.name})
    IN claims \o ClaimEach(rest, [i \in DOMAIN rest |-> Leftover(p, rest[i])])

HeuristicClaims(p) ==
    LET claims == WithLeftovers(p, ByRule(p))
    IN Descending(claims, [c \in Elements(claims) |-> c.confidence])
=============================================================================
