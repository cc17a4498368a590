------------------------------ MODULE Ingestion ------------------------------
(***************************************************************************)
(* An ingest, step by step: the dialect sniffed, the rows loaded, the      *)
(* table profiled, the order of day and month resolved, roles proposed and *)
(* tested.  What reads and types the file is DuckDB, and what proposes the *)
(* roles may be a language model: both are external.                       *)
(*                                                                         *)
(* A file is                                                               *)
(*   [bytes,                                                               *)
(*    columns, links   the profile of its table, and every dependency that *)
(*                     holds in it; the column of type "dated" has dates   *)
(*    dates            the values of that column                           *)
(*    mostly_null      may a sample of the rows hold none of them          *)
(*    identity         <<quantity, rate, amount>> for which the amount is  *)
(*                     their product]                                      *)
(* and a date is [first, a, b, rare]: its first component is a year or a   *)
(* and b are its first two, and rare values are less than a hundredth of   *)
(* all.  Separators the parser lacks a format for are left out.            *)
(***************************************************************************)
EXTENDS Dialect, Proposer

CONSTANTS
    Files,
    Naming  \* column -> the claim a language model makes about it

\* The columns of a table have names of their own, and its dependencies are
\* between them.
ASSUME FilesAssumption ==
    \A f \in Files :
        /\ f.bytes \in Seq(Bytes) /\ f.columns \in Seq(Elements(f.columns)) /\ IsFiniteSet(f.links)
        /\ \A i, k \in DOMAIN f.columns : f.columns[i].name = f.columns[k].name => i = k
        /\ \A c \in Elements(f.columns) : c.name # None /\ c.unique \in Nat /\ c.support \in Nat
        /\ \A l \in f.links : {l.det, l.dep} \subseteq Names(f.columns)
        /\ \A d \in f.dates : d.a \in Nat /\ d.b \in Nat

VARIABLES
    file,
    stage,     \* what the ingest does next, or how it ended
    why,       \* why it failed
    encoding,  \* the encoding sniffed, then the one the rows were loaded under
    reading,   \* how DuckDB types and reads the dates when it loads them
    order,     \* the order of day and month that was resolved
    proposer,  \* who proposed the roles
    model      \* the semantic model and what it says of the dates

vars == <<file, stage, why, encoding, reading, order, proposer, model>>

Orders == {"day_first", "month_first"}

-----------------------------------------------------------------------------
(* Dates. *)

\* Is a date one in an order?
Fits(d, o) ==
    CASE o = "iso" -> d.first = "year"
      [] o = "day_first" -> d.first = "number" /\ d.a <= 31 /\ d.b <= 12
      [] OTHER -> d.first = "number" /\ d.a <= 12 /\ d.b <= 31

\* Mutant of ResolveDateOrder: a month 12 taken for a day.
ResolveDateOrderFromTwelve(dates) ==
    LET plain == {d \in dates : d.first = "number"}
        day == \E d \in plain : d.a >= 12
        month == \E d \in plain : d.b >= 12
    IN IF dates = {} THEN "not_a_date"
       ELSE IF plain = {} THEN "iso"
       ELSE IF day = month THEN "ambiguous"
       ELSE IF day THEN "day_first" ELSE "month_first"

\* resolve_date_order.  Values that start with a year settle nothing when
\* there are others.
ResolveDateOrder(dates) ==
    LET plain == {d \in dates : d.first = "number"}
        day == \E d \in plain : d.a > 12
        month == \E d \in plain : d.b > 12
    IN IF dates = {} THEN "not_a_date"
       ELSE IF plain = {} THEN "iso"
       ELSE IF day = month THEN "ambiguous"
       ELSE IF day THEN "day_first" ELSE "month_first"

\* The values of the dated column that an order parses, if these are 99 of a
\* hundred; _strptime_formats has none for an ambiguous column.
Parses(o, dates) == o \in Orders \cup {"iso"} /\ \A d \in dates : Fits(d, o) \/ d.rare

\* event_time_temporal: how a dated column is read.  A cast of text reads ISO.
EventTimeTemporal ==
    IF reading # "text" THEN reading
    ELSE IF Parses(order, file.dates) THEN order
    ELSE IF Parses("iso", file.dates) THEN "iso"
    ELSE "refuted"

-----------------------------------------------------------------------------
(* The steps of ingest. *)

Init ==
    /\ file \in Files
    /\ stage = "sniffing"
    /\ why = None /\ encoding = None /\ reading = None /\ order = None /\ proposer = None
    /\ model = None

Fail(reason) ==
    /\ stage' = "failed" /\ why' = reason
    /\ UNCHANGED <<file, encoding, reading, order, proposer, model>>

\* sniff_dialect.  csv.Sniffer may find no delimiter in any file.
Sniff ==
    /\ stage = "sniffing"
    /\ LET text == Trimmed(Sample(file.bytes)) IN
       \/ Blank(Sample(file.bytes)) /\ Fail("empty")
       \/ ~Blank(Sample(file.bytes)) /\ Fail("delimiter")
       \/ ~Blank(Sample(file.bytes)) /\ NoRows(text) /\ Fail("no_rows")
       \/ ~Blank(Sample(file.bytes)) /\ Ragged(text) /\ Fail("ragged")
       \/ /\ ~Blank(Sample(file.bytes)) /\ ~NoRows(text) /\ ~Ragged(text)
          /\ stage' = "loading" /\ encoding' = DetectEncoding(Sample(file.bytes))
          /\ UNCHANGED <<file, why, reading, order, proposer, model>>

\* read_csv decodes UTF-8 strictly, and any bytes as one of the others.
Decodes(enc) == enc = "utf-8" => Utf8(file.bytes)

\* The encodings tried; latin-1 decodes anything.
Encodings == <<encoding, "latin-1">>

\* The first that takes.
LoadedUnder ==
    LET took == {i \in DOMAIN Encodings : Decodes(Encodings[i])}
    IN IF took = {} THEN {} ELSE {Encodings[CHOOSE i \in took : \A k \in took : i <= k]}

\* read_csv types the dates by an order that reads them all, or leaves text.
Readings == {"text"} \cup {o \in Orders \cup {"iso"} : \A d \in file.dates : Fits(d, o)}

\* The rows are loaded; what is no proper CSV may fail to.
Load ==
    /\ stage = "loading"
    /\ \/ LoadedUnder # {}
          /\ stage' = "profiling" /\ encoding' \in LoadedUnder /\ reading' \in Readings
          /\ UNCHANGED <<file, why, order, proposer, model>>
       \/ (~Valid(file.bytes) \/ LoadedUnder = {}) /\ Fail("load")

\* A header and nothing else is refused; whether there is one is a guess.
ComputeProfile ==
    /\ stage = "profiling"
    /\ \/ Len(Widths(file.bytes)) <= 1 /\ Fail("no_data")
       \/ /\ Widths(file.bytes) # <<>>
          /\ stage' = "resolving_dates"
          /\ UNCHANGED <<file, why, encoding, reading, order, proposer, model>>

\* _resolve_dates, from a sample of the rows under the encoding that took.
ResolveDates ==
    /\ stage = "resolving_dates"
    /\ \E sampled \in SUBSET file.dates :
          /\ order' = ResolveDateOrder(sampled)
          /\ sampled = {} => file.mostly_null
    /\ stage' = "inferring"
    /\ UNCHANGED <<file, why, encoding, reading, proposer, model>>

\* The columns with the dated one's type, and the profile.
Typed ==
    [i \in DOMAIN file.columns |->
        [file.columns[i] EXCEPT !.type = IF @ # "dated" THEN @
                                       ELSE IF reading = "text" THEN "text" ELSE "date"]]
Profile == [columns |-> Typed, links |-> Reported(Typed, file.links)]

Dated == {c \in Names(file.columns) : \E i \in DOMAIN file.columns :
             file.columns[i].name = c /\ file.columns[i].type = "dated"}

\* propose_roles, or for want of a recorded answer propose_heuristically.
Propose ==
    /\ stage = "inferring"
    /\ proposer' \in {"llm", "heuristic"}
    /\ stage' = "verifying"
    /\ UNCHANGED <<file, why, encoding, reading, order, model>>

Claims ==
    IF proposer = "llm" THEN [i \in DOMAIN Typed |-> Naming[Typed[i].name]] ELSE HeuristicClaims(Profile)

\* What the tests find in the data.  A dependency confirms a label from 0.95 on,
\* but nothing here turns on which labels are confirmed.
Evidence ==
    [numeric |-> {Typed[i].name : i \in {i \in DOMAIN Typed : Typed[i].type \in Numeric}},
     temporal |-> {Typed[i].name : i \in {i \in DOMAIN Typed : Typed[i].type \in Temporal}}
                      \cup {c \in Dated : EventTimeTemporal # "refuted"},
     sharesTime |-> {<<l.det, l.dep>> : l \in {l \in file.links :
                        /\ l.strength >= 990
                        /\ \E i \in DOMAIN Typed : Typed[i].name = l.det /\ Typed[i].support >= MinSupport}},
     identity |-> file.identity,
     fds |-> {<<l.det, l.dep>> : l \in {l \in Profile.links : l.strength >= 990}},
     splits |-> <<>>, varying |-> {}, exhaustive |-> {}, aligned |-> {}, marking |-> {}, prefixed |-> {},
     negatives |-> FALSE]

\* _date_assumptions: the order an event time is said to be read in.  Where the
\* sample settles none, day-first is said to be assumed.
Caveat(built) ==
    IF Dated \cap Cols(InRole(built.bindings, "event_time")) = {} \/ order \notin Orders \cup {"ambiguous"}
    THEN [order |-> None, assumed |-> FALSE]
    ELSE IF order = "ambiguous" THEN [order |-> "day_first", assumed |-> TRUE]
    ELSE [order |-> order, assumed |-> FALSE]

BuildFrom(claims, evidence) ==
    IF Buildable(claims, evidence)
    THEN LET built == Built(claims, evidence) IN
         /\ stage' = "built"
         /\ model' = [sem |-> built, caveat |-> Caveat(built), read |-> EventTimeTemporal]
         /\ UNCHANGED <<file, why, encoding, reading, order, proposer>>
    ELSE Fail("build")

Build == stage = "verifying" /\ BuildFrom(Claims, Evidence)

Next == Sniff \/ Load \/ ComputeProfile \/ ResolveDates \/ Propose \/ Build

Spec == Init /\ [][Next]_vars

-----------------------------------------------------------------------------
(* Properties. *)

Guessed == stage = "built" /\ proposer = "heuristic"

\* A file any reader can read is not refused for the way the sample cut it, or
\* for its encoding: only for want of a delimiter or of data, or because the
\* language model took text for a quantity.  And it is read in the encoding it
\* is in, unless the sample ended within a character.
ValidFilesLoad ==
    Valid(file.bytes) =>
        /\ stage = "failed" => why \in {"delimiter", "no_data"} \/ (why = "build" /\ proposer = "llm")
        /\ stage = "built" /\ Utf8(file.bytes) /\ Utf8(Sample(file.bytes)) => encoding = "utf-8"

\* What the answers say of the order an event time is read in, and where that is
\* false.  Unless the sample held no date, dates that DuckDB or the parser reads
\* in an order of day and month come with a caveat; an order it gives as settled
\* is theirs, except that text whose dates are ISO but for a few is read as ISO.
\* The order it says was assumed ("ambiguous ...; assumed day-first",
\* build.py:49) nothing assumes: there is no format for an ambiguous column, so
\* they are read as DuckDB typed them, month first as well as day first, or left
\* text, as ISO.
DatesReadAsStated ==
    stage = "built" /\ Dated \cap Cols(InRole(model.sem.bindings, "event_time")) # {} =>
        /\ model.read \in Orders /\ order # "not_a_date" => model.caveat.order # None
        /\ model.caveat.order \notin {None, model.read} =>
              \/ /\ model.read = "iso" /\ reading = "text"
                 /\ \A d \in file.dates : d.first = "number" => d.rare
              \/ model.caveat.assumed /\ model.read = "month_first" /\ reading = "month_first"
        /\ model.caveat.assumed => model.read = IF reading = "text" THEN "iso" ELSE reading

\* What the heuristic sets aside as derived from the time is a period of the
\* model it proposes, as far as the dependency is strong enough for that.
PeriodsAgree ==
    Guessed =>
        \A i \in DOMAIN Derived(Profile) :
            LET c == Derived(Profile)[i].name IN
            <<EventTime(Profile), c>> \in Evidence.fds => c \in Periods(model.sem.bindings, Evidence)

Summed == model.sem.reads["units_sold"] \cup model.sem.reads["net_revenue"]

\* What the heuristic lets revenue and units sum is no key of the transactions
\* and no slice of the time.  A slice gets past it only if it determines the
\* time in turn, or if the profiler could not look at what the time determines.
MeasuresAreMeasures ==
    Guessed =>
        \A c \in Summed :
            /\ c # FirstInRole(model.sem.bindings, "transaction_key")
            /\ \A l \in file.links :
                  l.det = EventTime(Profile) /\ l.dep = c /\ l.strength >= MinStrength =>
                      \/ \E k \in Profile.links : k.det = c /\ k.dep = l.det
                      \/ \A e \in Examined(Typed) : e.name = l.det => e.support < MinSupport

\* What DESIGN.md says of the heuristic: it "commits a money role only when the
\* choice is forced (a single decimal) or the stored-amount identity confirms
\* the triple downstream; otherwise it leaves rate/amount unbound and a revenue
\* question REFUSES".
RevenueIsForced ==
    Guessed /\ model.sem.reads["net_revenue"] # {} =>
        \/ Len(Decimals(Profile)) = 1
        \/ \E b \in Amounts(model.sem.bindings) : b.verified
=============================================================================
