----------------------------- MODULE MCIngestion -----------------------------
(* Files for Ingestion: every short text, every way to write a date, and many *)
(* tables, each varied with the other two plain.                              *)
EXTENDS IngestionInv

LOCAL INSTANCE SequencesExt
LOCAL INSTANCE Functions

CONSTANTS
    TextLength,   \* bound: the bytes of a text about quotes
    WordLength,   \* bound: the bytes of a text about characters
    TableColumns  \* bound: the columns of a table

Column(name, type, distinct, unique, whole, negative) ==
    [name |-> name, type |-> type, distinct |-> distinct, unique |-> unique, whole |-> whole,
     negative |-> negative, support |-> 20]

When == Column("when", "dated", 25, 100, None, FALSE)
Library == <<
    Column("due", "date", 25, 120, None, FALSE),
    Column("year", "integer", 3, 3, 100, FALSE),
    Column("shift", "integer", 4, 4, 100, FALSE),
    Column("serial", "integer", 25, 100, 100, FALSE),
    Column("invoice", "text", 1500, 300, None, FALSE),
    Column("gift", "integer", 2, 2, 100, FALSE),
    Column("quantity", "integer", 25, 25, 100, TRUE),
    Column("price", "decimal", 40, 40, 10, FALSE),
    Column("total", "decimal", 900, 900, 10, TRUE),
    Column("note", "text", 950, 950, None, FALSE) >>

Link(det, dep, strength) == [det |-> det, dep |-> dep, strength |-> strength]
Links == { Link("when", "year", 1000), Link("when", "shift", 960), Link("when", "serial", 1000),
           Link("serial", "when", 1000), Link("serial", "year", 1000), Link("invoice", "when", 995),
           Link("invoice", "due", 970), Link("invoice", "gift", 960), Link("due", "shift", 1000) }

Year == [first |-> "year", a |-> 2020, b |-> 1, rare |-> FALSE]
PlainText == <<"other", "comma", "other", "newline", "other", "comma", "other">>

Plain == [bytes |-> PlainText, columns |-> <<When>>, links |-> {}, dates |-> {Year},
          identity |-> {}, mostly_null |-> FALSE]

Strings(alphabet, n) == UNION {[1..k -> alphabet] : k \in 1..n}

\* Files a reader can read, and any others that are short.
Texts == {t \in Strings({"quote", "newline", "comma", "other"}, TextLength) : Len(t) <= 3 \/ Valid(t)}
            \cup Strings({"newline", "lead", "trail"}, WordLength)

Dates == {Year} \cup
    {[first |-> "number", a |-> x[1], b |-> x[2], rare |-> r] :
        x \in {<<5, 6>>, <<12, 6>>, <<6, 12>>, <<13, 5>>, <<5, 13>>, <<13, 13>>, <<5, 32>>}, r \in BOOLEAN}
DateSets == {ds \in SUBSET Dates : Cardinality(ds) \in 1..3 /\ \E d \in ds : ~d.rare}

\* The columns in library order and the reverse, with a repeated, a
\* near-unique and a hardly supported time.
InOrder(cols) == SelectSeq(Library, LAMBDA c : c \in cols)
Tables == UNION {{<<w>> \o InOrder(cols), Reverse(InOrder(cols)) \o <<w>>} :
             cols \in {cols \in SUBSET Range(Library) : Cardinality(cols) \in 1..(TableColumns - 1)},
             w \in {When, [When EXCEPT !.unique = 995], [When EXCEPT !.support = 2]}}

LinksWithin(cols) == {l \in Links : {l.det, l.dep} \subseteq Names(cols)}

FileSet ==
    {[Plain EXCEPT !.bytes = t] : t \in Texts}
        \cup {[Plain EXCEPT !.dates = ds, !.mostly_null = n] : ds \in DateSets, n \in BOOLEAN}
        \cup {[Plain EXCEPT !.columns = cols, !.links = LinksWithin(cols), !.identity = id] :
                  cols \in Tables, id \in {{}, {<<"quantity", "price", "total">>}}}

\* What a language model makes of the columns; it takes a serial for a quantity.
Reads == [name \in Names(<<When>>) \cup {c.name : c \in Range(Library)} |->
    [column |-> name,
     role |-> CASE name \in {"when", "due"} -> "event_time"
                [] name = "invoice" -> "transaction_key"
                [] name = "gift" -> "flag"
                [] name \in {"quantity", "serial", "note"} -> "additive_quantity"
                [] name = "price" -> "monetary_rate"
                [] name = "total" -> "monetary_amount"
                [] OTHER -> "dimension",
     entity |-> None]]
=============================================================================
