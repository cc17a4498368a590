---------------------------- MODULE IngestionProofs ----------------------------
(***************************************************************************)
(* Proofs about an ingest, for every file, any claims of a language model  *)
(* and any size of the sample.                                             *)
(***************************************************************************)
EXTENDS IngestionInv, ExecutorProofs

-----------------------------------------------------------------------------
(* Records: what a reader of CSV makes of a file and of its beginnings. *)

\* What holds at first and is kept holds throughout.
LEMMA Throughout ==
    ASSUME NEW n \in Nat, NEW P, 0 \in P, \A m \in 0..(n - 1) : m \in P => m + 1 \in P
    PROVE  0..n \subseteq P
<1> DEFINE Bad == {m \in 0..n : m \notin P}
<1> SUFFICES ASSUME Bad # {} PROVE FALSE
  OBVIOUS
<1>1. PICK m \in Bad : \A k \in Bad : m <= k
  <2>1. Bad \subseteq Nat
    OBVIOUS
  <2> HIDE DEF Bad
  <2>2. QED
    BY <2>1, LeastNumber
<1>2. m - 1 \in 0..(n - 1) /\ m - 1 \notin Bad
  BY <1>1
<1>3. QED
  BY <1>2

LEMMA GreatestNumber ==
    ASSUME NEW n \in Nat, NEW S, \A i \in S : i \in 1..n, S # {}
    PROVE  \E i \in S : \A k \in S : k <= i
<1> DEFINE T == {n - i : i \in S}
<1>1. PICK m \in T : \A k \in T : m <= k
  <2>1. T \subseteq Nat /\ T # {}
    OBVIOUS
  <2> HIDE DEF T
  <2>2. QED
    BY <2>1, LeastNumber
<1>2. PICK i \in S : m = n - i
  BY <1>1
<1>3. \A k \in S : n - i <= n - k
  BY <1>1, <1>2
<1>4. QED
  BY <1>3

LEMMA LatestFacts ==
    ASSUME NEW n \in Nat, NEW S, \A i \in S : i \in 1..n
    PROVE  /\ S = {} => Latest(S) = 0
           /\ S # {} => Latest(S) \in S
<1>1. S # {} => \E i \in S : \A k \in S : k <= i
  BY GreatestNumber
<1>2. QED
  BY <1>1 DEF Latest

\* The recursion of ReadUpTo has a solution, for the first n bytes and so for all.
LEMMA ReadUpToDef ==
    ASSUME NEW text \in Seq(Bytes)
    PROVE  /\ ReadUpTo(text)[0] = Unread
           /\ \A n \in 1..Len(text) : ReadUpTo(text)[n] = ReadByte(ReadUpTo(text)[n - 1], text[n])
<1> DEFINE Next1(f, n) == IF n = 0 THEN Unread ELSE ReadByte(f[n - 1], text[n])
           Solved == {n \in Nat : \E f : f = [m \in 0..n |-> Next1(f, m)]}
<1>1. 0 \in Solved
  <2> DEFINE f == [m \in 0..0 |-> Unread]
  <2>1. f = [m \in 0..0 |-> Next1(f, m)]
    OBVIOUS
  <2>2. QED
    BY <2>1
<1>2. ASSUME NEW n \in Nat, n \in Solved PROVE n + 1 \in Solved
  <2>1. PICK f : f = [m \in 0..n |-> Next1(f, m)]
    BY <1>2
  <2> DEFINE g == [m \in 0..(n + 1) |-> IF m = n + 1 THEN ReadByte(f[n], text[n + 1]) ELSE f[m]]
  <2>2. \A m \in 0..n : g[m] = f[m]
    OBVIOUS
  <2>3. g[n + 1] = ReadByte(f[n], text[n + 1])
    OBVIOUS
  <2>4. DOMAIN g = 0..(n + 1) /\ g = [m \in DOMAIN g |-> g[m]]
    OBVIOUS
  <2> HIDE DEF g
  <2>5. \A m \in 0..n : f[m] = Next1(f, m)
    <3> HIDE DEF Next1
    <3>1. QED
      BY <2>1
  <2>6. ASSUME NEW m \in 0..(n + 1) PROVE g[m] = Next1(g, m)
    <3>1. CASE m = 0
      BY <2>2, <2>5, <3>1
    <3>2. CASE m \in 1..n
      <4>1. m \in 0..n /\ m - 1 \in 0..n /\ m # 0
        BY <3>2
      <4>2. g[m - 1] = f[m - 1] /\ g[m] = Next1(f, m)
        BY <2>2, <2>5, <4>1
      <4>3. QED
        BY <4>1, <4>2
    <3>3. CASE m = n + 1
      <4>1. g[n] = f[n] /\ m - 1 = n /\ m # 0
        BY <2>2, <3>3
      <4>2. QED
        BY <2>3, <3>3, <4>1
    <3>4. QED
      BY <3>1, <3>2, <3>3
  <2> HIDE DEF Next1
  <2>7. g = [m \in 0..(n + 1) |-> Next1(g, m)]
    BY <2>4, <2>6
  <2>8. QED
    BY <2>7
<1>3. Len(text) \in Solved
  <2> HIDE DEF Solved
  <2>1. 0..Len(text) \subseteq Solved
    BY <1>1, <1>2, Throughout
  <2>2. QED
    BY <2>1
<1>4. ReadUpTo(text) = [m \in 0..Len(text) |-> Next1(ReadUpTo(text), m)]
  BY <1>3 DEF ReadUpTo
<1>5. \A m \in 0..Len(text) : ReadUpTo(text)[m] = Next1(ReadUpTo(text), m)
  <2> HIDE DEF Next1
  <2>1. QED
    BY <1>4
<1>6. QED
  BY <1>5

\* The beginning of a text is read as the text is up to there.
LEMMA ReadPrefix ==
    ASSUME NEW text \in Seq(Bytes), NEW m \in 0..Len(text)
    PROVE  Read(SubSeq(text, 1, m)) = ReadUpTo(text)[m]
<1> DEFINE part == SubSeq(text, 1, m)
           Same == {n \in 0..m : ReadUpTo(part)[n] = ReadUpTo(text)[n]}
<1>1. part \in Seq(Bytes) /\ Len(part) = m /\ \A n \in 1..m : part[n] = text[n]
  OBVIOUS
<1> HIDE DEF part
<1>2. 0 \in Same
  BY <1>1, ReadUpToDef
<1>3. ASSUME NEW n \in 0..(m - 1), n \in Same PROVE n + 1 \in Same
  <2>1. n + 1 \in 1..m /\ n + 1 \in 1..Len(text) /\ (n + 1) - 1 = n
    OBVIOUS
  <2>2. ReadUpTo(part)[n + 1] = ReadByte(ReadUpTo(part)[n], part[n + 1])
    BY <1>1, <2>1, ReadUpToDef
  <2>3. ReadUpTo(text)[n + 1] = ReadByte(ReadUpTo(text)[n], text[n + 1])
    BY <2>1, ReadUpToDef
  <2>4. QED
    BY <1>1, <1>3, <2>1, <2>2, <2>3
<1>4. m \in Same
  <2> HIDE DEF Same
  <2>1. m \in Nat
    OBVIOUS
  <2>2. 0..m \subseteq Same
    BY <1>2, <1>3, <2>1, Throughout
  <2>3. QED
    BY <2>1, <2>2
<1>5. QED
  BY <1>1, <1>4 DEF Read, part

-----------------------------------------------------------------------------
CsvStates == [at : {"start", "plain", "quoted", "closing"}, fields : Nat, widths : Seq(Nat), proper : BOOLEAN]

\* Is a sequence the beginning of another?
Begins(s, t) == Len(s) <= Len(t) /\ \A i \in 1..Len(s) : t[i] = s[i]

\* Has a record begun?
Begun(r) == r.at # "start" \/ r.fields # 0 \/ r.widths # <<>>

LEMMA BeginsTransitive ==
    ASSUME NEW s \in Seq(Nat), NEW t \in Seq(Nat), NEW u \in Seq(Nat), Begins(s, t), Begins(t, u)
    PROVE  Begins(s, u)
  BY DEF Begins

State(at, fields, widths, proper) == [at |-> at, fields |-> fields, widths |-> widths, proper |-> proper]

LEMMA CsvState ==
    ASSUME NEW at \in {"start", "plain", "quoted", "closing"}, NEW fields \in Nat,
           NEW widths \in Seq(Nat), NEW proper \in BOOLEAN
    PROVE  State(at, fields, widths, proper) \in CsvStates
  BY DEF CsvStates, State

LEMMA CsvFields ==
    ASSUME NEW r \in CsvStates
    PROVE  /\ r.at \in {"start", "plain", "quoted", "closing"} /\ r.fields \in Nat
           /\ r.widths \in Seq(Nat) /\ r.proper \in BOOLEAN
           /\ r = State(r.at, r.fields, r.widths, r.proper)
  BY DEF CsvStates, State

LEMMA EndRecordFacts ==
    ASSUME NEW r \in CsvStates
    PROVE  /\ EndRecord(r) \in CsvStates
           /\ EndRecord(r).proper = r.proper /\ EndRecord(r).at = "start"
           /\ Begins(r.widths, EndRecord(r).widths)
           /\ Begun(r) => EndRecord(r).widths # <<>>
<1>1. /\ r.fields \in Nat /\ r.widths \in Seq(Nat) /\ r.proper \in BOOLEAN
      /\ r = State(r.at, r.fields, r.widths, r.proper)
  BY CsvFields
<1>2. Begins(r.widths, r.widths)
  BY <1>1 DEF Begins
<1>3. CASE r.at = "start" /\ r.fields = 0
  BY <1>2, <1>3 DEF EndRecord, Begun
<1>4. CASE ~(r.at = "start" /\ r.fields = 0)
  <2> DEFINE w == Append(r.widths, r.fields + 1)
  <2>1. w \in Seq(Nat) /\ w # <<>> /\ Begins(r.widths, w)
    <3>1. ASSUME NEW v \in Seq(Nat), NEW f \in Nat, NEW u, u = Append(v, f)
          PROVE  u \in Seq(Nat) /\ u # <<>> /\ Begins(v, u)
      <4>1. u \in Seq(Nat) /\ Len(u) = Len(v) + 1 /\ Len(v) \in Nat /\ \A i \in 1..Len(v) : u[i] = v[i]
        BY <3>1
      <4>2. u # <<>>
        BY <4>1
      <4>3. QED
        BY <4>1, <4>2 DEF Begins
    <3>2. r.fields + 1 \in Nat
      BY <1>1
    <3>3. QED
      BY <1>1, <3>1, <3>2 DEF w
  <2> HIDE DEF w
  <2>2. EndRecord(r) = State("start", 0, w, r.proper)
    <3>1. EndRecord(r) = [r EXCEPT !.at = "start", !.fields = 0, !.widths = w]
      BY <1>4 DEF EndRecord, w
    <3>2. QED
      BY <1>1, <3>1 DEF State
  <2>3. EndRecord(r) \in CsvStates
    BY <1>1, <2>1, <2>2, CsvState
  <2>4. QED
    BY <2>1, <2>2, <2>3 DEF State
<1>5. QED
  BY <1>3, <1>4

LEMMA ReadByteFacts ==
    ASSUME NEW r \in CsvStates, NEW byte \in Bytes, NEW s, s = ReadByte(r, byte)
    PROVE  /\ s \in CsvStates
           /\ s.proper => r.proper
           /\ Begins(r.widths, s.widths)
           /\ s.proper => (s.at = "quoted" <=> IF byte = "quote" THEN r.at # "quoted" ELSE r.at = "quoted")
           /\ Begun(r) \/ byte # "newline" => Begun(s)
           /\ byte = "newline" /\ r.at # "quoted" => s = EndRecord(r)
<1>1. /\ r.at \in {"start", "plain", "quoted", "closing"} /\ r.fields \in Nat
      /\ r.widths \in Seq(Nat) /\ r.proper \in BOOLEAN
      /\ r = State(r.at, r.fields, r.widths, r.proper)
      /\ Begins(r.widths, r.widths)
  BY CsvFields DEF Begins
<1>2. CASE byte = "newline" /\ r.at # "quoted"
  <2>1. s = EndRecord(r)
    BY <1>2 DEF ReadByte
  <2>2. QED
    BY <1>2, <2>1, EndRecordFacts DEF Begun
<1>3. CASE byte = "comma" /\ r.at # "quoted"
  <2>1. s = State("start", r.fields + 1, r.widths, r.proper)
    <3>1. s = [r EXCEPT !.at = "start", !.fields = @ + 1]
      BY <1>3 DEF ReadByte
    <3>2. QED
      BY <1>1, <3>1 DEF State
  <2>2. s \in CsvStates
    BY <1>1, <2>1, CsvState
  <2>3. s.at = "start" /\ s.fields = r.fields + 1 /\ s.widths = r.widths /\ s.proper = r.proper
    BY <2>1 DEF State
  <2>4. QED
    BY <1>1, <1>3, <2>2, <2>3 DEF Begun
<1>4. CASE byte = "quote"
  <2> DEFINE at == CASE r.at = "quoted" -> "closing" [] r.at = "plain" -> "plain" [] OTHER -> "quoted"
             proper == r.proper /\ r.at # "plain"
  <2>1. s = State(at, r.fields, r.widths, proper)
    <3>1. s = [r EXCEPT !.at = at, !.proper = @ /\ r.at # "plain"]
      BY <1>4 DEF ReadByte
    <3>2. QED
      BY <1>1, <3>1 DEF State
  <2>2. /\ at \in {"closing", "plain", "quoted"} /\ proper \in BOOLEAN
        /\ proper => r.proper /\ (at = "quoted" <=> r.at # "quoted")
    BY <1>1
  <2> HIDE DEF at, proper
  <2>3. s \in CsvStates
    BY <1>1, <2>1, <2>2, CsvState
  <2>4. s.at = at /\ s.fields = r.fields /\ s.widths = r.widths /\ s.proper = proper
    BY <2>1 DEF State
  <2>5. QED
    BY <1>1, <1>4, <2>2, <2>3, <2>4 DEF Begun
<1>5. CASE byte # "quote" /\ ~(byte \in {"newline", "comma"} /\ r.at # "quoted")
  <2> DEFINE at == IF r.at = "quoted" THEN "quoted" ELSE "plain"
             proper == r.proper /\ r.at # "closing"
  <2>1. s = State(at, r.fields, r.widths, proper)
    <3>1. s = [r EXCEPT !.at = IF @ = "quoted" THEN "quoted" ELSE "plain", !.proper = @ /\ r.at # "closing"]
      BY <1>5 DEF ReadByte
    <3>2. QED
      BY <1>1, <3>1 DEF State
  <2>2. /\ at \in {"plain", "quoted"} /\ proper \in BOOLEAN
        /\ (proper => r.proper) /\ (at = "quoted" <=> r.at = "quoted")
    BY <1>1
  <2> HIDE DEF at, proper
  <2>3. s \in CsvStates
    BY <1>1, <2>1, <2>2, CsvState
  <2>4. s.at = at /\ s.fields = r.fields /\ s.widths = r.widths /\ s.proper = proper
    BY <2>1 DEF State
  <2>5. QED
    BY <1>1, <1>5, <2>2, <2>3, <2>4 DEF Begun
<1>6. QED
  BY <1>2, <1>3, <1>4, <1>5

\* Throughout a text its reader is in a state, has begun a record unless the text
\* starts with a blank line, and is within quotes after an odd number of them.
LEMMA ReadFacts ==
    ASSUME NEW text \in Seq(Bytes), NEW n \in 0..Len(text), NEW r, r = ReadUpTo(text)[n]
    PROVE  /\ r \in CsvStates
           /\ n # 0 /\ text[1] # "newline" => Begun(r)
           /\ r.proper => (r.at = "quoted" <=> Cardinality({k \in 1..n : text[k] = "quote"}) % 2 = 1)
<1> DEFINE Quotes(m) == {k \in 1..m : text[k] = "quote"}
           Fine(m) ==
               LET x == ReadUpTo(text)[m] IN
               /\ x \in CsvStates
               /\ m # 0 /\ text[1] # "newline" => Begun(x)
               /\ x.proper => (x.at = "quoted" <=> Cardinality(Quotes(m)) % 2 = 1)
           Good == {m \in 0..Len(text) : Fine(m)}
<1>1. 0 \in Good
  <2>1. Unread = State("start", 0, <<>>, TRUE)
    BY DEF Unread, State
  <2>2. Unread \in CsvStates /\ Unread.at = "start"
    <3>1. <<>> \in Seq(Nat)
      OBVIOUS
    <3>2. QED
      BY <2>1, <3>1, CsvState DEF State
  <2>3. Quotes(0) = {}
    OBVIOUS
  <2>4. Cardinality(Quotes(0)) = 0
    BY <2>3, FS_EmptySet
  <2>5. QED
    BY <2>2, <2>4, ReadUpToDef
<1>2. ASSUME NEW m \in 0..(Len(text) - 1), m \in Good PROVE m + 1 \in Good
  <2> DEFINE x == ReadUpTo(text)[m]
             y == ReadUpTo(text)[m + 1]
  <2>1. m + 1 \in 1..Len(text) /\ (m + 1) - 1 = m /\ text[m + 1] \in Bytes /\ m \in Nat
    OBVIOUS
  <2>2. y = ReadByte(x, text[m + 1])
    BY <2>1, ReadUpToDef
  <2>3. /\ x \in CsvStates
        /\ m # 0 /\ text[1] # "newline" => Begun(x)
        /\ x.proper => (x.at = "quoted" <=> Cardinality(Quotes(m)) % 2 = 1)
    BY <1>2
  <2> HIDE DEF x, y
  <2>4. /\ y \in CsvStates
        /\ y.proper => x.proper
        /\ y.proper => (y.at = "quoted" <=> IF text[m + 1] = "quote" THEN x.at # "quoted" ELSE x.at = "quoted")
        /\ Begun(x) \/ text[m + 1] # "newline" => Begun(y)
    <3> DEFINE byte == text[m + 1]
    <3>1. x \in CsvStates /\ byte \in Bytes /\ y = ReadByte(x, byte)
      BY <2>1, <2>2, <2>3
    <3> HIDE DEF byte
    <3>2. /\ y \in CsvStates
          /\ y.proper => x.proper
          /\ y.proper => (y.at = "quoted" <=> IF byte = "quote" THEN x.at # "quoted" ELSE x.at = "quoted")
          /\ Begun(x) \/ byte # "newline" => Begun(y)
      BY <3>1, ReadByteFacts
    <3>3. QED
      BY <3>2 DEF byte
  <2>5. text[1] # "newline" => Begun(y)
    BY <2>3, <2>4
  <2>6. Cardinality(Quotes(m)) \in Nat /\ IsFiniteSet(Quotes(m))
    <3>1. IsFiniteSet(1..m)
      BY <2>1, FS_Interval
    <3>2. IsFiniteSet(Quotes(m))
      BY <3>1, FS_Subset
    <3>3. QED
      BY <3>2, FS_CardinalityType
  <2>7. CASE text[m + 1] = "quote"
    <3>1. Quotes(m + 1) = Quotes(m) \cup {m + 1} /\ m + 1 \notin Quotes(m)
      BY <2>1, <2>7
    <3>2. Cardinality(Quotes(m + 1)) = Cardinality(Quotes(m)) + 1
      BY <2>6, <3>1, FS_AddElement
    <3>3. Cardinality(Quotes(m + 1)) % 2 = 1 <=> ~(Cardinality(Quotes(m)) % 2 = 1)
      BY <2>6, <3>2
    <3> HIDE DEF Quotes
    <3>4. y.proper => (y.at = "quoted" <=> Cardinality(Quotes(m + 1)) % 2 = 1)
      BY <2>3, <2>4, <2>7, <3>3
    <3>5. QED
      BY <2>1, <2>4, <2>5, <3>4 DEF y
  <2>8. CASE text[m + 1] # "quote"
    <3>1. Quotes(m + 1) = Quotes(m)
      BY <2>1, <2>8
    <3> HIDE DEF Quotes
    <3>2. y.proper => (y.at = "quoted" <=> Cardinality(Quotes(m + 1)) % 2 = 1)
      BY <2>3, <2>4, <2>8, <3>1
    <3>3. QED
      BY <2>1, <2>4, <2>5, <3>2 DEF y
  <2>9. QED
    BY <2>7, <2>8
<1>3. n \in Good
  <2> HIDE DEF Good
  <2>1. Len(text) \in Nat
    OBVIOUS
  <2>2. 0..Len(text) \subseteq Good
    BY <1>1, <1>2, <2>1, Throughout
  <2>3. QED
    BY <2>2
<1>4. QED
  BY <1>3

\* What is read of the records of a text stays as more is read.
LEMMA RecordsStay ==
    ASSUME NEW text \in Seq(Bytes), NEW m \in 0..Len(text), NEW n \in m..Len(text)
    PROVE  /\ Begins(ReadUpTo(text)[m].widths, ReadUpTo(text)[n].widths)
           /\ ReadUpTo(text)[n].proper => ReadUpTo(text)[m].proper
<1> DEFINE r(k) == ReadUpTo(text)[m + k]
           Good == {k \in 0..(n - m) : Begins(r(0).widths, r(k).widths) /\ (r(k).proper => r(0).proper)}
<1>1. \A k \in 0..(n - m) : m + k \in 0..Len(text) /\ r(k) \in CsvStates /\ r(k).widths \in Seq(Nat)
  <2>1. \A k \in 0..(n - m) : m + k \in 0..Len(text)
    OBVIOUS
  <2>2. QED
    BY <2>1, ReadFacts, CsvFields
<1>2. 0 \in Good
  BY <1>1 DEF Begins
<1>3. ASSUME NEW k \in 0..(n - m - 1), k \in Good PROVE k + 1 \in Good
  <2>1. /\ m + (k + 1) \in 1..Len(text) /\ (m + (k + 1)) - 1 = m + k /\ text[m + (k + 1)] \in Bytes
        /\ k + 1 \in 0..(n - m) /\ k \in 0..(n - m) /\ 0 \in 0..(n - m)
    OBVIOUS
  <2>2. r(k + 1) = ReadByte(r(k), text[m + (k + 1)])
    BY <2>1, ReadUpToDef
  <2>3. Begins(r(0).widths, r(k).widths) /\ (r(k).proper => r(0).proper)
    BY <1>3
  <2> HIDE DEF r
  <2>4. Begins(r(k).widths, r(k + 1).widths) /\ (r(k + 1).proper => r(k).proper)
    BY <1>1, <2>1, <2>2, ReadByteFacts
  <2>5. Begins(r(0).widths, r(k + 1).widths)
    BY <1>1, <2>1, <2>3, <2>4, BeginsTransitive
  <2>6. QED
    BY <2>1, <2>3, <2>4, <2>5
<1>4. n - m \in Good
  <2> HIDE DEF Good
  <2>1. n - m \in Nat /\ (n - m) - 1 = n - m - 1
    OBVIOUS
  <2>2. 0..(n - m) \subseteq Good
    BY <1>2, <1>3, <2>1, Throughout
  <2>3. QED
    BY <2>1, <2>2
<1>5. m + (n - m) = n /\ m + 0 = m
  OBVIOUS
<1>6. QED
  BY <1>4, <1>5

\* Up to a newline after pairs of quotes, a valid file is whole records, as wide
\* as all of its records are.
LEMMA WholeRecords ==
    ASSUME NEW text \in Seq(Bytes), Valid(text), NEW i \in 2..Len(text), text[i] = "newline",
           Cardinality({k \in 1..(i - 1) : text[k] = "quote"}) % 2 = 0
    PROVE  /\ SameWidth(SubSeq(text, 1, i - 1))
           /\ Widths(SubSeq(text, 1, i - 1)) # <<>>
<1> DEFINE r == ReadUpTo(text)[i - 1]
           last == ReadUpTo(text)[Len(text)]
           widths == EndRecord(r).widths
           all == EndRecord(last).widths
<1>1. /\ Len(text) \in Nat /\ i - 1 \in 0..Len(text) /\ i - 1 # 0 /\ i \in 1..Len(text)
      /\ Len(text) \in (i - 1)..Len(text) /\ Len(text) \in i..Len(text) /\ i \in 0..Len(text)
      /\ Len(text) \in 0..Len(text)
  OBVIOUS
<1>2. last.proper /\ text[1] # "newline" /\ last \in CsvStates
  BY <1>1, ReadFacts DEF Valid, Read
<1>3. r \in CsvStates /\ r.proper /\ Begun(r) /\ r.at # "quoted"
  <2>1. r.proper
    BY <1>1, <1>2, RecordsStay
  <2>2. /\ r \in CsvStates /\ Begun(r)
        /\ r.proper => (r.at = "quoted" <=> Cardinality({k \in 1..(i - 1) : text[k] = "quote"}) % 2 = 1)
    BY <1>1, <1>2, ReadFacts
  <2>3. QED
    BY <2>1, <2>2
<1>4. ReadUpTo(text)[i] = EndRecord(r)
  <2>1. ReadUpTo(text)[i] = ReadByte(r, text[i]) /\ text[i] \in Bytes
    BY <1>1, ReadUpToDef
  <2> HIDE DEF r
  <2>2. QED
    BY <1>3, <2>1, ReadByteFacts
<1>5. widths \in Seq(Nat) /\ widths # <<>> /\ all \in Seq(Nat) /\ last.widths \in Seq(Nat)
  <2> HIDE DEF r, last
  <2>1. /\ EndRecord(r) \in CsvStates /\ EndRecord(last) \in CsvStates
        /\ EndRecord(r).widths # <<>>
    BY <1>2, <1>3, EndRecordFacts
  <2>2. QED
    BY <1>2, <2>1, CsvFields
<1>6. Begins(widths, all)
  <2>1. Begins(widths, last.widths)
    BY <1>1, <1>4, RecordsStay
  <2>2. Begins(last.widths, all)
    BY <1>2, EndRecordFacts
  <2>3. QED
    BY <1>5, <2>1, <2>2, BeginsTransitive
<1>7. Widths(SubSeq(text, 1, i - 1)) = widths
  BY <1>1, ReadPrefix DEF Widths
<1>8. \A k \in DOMAIN all : all[k] = all[1]
  BY DEF Valid, SameWidth, Widths, Read
<1> HIDE DEF widths, all
<1>9. \A k \in DOMAIN widths : widths[k] = widths[1]
  <2>1. /\ DOMAIN widths = 1..Len(widths) /\ DOMAIN all = 1..Len(all)
        /\ Len(widths) \in Nat /\ Len(all) \in Nat /\ Len(widths) >= 1
    BY <1>5
  <2>2. Len(widths) <= Len(all) /\ \A k \in 1..Len(widths) : all[k] = widths[k]
    BY <1>6 DEF Begins
  <2>3. QED
    BY <1>8, <2>1, <2>2
<1>10. QED
  BY <1>5, <1>7, <1>9 DEF SameWidth

\* So a sample of a valid file is not blank, and what is checked of it has rows,
\* all as wide as the first: the sample is not refused.
LEMMA SampleFacts ==
    ASSUME NEW text \in Seq(Bytes), Valid(text)
    PROVE  /\ ~Blank(Sample(text))
           /\ ~NoRows(Trimmed(Sample(text)))
           /\ ~Ragged(Trimmed(Sample(text)))
<1>1. Len(text) \in Nat \ {0} /\ text[1] # "newline"
  BY DEF Valid
<1>2. PICK n \in 1..Len(text) : Sample(text) = SubSeq(text, 1, n)
  BY <1>1, SampleAssumption DEF Sample
<1> DEFINE sample == SubSeq(text, 1, n)
<1>3. sample \in Seq(Bytes) /\ Len(sample) = n /\ \A k \in 1..n : sample[k] = text[k]
  BY <1>1
<1>4. ~Blank(sample)
  BY <1>1, <1>3 DEF Blank
<1>5. PICK m \in 1..n : Trimmed(sample) = SubSeq(sample, 1, m)
  <2>1. CASE Newlines(sample) = {}
    <3>1. SubSeq(sample, 1, n) = sample
      BY <1>3
    <3>2. QED
      BY <2>1, <3>1 DEF Trimmed
  <2>2. CASE Newlines(sample) # {}
    <3>1. \A i \in Newlines(sample) : i \in 1..n /\ i # 1
      BY <1>1, <1>3 DEF Newlines
    <3>2. Latest(Newlines(sample)) \in Newlines(sample)
      BY <2>2, <3>1, LatestFacts
    <3>3. Latest(Newlines(sample)) - 1 \in 1..n
      BY <3>1, <3>2
    <3>4. QED
      BY <2>2, <3>3 DEF Trimmed
  <2>3. QED
    BY <2>1, <2>2
<1> DEFINE trimmed == SubSeq(text, 1, m)
<1>6. Trimmed(sample) = trimmed
  <2> SUFFICES SubSeq(sample, 1, m) = trimmed
    BY <1>5
  <2>1. QED
    BY <1>1, <1>3
<1>7. trimmed \in Seq(Bytes) /\ Len(trimmed) = m /\ \A k \in 1..m : trimmed[k] = text[k]
  BY <1>1
<1> HIDE DEF trimmed
<1> DEFINE i == LastRecordBoundary(trimmed)
<1>8. ASSUME i > 1
      PROVE  SameWidth(Checked(trimmed)) /\ Widths(Checked(trimmed)) # <<>>
  <2> DEFINE ends == RecordEnds(trimmed)
  <2>1. i = Latest(ends)
    BY DEF LastRecordBoundary
  <2>2. m \in Nat /\ \A j \in ends : j \in 1..m /\ trimmed[j] = "newline"
    BY <1>7 DEF RecordEnds, Newlines
  <2>3. i \in ends
    <3> HIDE DEF ends, i
    <3>1. QED
      BY <1>8, <2>1, <2>2, LatestFacts
  <2>5. /\ i \in 1..m /\ trimmed[i] = "newline"
        /\ Cardinality({k \in 1..(i - 1) : trimmed[k] = "quote"}) % 2 = 0
    BY <2>2, <2>3 DEF RecordEnds
  <2> HIDE DEF i, ends
  <2>6. i \in 2..Len(text) /\ i \in 1..m /\ text[i] = "newline"
    BY <1>1, <1>7, <1>8, <2>5
  <2>7. {k \in 1..(i - 1) : trimmed[k] = "quote"} = {k \in 1..(i - 1) : text[k] = "quote"}
    BY <1>7, <2>6
  <2>8. SubSeq(trimmed, 1, i - 1) = SubSeq(text, 1, i - 1)
    BY <1>1, <1>7, <2>6 DEF trimmed
  <2>9. Checked(trimmed) = SubSeq(text, 1, i - 1)
    BY <2>8 DEF Checked, i
  <2>10. QED
    BY <2>5, <2>6, <2>7, <2>9, WholeRecords
<1>9. ~NoRows(trimmed) /\ ~Ragged(trimmed)
  BY <1>8 DEF NoRows, Ragged, Judged
<1>10. QED
  BY <1>2, <1>4, <1>6, <1>9

-----------------------------------------------------------------------------
(* Sequences of columns and claims. *)

\* Kept keeps the elements of a set, each as often as it was there.
LEMMA KeptFacts ==
    ASSUME NEW S, NEW s \in Seq(S), NEW set, NEW t, t = Kept(s, set)
    PROVE  /\ t \in Seq(S \cap set) /\ Elements(t) = Elements(s) \cap set
           /\ (\A i, k \in 1..Len(s) : s[i] = s[k] => i = k) =>
                 \A i, k \in 1..Len(t) : t[i] = t[k] => i = k
<1> DEFINE Next1(f, n) == IF n = 0 THEN <<>> ELSE IF s[n] \in set THEN Append(f[n - 1], s[n]) ELSE f[n - 1]
           Solved == {n \in Nat : \E f : f = [m \in 0..n |-> Next1(f, m)]}
<1>1. 0 \in Solved
  <2> DEFINE f == [m \in 0..0 |-> <<>>]
  <2>1. f = [m \in 0..0 |-> Next1(f, m)]
    OBVIOUS
  <2>2. QED
    BY <2>1
<1>2. ASSUME NEW n \in Nat, n \in Solved PROVE n + 1 \in Solved
  <2>1. PICK f : f = [m \in 0..n |-> Next1(f, m)]
    BY <1>2
  <2> DEFINE last == IF s[n + 1] \in set THEN Append(f[n], s[n + 1]) ELSE f[n]
  <2> HIDE DEF last
  <2> DEFINE g == [m \in 0..(n + 1) |-> IF m = n + 1 THEN last ELSE f[m]]
  <2>2. \A m \in 0..n : g[m] = f[m]
    OBVIOUS
  <2>3. g[n + 1] = last
    OBVIOUS
  <2>4. DOMAIN g = 0..(n + 1) /\ g = [m \in DOMAIN g |-> g[m]]
    OBVIOUS
  <2> HIDE DEF g
  <2>5. \A m \in 0..n : f[m] = Next1(f, m)
    <3> HIDE DEF Next1
    <3>1. QED
      BY <2>1
  <2>6. ASSUME NEW m \in 0..(n + 1) PROVE g[m] = Next1(g, m)
    <3>1. CASE m = 0
      BY <2>2, <2>5, <3>1
    <3>2. CASE m \in 1..n
      <4>1. m \in 0..n /\ m - 1 \in 0..n /\ m # 0
        BY <3>2
      <4>2. g[m - 1] = f[m - 1] /\ g[m] = Next1(f, m)
        BY <2>2, <2>5, <4>1
      <4>3. QED
        BY <4>1, <4>2
    <3>3. CASE m = n + 1
      <4>1. g[n] = f[n] /\ m - 1 = n /\ m # 0
        BY <2>2, <3>3
      <4>2. QED
        BY <2>3, <3>3, <4>1 DEF last
    <3>4. QED
      BY <3>1, <3>2, <3>3
  <2> HIDE DEF Next1
  <2>7. g = [m \in 0..(n + 1) |-> Next1(g, m)]
    BY <2>4, <2>6
  <2>8. QED
    BY <2>7
<1>3. Len(s) \in Nat
  OBVIOUS
<1>4. Len(s) \in Solved
  <2> HIDE DEF Solved
  <2>1. 0..Len(s) \subseteq Solved
    BY <1>1, <1>2, <1>3, Throughout
  <2>2. QED
    BY <1>3, <2>1
<1>5. PICK kept : kept = [m \in 0..Len(s) |-> Next1(kept, m)] /\ t = kept[Len(s)]
  BY <1>4 DEF Kept
<1>6. \A m \in 0..Len(s) : kept[m] = Next1(kept, m)
  <2> HIDE DEF Next1
  <2>1. QED
    BY <1>5
<1> DEFINE Seen(m) == {s[i] : i \in 1..m}
           Distinct(u, n) == \A i, k \in 1..n : u[i] = u[k] => i = k
           Fine(m) == /\ kept[m] \in Seq(S \cap set)
                      /\ {kept[m][i] : i \in 1..Len(kept[m])} = Seen(m) \cap set
                      /\ Distinct(s, Len(s)) => Distinct(kept[m], Len(kept[m]))
           Good == {m \in 0..Len(s) : Fine(m)}
<1>7. 0 \in Good
  <2>1. kept[0] = <<>> /\ 0 \in 0..Len(s)
    BY <1>3, <1>6
  <2>2. <<>> \in Seq(S \cap set) /\ {<<>>[i] : i \in 1..Len(<<>>)} = {} /\ Seen(0) = {}
    OBVIOUS
  <2>3. Distinct(<<>>, Len(<<>>))
    OBVIOUS
  <2> HIDE DEF Seen, Distinct
  <2>4. QED
    BY <2>1, <2>2, <2>3
<1>8. ASSUME NEW m \in 0..(Len(s) - 1), m \in Good PROVE m + 1 \in Good
  <2> DEFINE u == kept[m]
             v == kept[m + 1]
             x == s[m + 1]
  <2>1. /\ m \in Nat /\ m + 1 \in 0..Len(s) /\ m + 1 # 0 /\ (m + 1) - 1 = m /\ m + 1 \in 1..Len(s)
        /\ x \in S /\ u \in Seq(S \cap set) /\ Len(u) \in Nat
        /\ {u[i] : i \in 1..Len(u)} = Seen(m) \cap set
        /\ Distinct(s, Len(s)) => Distinct(u, Len(u))
    <3>1. m \in Nat /\ m + 1 \in 0..Len(s) /\ m + 1 # 0 /\ (m + 1) - 1 = m /\ m + 1 \in 1..Len(s)
      BY <1>3
    <3>2. x \in S
      BY <3>1
    <3>3. Fine(m)
      BY <1>8
    <3>4. u \in Seq(S \cap set) => Len(u) \in Nat
      OBVIOUS
    <3> HIDE DEF Seen, Distinct
    <3>5. QED
      BY <3>1, <3>2, <3>3, <3>4
  <2>2. v = IF x \in set THEN Append(u, x) ELSE u
    BY <1>6, <2>1
  <2>3. Seen(m + 1) = Seen(m) \cup {x}
    BY <2>1
  <2>4. Distinct(s, Len(s)) => x \notin Seen(m)
    BY <2>1
  <2>5. SUFFICES Fine(m + 1)
    BY <2>1
  <2> HIDE DEF u, v, x, Seen
  <2>6. CASE x \in set
    <3>1. /\ v \in Seq(S \cap set) /\ Len(v) = Len(u) + 1 /\ v[Len(u) + 1] = x
          /\ \A i \in 1..Len(u) : v[i] = u[i]
      BY <2>1, <2>2, <2>6
    <3>2. {v[i] : i \in 1..Len(v)} = {u[i] : i \in 1..Len(u)} \cup {x}
      <4>1. 1..Len(v) = 1..Len(u) \cup {Len(u) + 1}
        BY <2>1, <3>1
      <4>2. QED
        BY <3>1, <4>1
    <3>3. {v[i] : i \in 1..Len(v)} = Seen(m + 1) \cap set
      BY <2>1, <2>3, <2>6, <3>2
    <3>4. ASSUME Distinct(s, Len(s)) PROVE Distinct(v, Len(v))
      <4>1. \A i \in 1..Len(u) : u[i] # x
        BY <2>1, <2>4, <3>4
      <4>2. SUFFICES ASSUME NEW i \in 1..Len(v), NEW k \in 1..Len(v), v[i] = v[k] PROVE i = k
        OBVIOUS
      <4>3. /\ i \in 1..Len(u) \/ i = Len(u) + 1
            /\ k \in 1..Len(u) \/ k = Len(u) + 1
        BY <2>1, <3>1
      <4>4. i \in 1..Len(u) /\ k \in 1..Len(u) => i = k
        BY <2>1, <3>1, <3>4, <4>2
      <4>5. QED
        BY <3>1, <4>1, <4>2, <4>3, <4>4
    <3>5. QED
      BY <3>1, <3>3, <3>4 DEF v
  <2>7. CASE x \notin set
    <3>1. v = u /\ Seen(m + 1) \cap set = Seen(m) \cap set
      BY <2>2, <2>3, <2>7
    <3>2. QED
      BY <2>1, <3>1 DEF v
  <2>8. QED
    BY <2>6, <2>7
<1>9. Len(s) \in Good
  <2> HIDE DEF Good
  <2>1. 0..Len(s) \subseteq Good
    BY <1>3, <1>7, <1>8, Throughout
  <2>2. QED
    BY <1>3, <2>1
<1>10. Fine(Len(s))
  <2> HIDE DEF Fine
  <2>1. QED
    BY <1>9
<1>11. /\ t \in Seq(S \cap set)
       /\ {t[i] : i \in 1..Len(t)} = Seen(Len(s)) \cap set
       /\ Distinct(s, Len(s)) => Distinct(t, Len(t))
  <2>1. t = kept[Len(s)]
    BY <1>5
  <2> HIDE DEF Seen, Distinct
  <2>2. QED
    BY <1>10, <2>1
<1>12. DOMAIN t = 1..Len(t) /\ DOMAIN s = 1..Len(s)
  <2> HIDE DEF Seen, Distinct
  <2>1. QED
    BY <1>11
<1>13. Elements(t) = Elements(s) \cap set
  BY <1>11, <1>12 DEF Elements
<1>14. QED
  BY <1>11, <1>13

\* Numbers in descending order: each has its own number of others before it, and
\* every number up to all but one is such a number.
LEMMA RankFacts ==
    ASSUME NEW n \in Nat, NEW key, \A i \in 1..n : key[i] \in Int,
           NEW before, \A i \in 1..n : before[i] \subseteq 1..n,
           \A i, k \in 1..n : k \in before[i] <=> (key[k] > key[i] \/ (key[k] = key[i] /\ k < i))
    PROVE  /\ \A i \in 1..n : Cardinality(before[i]) \in 0..(n - 1)
           /\ \A p \in 0..(n - 1) : \E i \in 1..n : Cardinality(before[i]) = p
           /\ \A i, k \in 1..n : Cardinality(before[k]) < Cardinality(before[i]) <=> k \in before[i]
           /\ \A i, k \in 1..n : Cardinality(before[k]) = Cardinality(before[i]) => k = i
<1>2. \A i, k \in 1..n : k \in before[i] <=> (key[k] > key[i] \/ (key[k] = key[i] /\ k < i))
  OBVIOUS
<1>3. \A i \in 1..n : before[i] \subseteq (1..n) \ {i}
  OBVIOUS
<1>4. IsFiniteSet(1..n) /\ Cardinality(1..n) = n /\ IsFiniteSet(0..(n - 1)) /\ Cardinality(0..(n - 1)) = n
  <2>1. IsFiniteSet(1..n) /\ Cardinality(1..n) = n
    BY FS_Interval
  <2>2. 0 \in Int /\ n - 1 \in Int
    OBVIOUS
  <2>3. IsFiniteSet(0..(n - 1)) /\ Cardinality(0..(n - 1)) = IF 0 > n - 1 THEN 0 ELSE n - 1 - 0 + 1
    BY <2>2, FS_Interval
  <2>4. QED
    BY <2>1, <2>3
<1> DEFINE rank == [i \in 1..n |-> Cardinality(before[i])]
<1>5. \A i \in 1..n : IsFiniteSet(before[i]) /\ rank[i] \in 0..(n - 1) /\ rank[i] = Cardinality(before[i])
  <2> TAKE i \in 1..n
  <2>1. IsFiniteSet((1..n) \ {i}) /\ Cardinality((1..n) \ {i}) = n - 1
    BY <1>4, FS_RemoveElement
  <2>2. IsFiniteSet(before[i]) /\ Cardinality(before[i]) <= n - 1
    BY <1>3, <2>1, FS_Subset
  <2>3. Cardinality(before[i]) \in Nat
    BY <2>2, FS_CardinalityType
  <2>4. QED
    BY <2>2, <2>3
<1> HIDE DEF rank
<1>50. \A i \in 1..n : rank[i] \in Int
  <2> TAKE i \in 1..n
  <2>1. rank[i] \in 0..(n - 1)
    BY <1>5
  <2>2. QED
    BY <2>1
<1>6. ASSUME NEW i \in 1..n, NEW k \in 1..n, k \in before[i]
      PROVE  rank[k] < rank[i]
  <2>1. \A m \in before[k] : m \in before[i]
    <3> TAKE m \in before[k]
    <3>1. m \in 1..n /\ key[m] \in Int /\ key[k] \in Int /\ key[i] \in Int
      BY <1>3
    <3>2. QED
      BY <1>2, <1>6, <3>1
  <2>2. k \notin before[k]
    BY <1>3
  <2>3. before[k] \subseteq before[i] /\ before[k] # before[i]
    BY <1>6, <2>1, <2>2
  <2>4. Cardinality(before[k]) <= Cardinality(before[i]) /\ Cardinality(before[k]) # Cardinality(before[i])
    BY <1>5, <2>3, FS_Subset
  <2>5. rank[k] <= rank[i] /\ rank[k] # rank[i]
    BY <1>5, <2>4
  <2>6. rank[k] \in Int /\ rank[i] \in Int
    BY <1>50
  <2>7. QED
    BY <2>5, <2>6
<1>7. ASSUME NEW i \in 1..n, NEW k \in 1..n, i # k PROVE k \in before[i] \/ i \in before[k]
  <2>1. key[i] \in Int /\ key[k] \in Int
    OBVIOUS
  <2>2. QED
    BY <1>2, <1>7, <2>1
<1>8. ASSUME NEW i \in 1..n, NEW k \in 1..n
      PROVE  /\ rank[k] = rank[i] => k = i
             /\ rank[k] < rank[i] <=> k \in before[i]
  <2>1. rank[k] \in Int /\ rank[i] \in Int
    BY <1>50
  <2>2. (k \in before[i] => rank[k] < rank[i]) /\ (i \in before[k] => rank[i] < rank[k])
    BY <1>6
  <2>3. k = i \/ k \in before[i] \/ i \in before[k]
    BY <1>7
  <2>4. QED
    BY <2>1, <2>2, <2>3
<1>9. /\ \A i, k \in 1..n : Cardinality(before[k]) < Cardinality(before[i]) <=> k \in before[i]
      /\ \A i, k \in 1..n : Cardinality(before[k]) = Cardinality(before[i]) => k = i
  <2> SUFFICES ASSUME NEW i \in 1..n, NEW k \in 1..n
               PROVE  /\ Cardinality(before[k]) < Cardinality(before[i]) <=> k \in before[i]
                      /\ Cardinality(before[k]) = Cardinality(before[i]) => k = i
    OBVIOUS
  <2>1. rank[k] = Cardinality(before[k]) /\ rank[i] = Cardinality(before[i])
    BY <1>5
  <2>2. QED
    BY <1>8, <2>1
<1>10. \A p \in 0..(n - 1) : \E i \in 1..n : Cardinality(before[i]) = p
  <2>1. rank \in Injection(1..n, 0..(n - 1))
    <3>1. rank \in [1..n -> 0..(n - 1)]
      BY <1>5 DEF rank
    <3>2. QED
      BY <1>8, <3>1 DEF Injection, IsInjective
  <2>2. rank \in Surjection(1..n, 0..(n - 1))
    BY <1>4, <2>1, FS_Injection
  <2>3. \A p \in 0..(n - 1) : \E i \in 1..n : rank[i] = p
    BY <2>2 DEF Surjection
  <2>4. QED
    BY <1>5, <2>3
<1>11. QED
  BY <1>5, <1>9, <1>10

\* A sequence reordered, its element p from the place from[p]: by descending key,
\* and elements with the same key as they were.
Reorders(from, s, key, t) ==
    /\ from \in [1..Len(s) -> 1..Len(s)]
    /\ \A p \in 1..Len(s) : t[p] = s[from[p]]
    /\ \A i \in 1..Len(s) : \E p \in 1..Len(s) : from[p] = i
    /\ \A p, q \in 1..Len(s) : from[p] = from[q] => p = q
    /\ \A p, q \in 1..Len(s) : p < q =>
          key[t[p]] > key[t[q]] \/ (key[t[p]] = key[t[q]] /\ from[p] < from[q])

\* Descending reorders a sequence in this way.
LEMMA DescendingFacts ==
    ASSUME NEW S, NEW s \in Seq(S), NEW key, \A x \in Elements(s) : key[x] \in Int,
           NEW t, t = Descending(s, key)
    PROVE  /\ t \in Seq(S) /\ Len(t) = Len(s) /\ Elements(t) = Elements(s)
           /\ \E from : Reorders(from, s, key, t)
<1> DEFINE n == Len(s)
           Before(i) == {k \in DOMAIN s : key[s[k]] > key[s[i]] \/ (key[s[k]] = key[s[i]] /\ k < i)}
           Chosen(p) == CHOOSE i \in DOMAIN s : Cardinality(Before(i)) = p - 1
           keys == [i \in 1..n |-> key[s[i]]]
           before == [i \in 1..n |-> Before(i)]
           from == [p \in 1..n |-> Chosen(p)]
<1>1. n \in Nat /\ DOMAIN s = 1..n /\ \A i \in 1..n : s[i] \in S /\ s[i] \in Elements(s)
  BY DEF Elements
<1>2. t = [p \in DOMAIN s |-> s[Chosen(p)]]
  BY DEF Descending
<1>3. \A i \in 1..n : keys[i] = key[s[i]] /\ keys[i] \in Int
  BY <1>1
<1>4. \A i \in 1..n : before[i] = {k \in 1..n : keys[k] > keys[i] \/ (keys[k] = keys[i] /\ k < i)}
  BY <1>1
<1>5. \A i \in 1..n : before[i] = Before(i)
  OBVIOUS
<1>6. \A i, k \in 1..n : k \in before[i] <=> (keys[k] > keys[i] \/ (keys[k] = keys[i] /\ k < i))
  BY <1>4
<1> HIDE DEF before, keys, Before
<1>7. /\ \A i \in 1..n : Cardinality(before[i]) \in 0..(n - 1)
      /\ \A p \in 0..(n - 1) : \E i \in 1..n : Cardinality(before[i]) = p
      /\ \A i, k \in 1..n : Cardinality(before[k]) < Cardinality(before[i]) <=> k \in before[i]
      /\ \A i, k \in 1..n : Cardinality(before[k]) = Cardinality(before[i]) => k = i
  <2>1. \A i \in 1..n : keys[i] \in Int
    BY <1>3
  <2>2. n \in Nat
    BY <1>1
  <2>3. \A i \in 1..n : before[i] \subseteq 1..n
    BY <1>4
  <2> HIDE DEF n
  <2>4. QED
    BY <1>6, <2>1, <2>2, <2>3, RankFacts
<1>8. \A p \in 1..n : Chosen(p) \in 1..n /\ Cardinality(before[Chosen(p)]) = p - 1
  <2> TAKE p \in 1..n
  <2>1. p - 1 \in 0..(n - 1)
    BY <1>1
  <2>2. \E i \in DOMAIN s : Cardinality(Before(i)) = p - 1
    BY <1>1, <1>5, <1>7, <2>1
  <2>3. Chosen(p) \in DOMAIN s /\ Cardinality(Before(Chosen(p))) = p - 1
    BY <2>2
  <2>4. QED
    BY <1>1, <1>5, <2>3
<1>9. \A p \in 1..n : from[p] = Chosen(p) /\ t[p] = s[from[p]]
  BY <1>1, <1>2
<1>10. from \in [1..n -> 1..n]
  BY <1>8
<1> HIDE DEF Chosen
<1>11. \A p \in 1..n : from[p] \in 1..n /\ Cardinality(before[from[p]]) = p - 1
  BY <1>8, <1>9
<1>12. DOMAIN t = 1..n /\ t = [p \in 1..n |-> t[p]]
  BY <1>1, <1>2
<1> HIDE DEF from
<1>13. t \in Seq(S) /\ Len(t) = n
  <2>1. \A p \in 1..n : t[p] \in S
    BY <1>1, <1>9, <1>11
  <2>2. t \in [1..n -> S]
    BY <1>12, <2>1
  <2>3. QED
    BY <1>1, <2>2
<1>14. ASSUME NEW i \in 1..n PROVE \E p \in 1..n : from[p] = i
  <2> DEFINE c == Cardinality(before[i])
  <2>1. c \in 0..(n - 1)
    BY <1>7
  <2>2. c + 1 \in 1..n /\ (c + 1) - 1 = c
    BY <1>1, <2>1
  <2>3. Cardinality(before[from[c + 1]]) = c /\ from[c + 1] \in 1..n
    BY <1>11, <2>2
  <2>4. from[c + 1] = i
    BY <1>7, <2>3
  <2>5. QED
    BY <2>2, <2>4
<1>15. ASSUME NEW p \in 1..n, NEW q \in 1..n
       PROVE  /\ from[p] = from[q] => p = q
              /\ p < q => key[t[p]] > key[t[q]] \/ (key[t[p]] = key[t[q]] /\ from[p] < from[q])
  <2>1. /\ from[p] \in 1..n /\ Cardinality(before[from[p]]) = p - 1 /\ t[p] = s[from[p]]
        /\ from[q] \in 1..n /\ Cardinality(before[from[q]]) = q - 1 /\ t[q] = s[from[q]]
    BY <1>9, <1>11
  <2>2. from[p] = from[q] => p = q
    BY <2>1
  <2>3. ASSUME p < q PROVE from[p] \in before[from[q]]
    <3>1. p - 1 < q - 1
      BY <1>1, <2>3
    <3>2. Cardinality(before[from[p]]) < Cardinality(before[from[q]])
      BY <2>1, <3>1
    <3>3. QED
      BY <1>7, <2>1, <3>2
  <2>4. from[p] \in before[from[q]] =>
            keys[from[p]] > keys[from[q]] \/ (keys[from[p]] = keys[from[q]] /\ from[p] < from[q])
    BY <1>6, <2>1
  <2>5. keys[from[p]] = key[t[p]] /\ keys[from[q]] = key[t[q]]
    BY <1>3, <2>1
  <2>6. QED
    BY <2>2, <2>3, <2>4, <2>5
<1>16. Elements(t) = Elements(s)
  <2>1. \A p \in 1..n : t[p] \in Elements(s)
    BY <1>1, <1>9, <1>11
  <2>2. \A i \in 1..n : \E p \in 1..n : t[p] = s[i]
    BY <1>9, <1>14
  <2>3. Elements(t) = {t[p] : p \in 1..n} /\ Elements(s) = {s[i] : i \in 1..n}
    BY <1>1, <1>12 DEF Elements
  <2> HIDE DEF n
  <2>4. Elements(t) \subseteq Elements(s) /\ Elements(s) \subseteq Elements(t)
    BY <2>1, <2>2, <2>3
  <2>5. QED
    BY <2>4
<1>17. /\ \A p \in 1..n : t[p] = s[from[p]]
       /\ \A i \in 1..n : \E p \in 1..n : from[p] = i
       /\ \A p, q \in 1..n : from[p] = from[q] => p = q
       /\ \A p, q \in 1..n : p < q =>
             key[t[p]] > key[t[q]] \/ (key[t[p]] = key[t[q]] /\ from[p] < from[q])
  BY <1>9, <1>14, <1>15
<1>18. t \in Seq(S) /\ Len(t) = Len(s) /\ Elements(t) = Elements(s) /\ from \in [1..Len(s) -> 1..Len(s)]
  BY <1>10, <1>13, <1>16
<1>19. Reorders(from, s, key, t)
  BY <1>17, <1>18 DEF Reorders
<1>20. QED
  BY <1>18, <1>19

-----------------------------------------------------------------------------
(* What the heuristic proposes. *)

\* A profile: columns with names of their own, and dependencies between them.
Regular(p) ==
    /\ p.columns \in Seq(Columns(p)) /\ IsFiniteSet(p.links)
    /\ \A c, d \in Columns(p) : c.name = d.name => c = d
    /\ \A c \in Columns(p) : c.name # None /\ c.unique \in Nat
    /\ \A l \in p.links : {l.det, l.dep} \subseteq Names(p.columns)

\* The names of columns are those of its elements.
LEMMA NamesFacts ==
    ASSUME NEW cols
    PROVE  Names(cols) = {c.name : c \in Elements(cols)}
BY DEF Names, Elements

\* The columns each rule takes.
LEMMA RuleFacts ==
    ASSUME NEW p, Regular(p)
    PROVE  /\ Times(p) \in Seq(Columns(p)) /\ Elements(Times(p)) = {c \in Columns(p) : c.type \in Temporal}
           /\ Derived(p) \in Seq(Columns(p))
           /\ Elements(Derived(p)) = {c \in Columns(p) :
                 /\ c.type \notin Temporal
                 /\ EventTime(p) \in DeterminedBy(p, c) /\ EventTime(p) \notin Determines(p, c)}
           /\ Flags(p) \in Seq(Columns(p)) /\ \A c \in Elements(Flags(p)) : c.name \notin Names(Derived(p))
           /\ Keys(p) \in Seq(Columns(p)) /\ \A c \in Elements(Keys(p)) : c.name \notin Names(Derived(p))
           /\ Measures(p) \in Seq(Columns(p))
           /\ \A c \in Elements(Measures(p)) : c.type \in Numeric /\ c.name \notin Names(Derived(p))
           /\ Quantities(p) \in Seq(Elements(Measures(p))) /\ Decimals(p) \in Seq(Elements(Measures(p)))
<1> DEFINE C == Columns(p)
<1>1. p.columns \in Seq(C) /\ Elements(p.columns) = C /\ \A c \in C : c.unique \in Nat
  BY DEF Regular, Columns
<1> HIDE DEF C
<1>2. \A set : Kept(p.columns, set) \in Seq(C \cap set) /\ Elements(Kept(p.columns, set)) = C \cap set
  BY <1>1, KeptFacts
<1>3. \A set : Kept(p.columns, set) \in Seq(C)
  <2> TAKE set
  <2>1. Kept(p.columns, set) \in Seq(C \cap set)
    BY <1>2
  <2> DEFINE k == Kept(p.columns, set)
  <2> HIDE DEF k
  <2>2. k \in Seq(C \cap set) => k \in Seq(C)
    OBVIOUS
  <2>3. QED
    BY <2>1, <2>2 DEF k
<1>5. \A s, t \in Seq(C) : Names(s) \subseteq Names(s \o t) /\ s \o t \in Seq(C)
  <2> TAKE s, t \in Seq(C)
  <2>1. s \o t \in Seq(C) /\ \A i \in DOMAIN s : i \in DOMAIN (s \o t) /\ (s \o t)[i] = s[i]
    OBVIOUS
  <2>2. QED
    BY <2>1 DEF Names
<1>6. Times(p) \in Seq(C) /\ Elements(Times(p)) = {c \in C : c.type \in Temporal}
  <2> DEFINE times == Kept(p.columns, {c \in Columns(p) : c.type \in Temporal})
             key == [c \in Columns(p) |-> Cardinality(Determines(p, c))]
  <2>1. times \in Seq(C) /\ Elements(times) = {c \in C : c.type \in Temporal}
    BY <1>2, <1>3 DEF C
  <2>2. \A c \in Elements(times) : key[c] \in Int
    <3> TAKE c \in Elements(times)
    <3>1. c \in Columns(p)
      BY <2>1 DEF C
    <3> DEFINE L == {l \in p.links : l.det = c.name}
               dep == [l \in L |-> l.dep]
    <3>2. IsFiniteSet(L)
      BY FS_Subset DEF Regular
    <3>3. IsFiniteSet(Determines(p, c))
      <4>1. dep \in Surjection(L, Determines(p, c))
        BY DEF Determines, Surjection
      <4>2. QED
        BY <3>2, <4>1, FS_Surjection
    <3>4. Cardinality(Determines(p, c)) \in Nat
      BY <3>3, FS_CardinalityType
    <3>5. QED
      BY <3>1, <3>4
  <2>3. Times(p) = Descending(times, key)
    BY DEF Times
  <2> HIDE DEF times, key
  <2>4. QED
    BY <2>1, <2>2, <2>3, DescendingFacts
<1>7. /\ Derived(p) \in Seq(C)
      /\ Elements(Derived(p)) = {c \in C :
            /\ c.type \notin Temporal
            /\ EventTime(p) \in DeterminedBy(p, c) /\ EventTime(p) \notin Determines(p, c)}
  <2>1. \A set : set \subseteq C => C \cap set = set
    OBVIOUS
  <2>2. QED
    BY <1>2, <1>3, <2>1 DEF Derived, C
<1>8. Flags(p) \in Seq(C) /\ \A c \in Elements(Flags(p)) : c.name \notin Names(Derived(p))
  BY <1>2, <1>3 DEF Flags, C
<1>9. Keys(p) \in Seq(C) /\ \A c \in Elements(Keys(p)) : c.name \notin Names(Derived(p))
  <2> DEFINE keys == Kept(p.columns, {c \in Columns(p) :
                         /\ c.type \notin Temporal /\ c.name \notin Names(Derived(p) \o Flags(p))
                         /\ c.unique < 999 /\ EventTime(p) \in Determines(p, c)})
             key == [c \in Columns(p) |-> c.unique]
             sorted == Descending(keys, key)
  <2>1. keys \in Seq(C) /\ \A c \in Elements(keys) : c \in C /\ c.name \notin Names(Derived(p) \o Flags(p))
    BY <1>2, <1>3
  <2>2. \A c \in Elements(keys) : key[c] \in Int /\ c.name \notin Names(Derived(p))
    BY <1>1, <1>5, <1>7, <1>8, <2>1 DEF C
  <2>3. Keys(p) = FirstOf(sorted)
    BY DEF Keys
  <2> HIDE DEF keys, key
  <2>4. sorted \in Seq(C) /\ Elements(sorted) = Elements(keys)
    BY <2>1, <2>2, DescendingFacts
  <2> HIDE DEF sorted
  <2>5. FirstOf(sorted) \in Seq(C) /\ Elements(FirstOf(sorted)) \subseteq Elements(sorted)
    <3>1. CASE sorted = <<>>
      BY <3>1 DEF FirstOf, Elements
    <3>2. CASE sorted # <<>>
      BY <2>4, <3>2 DEF FirstOf, Elements
    <3>3. QED
      BY <3>1, <3>2
  <2>6. QED
    BY <2>2, <2>3, <2>4, <2>5
<1>10. /\ Measures(p) \in Seq(C)
       /\ \A c \in Elements(Measures(p)) : c.type \in Numeric /\ c.name \notin Names(Derived(p))
  <2>1. Names(Derived(p)) \subseteq Names(Derived(p) \o Flags(p) \o Keys(p))
    BY <1>5, <1>7, <1>8, <1>9
  <2>2. \A c \in Elements(Measures(p)) :
            c.type \in Numeric /\ c.name \notin Names(Derived(p) \o Flags(p) \o Keys(p))
    BY <1>2 DEF Measures
  <2>3. Measures(p) \in Seq(C)
    BY <1>3 DEF Measures
  <2>4. QED
    BY <2>1, <2>2, <2>3
<1>11. \A set : Kept(Measures(p), set) \in Seq(Elements(Measures(p)))
  <2> TAKE set
  <2> DEFINE m == Measures(p)
             M == Elements(m)
             k == Kept(m, set)
  <2>1. m \in Seq(C)
    BY <1>10
  <2> HIDE DEF m
  <2>2. m \in Seq(M)
    BY <2>1 DEF Elements
  <2> HIDE DEF M
  <2>3. k \in Seq(M \cap set)
    BY <2>2, KeptFacts
  <2> HIDE DEF k
  <2>4. k \in Seq(M)
    BY <2>3
  <2>5. QED
    BY <2>4 DEF k, m, M
<1>12. Quantities(p) \in Seq(Elements(Measures(p))) /\ Decimals(p) \in Seq(Elements(Measures(p)))
  BY <1>11 DEF Quantities, Decimals
<1>13. QED
  BY <1>6, <1>7, <1>8, <1>9, <1>10, <1>12 DEF C

\* The roles revenue and units are summed over.
Summable == {"additive_quantity", "monetary_rate", "monetary_amount"}

\* What the heuristic may claim of a column: a measure in those roles, and a
\* slice of the event time as nothing but a dimension.
Claimable(p) ==
    {x \in [column : Names(p.columns), role : Roles, entity : {None, "other"}, confidence : 0..70] :
        /\ x.role = "event_time" => x.column \in Names(Times(p))
        /\ x.role \in Summable => x.column \in Names(Measures(p))
        /\ x.column \in Names(Derived(p)) => x.role = "dimension"}

\* One claim that may be made.
LEMMA ClaimFacts ==
    ASSUME NEW p, NEW c \in Columns(p), NEW role \in Roles, NEW confidence \in 0..70,
           role = "event_time" => c \in Elements(Times(p)),
           role \in Summable => c \in Elements(Measures(p)),
           c.name \in Names(Derived(p)) => role = "dimension"
    PROVE  ClaimOf(c, role, confidence) \in Claimable(p)
<1> DEFINE x == ClaimOf(c, role, confidence)
<1>1. /\ x \in [column : Names(p.columns), role : Roles, entity : {None, "other"}, confidence : 0..70]
      /\ x.column = c.name /\ x.role = role
  BY NamesFacts DEF ClaimOf, Columns
<1>2. /\ role = "event_time" => c.name \in Names(Times(p))
      /\ role \in Summable => c.name \in Names(Measures(p))
  BY NamesFacts
<1> HIDE DEF x
<1>3. x \in Claimable(p)
  BY <1>1, <1>2 DEF Claimable
<1>4. QED
  BY <1>3 DEF x

\* What is claimed of all columns of a sequence, each in its place.
LEMMA ClaimAllPlaces ==
    ASSUME NEW cols, NEW role, NEW confidence
    PROVE  /\ DOMAIN ClaimAll(cols, role, confidence) = DOMAIN cols
           /\ \A i \in DOMAIN cols : ClaimAll(cols, role, confidence)[i] = ClaimOf(cols[i], role, confidence)
BY DEF ClaimAll

LEMMA ClaimAllFacts ==
    ASSUME NEW S, NEW cols \in Seq(S), NEW T, NEW role, NEW confidence,
           \A c \in Elements(cols) : ClaimOf(c, role, confidence) \in T
    PROVE  ClaimAll(cols, role, confidence) \in Seq(T)
<1> DEFINE claims == ClaimAll(cols, role, confidence)
<1>1. Len(cols) \in Nat /\ DOMAIN cols = 1..Len(cols) /\ \A i \in 1..Len(cols) : cols[i] \in Elements(cols)
  BY DEF Elements
<1>2. claims \in [1..Len(cols) -> T]
  BY <1>1 DEF ClaimAll
<1> HIDE DEF claims
<1>3. claims \in Seq(T)
  BY <1>1, <1>2
<1>4. QED
  BY <1>3 DEF claims

\* What is claimed of its first columns, of each something else.
LEMMA ClaimEachFacts ==
    ASSUME NEW S, NEW cols \in Seq(S), NEW T, NEW roles, NEW n \in 0..Len(cols), DOMAIN roles = 1..n,
           \A i \in 1..n : ClaimOf(cols[i], roles[i][1], roles[i][2]) \in T
    PROVE  ClaimEach(cols, roles) \in Seq(T)
<1> DEFINE claims == ClaimEach(cols, roles)
<1>1. n \in Nat
  OBVIOUS
<1>2. claims \in [1..n -> T]
  BY DEF ClaimEach
<1> HIDE DEF claims
<1>3. claims \in Seq(T)
  BY <1>1, <1>2
<1>4. QED
  BY <1>3 DEF claims

\* The rules claim what may be claimed, every slice of the time, and first of
\* all the event time.
LEMMA ByRuleFacts ==
    ASSUME NEW p, Regular(p)
    PROVE  /\ ByRule(p) \in Seq(Claimable(p))
           /\ \A c \in Elements(Derived(p)) : \E i \in 1..Len(ByRule(p)) : ByRule(p)[i].column = c.name
           /\ Times(p) # <<>> => ByRule(p) # <<>> /\ ByRule(p)[1] = ClaimOf(Times(p)[1], "event_time", 70)
<1> DEFINE C == Columns(p)
           T == Claimable(p)
           times == ClaimAll(Times(p), "event_time", 70)
           slices == ClaimAll(Derived(p), "dimension", 50)
           flags == ClaimAll(Flags(p), "flag", 50)
           keys == ClaimAll(Keys(p), "transaction_key", 60)
           quantities == ClaimAll(FirstOf(Quantities(p)), "additive_quantity", 55)
           money == ClaimEach(Decimals(p), Money(Decimals(p), Quantities(p)))
<1>1. \A s \in Seq(C) : Elements(s) \subseteq C
  BY DEF Elements
<1>2. \A c \in Elements(Times(p)) : c \in C /\ c.name \notin Names(Derived(p))
  <2> TAKE c \in Elements(Times(p))
  <2>1. c \in C /\ c.type \in Temporal
    BY RuleFacts
  <2>2. \A d \in Elements(Derived(p)) : d \in C /\ d.type \notin Temporal
    BY RuleFacts
  <2>3. \A d \in Elements(Derived(p)) : d.name # c.name
    BY <2>1, <2>2 DEF Regular
  <2>4. QED
    BY <2>1, <2>3, NamesFacts
<1>3. /\ {"event_time", "dimension", "flag", "transaction_key", "additive_quantity", "monetary_rate",
          "monetary_amount"} \subseteq Roles
      /\ {70, 50, 60, 55, 45, 40} \subseteq 0..70
  BY DEF Roles
<1>4. /\ times \in Seq(T) /\ Len(times) = Len(Times(p))
      /\ \A i \in 1..Len(Times(p)) : times[i] = ClaimOf(Times(p)[i], "event_time", 70)
  <2>1. \A c \in Elements(Times(p)) : ClaimOf(c, "event_time", 70) \in T
    BY <1>2, <1>3, ClaimFacts DEF Summable
  <2> DEFINE cols == Times(p)
  <2>2. cols \in Seq(C) /\ \A c \in Elements(cols) : ClaimOf(c, "event_time", 70) \in T
    BY <2>1, RuleFacts
  <2> HIDE DEF T, C, cols
  <2>3. ClaimAll(cols, "event_time", 70) \in Seq(T)
    BY <2>2, ClaimAllFacts
  <2> DEFINE claims == ClaimAll(cols, "event_time", 70)
  <2>4. DOMAIN cols = 1..Len(cols)
    BY <2>2
  <2>5. DOMAIN claims = DOMAIN cols /\ \A i \in DOMAIN cols : claims[i] = ClaimOf(cols[i], "event_time", 70)
    BY ClaimAllPlaces
  <2> HIDE DEF claims
  <2>6. DOMAIN claims = 1..Len(claims) /\ Len(claims) \in Nat /\ Len(cols) \in Nat
    BY <2>2, <2>3 DEF claims
  <2>7. Len(claims) = Len(cols)
    BY <2>4, <2>5, <2>6
  <2>8. QED
    BY <2>3, <2>4, <2>5, <2>7 DEF cols, claims
<1>5. /\ slices \in Seq(T) /\ Len(slices) = Len(Derived(p))
      /\ \A i \in 1..Len(Derived(p)) : slices[i] = ClaimOf(Derived(p)[i], "dimension", 50)
  <2>1. \A c \in Elements(Derived(p)) : ClaimOf(c, "dimension", 50) \in T
    <3> TAKE c \in Elements(Derived(p))
    <3>1. c \in C
      BY RuleFacts
    <3>2. QED
      BY <1>3, <3>1, ClaimFacts DEF Summable
  <2> DEFINE cols == Derived(p)
  <2>2. cols \in Seq(C) /\ \A c \in Elements(cols) : ClaimOf(c, "dimension", 50) \in T
    BY <2>1, RuleFacts
  <2> HIDE DEF T, C, cols
  <2>3. ClaimAll(cols, "dimension", 50) \in Seq(T)
    BY <2>2, ClaimAllFacts
  <2> DEFINE claims == ClaimAll(cols, "dimension", 50)
  <2>4. DOMAIN cols = 1..Len(cols)
    BY <2>2
  <2>5. DOMAIN claims = DOMAIN cols /\ \A i \in DOMAIN cols : claims[i] = ClaimOf(cols[i], "dimension", 50)
    BY ClaimAllPlaces
  <2> HIDE DEF claims
  <2>6. DOMAIN claims = 1..Len(claims) /\ Len(claims) \in Nat /\ Len(cols) \in Nat
    BY <2>2, <2>3 DEF claims
  <2>7. Len(claims) = Len(cols)
    BY <2>4, <2>5, <2>6
  <2>8. QED
    BY <2>3, <2>4, <2>5, <2>7 DEF cols, claims
<1>6. flags \in Seq(T)
  <2>1. \A c \in Elements(Flags(p)) : ClaimOf(c, "flag", 50) \in T
    <3> TAKE c \in Elements(Flags(p))
    <3>1. c \in C /\ c.name \notin Names(Derived(p))
      BY <1>1, RuleFacts
    <3>2. QED
      BY <1>3, <3>1, ClaimFacts DEF Summable
  <2> HIDE DEF T
  <2>2. QED
    BY <2>1, RuleFacts, ClaimAllFacts
<1>7. keys \in Seq(T)
  <2>1. \A c \in Elements(Keys(p)) : ClaimOf(c, "transaction_key", 60) \in T
    <3> TAKE c \in Elements(Keys(p))
    <3>1. c \in C /\ c.name \notin Names(Derived(p))
      BY <1>1, RuleFacts
    <3>2. QED
      BY <1>3, <3>1, ClaimFacts DEF Summable
  <2> HIDE DEF T
  <2>2. QED
    BY <2>1, RuleFacts, ClaimAllFacts
<1> DEFINE M == Elements(Measures(p))
<1>8. \A c \in M : c \in C /\ c.name \notin Names(Derived(p))
  BY <1>1, RuleFacts
<1>9. \A c \in M, role \in Summable, confidence \in 0..70 : ClaimOf(c, role, confidence) \in T
  <2> TAKE c \in M, role \in Summable, confidence \in 0..70
  <2>1. role \in Roles /\ role # "event_time"
    BY DEF Summable, Roles
  <2>2. QED
    BY <1>8, <2>1, ClaimFacts
<1>10. quantities \in Seq(T)
  <2> DEFINE first == FirstOf(Quantities(p))
             q == Quantities(p)
  <2>1. q \in Seq(M)
    BY RuleFacts
  <2> HIDE DEF q, M
  <2>2. FirstOf(q) \in Seq(M) /\ Elements(FirstOf(q)) \subseteq M
    <3>1. CASE q = <<>>
      BY <3>1 DEF FirstOf, Elements
    <3>2. CASE q # <<>>
      BY <2>1, <3>2 DEF FirstOf, Elements
    <3>3. QED
      BY <3>1, <3>2
  <2>3. \A c \in Elements(FirstOf(q)) : ClaimOf(c, "additive_quantity", 55) \in T
    BY <1>3, <1>9, <2>2 DEF Summable
  <2> HIDE DEF T
  <2>4. QED
    BY <2>2, <2>3, ClaimAllFacts DEF q
<1>11. money \in Seq(T)
  <2> DEFINE d == Decimals(p)
             roles == Money(d, Quantities(p))
  <2>1. d \in Seq(M)
    BY RuleFacts
  <2> HIDE DEF d, M
  <2>2. Len(d) \in Nat /\ \A i \in 1..Len(d) : d[i] \in M
    BY <2>1
  <2>3. \E n \in 0..Len(d) : /\ DOMAIN roles = 1..n
                            /\ \A i \in 1..n : ClaimOf(d[i], roles[i][1], roles[i][2]) \in T
    <3> HIDE DEF T
    <3>1. CASE Len(d) = 1
      <4>1. roles = << <<"monetary_rate", 50>> >>
        BY <3>1 DEF Money
      <4>2. DOMAIN roles = 1..1 /\ \A i \in 1..1 : roles[i][1] \in Summable /\ roles[i][2] \in 0..70
        BY <4>1 DEF Summable
      <4>3. \A i \in 1..1 : ClaimOf(d[i], roles[i][1], roles[i][2]) \in T
        BY <1>9, <2>2, <3>1, <4>2
      <4>4. QED
        BY <3>1, <4>2, <4>3
    <3>2. CASE Len(d) = 2 /\ Quantities(p) # <<>>
      <4>1. roles = << <<"monetary_rate", 45>>, <<"monetary_amount", 40>> >>
        BY <3>2 DEF Money
      <4>2. DOMAIN roles = 1..2 /\ \A i \in 1..2 : roles[i][1] \in Summable /\ roles[i][2] \in 0..70
        BY <4>1 DEF Summable
      <4>3. \A i \in 1..2 : ClaimOf(d[i], roles[i][1], roles[i][2]) \in T
        BY <1>9, <2>2, <3>2, <4>2
      <4>4. QED
        BY <3>2, <4>2, <4>3
    <3>3. CASE Len(d) # 1 /\ ~(Len(d) = 2 /\ Quantities(p) # <<>>)
      <4>1. roles = <<>>
        BY <3>3 DEF Money
      <4>2. QED
        BY <2>2, <4>1
    <3>4. QED
      BY <3>1, <3>2, <3>3
  <2> HIDE DEF T, roles
  <2>4. ClaimEach(d, roles) \in Seq(T)
    BY <2>1, <2>3, ClaimEachFacts
  <2>5. QED
    BY <2>4 DEF d, roles
<1>12. ByRule(p) = times \o slices \o flags \o keys \o quantities \o money
  BY DEF ByRule, TimesClaimed
<1>13. ByRule(p) \in Seq(T) /\ Len(ByRule(p)) >= Len(times) + Len(slices)
       /\ \A i \in 1..(Len(times) + Len(slices)) : ByRule(p)[i] = (times \o slices)[i]
  <2> HIDE DEF T, times, slices, flags, keys, quantities, money
  <2> DEFINE a == times \o slices
  <2>1. a \in Seq(T) /\ Len(a) = Len(times) + Len(slices) /\ Len(a) \in Nat
    <3>1. times \in Seq(T) /\ slices \in Seq(T)
      BY <1>4, <1>5
    <3>2. QED
      BY <3>1
  <2> HIDE DEF a
  <2> DEFINE b == a \o flags
  <2>2. b \in Seq(T) /\ Len(b) >= Len(a) /\ \A i \in 1..Len(a) : b[i] = a[i]
    BY <1>6, <2>1
  <2> HIDE DEF b
  <2> DEFINE c == b \o keys
  <2>3. c \in Seq(T) /\ Len(c) >= Len(a) /\ \A i \in 1..Len(a) : c[i] = a[i]
    BY <1>7, <2>1, <2>2
  <2> HIDE DEF c
  <2> DEFINE d == c \o quantities
  <2>4. d \in Seq(T) /\ Len(d) >= Len(a) /\ \A i \in 1..Len(a) : d[i] = a[i]
    BY <1>10, <2>1, <2>3
  <2> HIDE DEF d
  <2> DEFINE e == d \o money
  <2>5. e \in Seq(T) /\ Len(e) >= Len(a) /\ \A i \in 1..Len(a) : e[i] = a[i]
    BY <1>11, <2>1, <2>4
  <2>6. ByRule(p) = e
    BY <1>12 DEF a, b, c, d
  <2> HIDE DEF e
  <2>7. QED
    BY <2>1, <2>5, <2>6 DEF a
<1>14. Len(times) \in Nat /\ Len(slices) \in Nat
  <2> HIDE DEF T, times, slices
  <2>1. QED
    BY <1>4, <1>5
<1>15. ASSUME NEW c \in Elements(Derived(p))
       PROVE  \E i \in 1..Len(ByRule(p)) : ByRule(p)[i].column = c.name
  <2>1. PICK k \in 1..Len(Derived(p)) : Derived(p)[k] = c
    <3>1. Derived(p) \in Seq(C)
      BY RuleFacts
    <3>2. QED
      BY <3>1 DEF Elements
  <2>2. slices[k] = ClaimOf(c, "dimension", 50) /\ k \in 1..Len(slices)
    BY <1>5, <2>1
  <2>3. slices[k].column = c.name
    BY <2>2 DEF ClaimOf
  <2> DEFINE i == Len(times) + k
  <2>4. /\ i \in 1..(Len(times) + Len(slices)) /\ i \in 1..Len(ByRule(p))
        /\ (times \o slices)[i] = slices[k]
    <3> HIDE DEF T, times, slices
    <3>1. Len(ByRule(p)) \in Nat
      BY <1>13
    <3>2. i \in 1..(Len(times) + Len(slices)) /\ i \in 1..Len(ByRule(p))
      BY <1>13, <1>14, <2>2, <3>1
    <3>3. (times \o slices)[i] = slices[k]
      BY <1>4, <1>5, <1>14, <2>2
    <3>4. QED
      BY <3>2, <3>3
  <2>5. QED
    BY <1>13, <2>3, <2>4
<1>16. ASSUME Times(p) # <<>>
       PROVE  ByRule(p) # <<>> /\ ByRule(p)[1] = ClaimOf(Times(p)[1], "event_time", 70)
  <2>1. Len(Times(p)) >= 1
    BY <1>16, RuleFacts
  <2>2. times[1] = ClaimOf(Times(p)[1], "event_time", 70) /\ Len(times) >= 1
    BY <1>4, <1>14, <2>1
  <2> HIDE DEF T, times, slices
  <2>3. (times \o slices)[1] = times[1]
    BY <1>4, <1>5, <1>14, <2>2
  <2>4. Len(ByRule(p)) >= 1 /\ ByRule(p)[1] = (times \o slices)[1]
    BY <1>13, <1>14, <2>2
  <2>5. QED
    BY <2>2, <2>3, <2>4
<1>17. QED
  BY <1>13, <1>15, <1>16 DEF T

\* So does the whole proposal: with the columns the rules leave, and in order of
\* confidence.
LEMMA HeuristicFacts ==
    ASSUME NEW p, Regular(p)
    PROVE  /\ HeuristicClaims(p) \in Seq(Claimable(p))
           /\ \A c \in Elements(Derived(p)) :
                 \E i \in 1..Len(HeuristicClaims(p)) : HeuristicClaims(p)[i].column = c.name
           /\ Times(p) # <<>> =>
                 HeuristicClaims(p) # <<>> /\ HeuristicClaims(p)[1] = ClaimOf(Times(p)[1], "event_time", 70)
<1> DEFINE C == Columns(p)
           T == Claimable(p)
           ruled == ByRule(p)
           rest == Kept(p.columns, {c \in Columns(p) : \A i \in DOMAIN ruled : ruled[i].column # c.name})
           roles == [i \in DOMAIN rest |-> Leftover(p, rest[i])]
           left == ClaimEach(rest, roles)
           s == WithLeftovers(p, ruled)
           key == [c \in Elements(s) |-> c.confidence]
           t == HeuristicClaims(p)
<1>1. /\ ruled \in Seq(T)
      /\ \A c \in Elements(Derived(p)) : \E i \in 1..Len(ruled) : ruled[i].column = c.name
      /\ Times(p) # <<>> => ruled # <<>> /\ ruled[1] = ClaimOf(Times(p)[1], "event_time", 70)
  BY ByRuleFacts
<1>2. s = ruled \o left
  BY DEF WithLeftovers
<1>3. t = Descending(s, key)
  BY DEF HeuristicClaims
<1>4. /\ rest \in Seq(C)
      /\ \A c \in Elements(rest) : c \in C /\ \A i \in DOMAIN ruled : ruled[i].column # c.name
  <2> DEFINE set == {c \in Columns(p) : \A i \in DOMAIN ruled : ruled[i].column # c.name}
  <2>1. p.columns \in Seq(C) /\ Elements(p.columns) = C
    BY DEF Regular, Columns
  <2>2. set \subseteq C /\ \A c \in set : \A i \in DOMAIN ruled : ruled[i].column # c.name
    OBVIOUS
  <2>3. rest = Kept(p.columns, set)
    OBVIOUS
  <2> HIDE DEF C, set, rest, ruled
  <2>4. rest \in Seq(C \cap set) /\ Elements(rest) = C \cap set
    BY <2>1, <2>3, KeptFacts
  <2>5. QED
    BY <2>2, <2>4
<1>5. \A c \in Elements(rest) : c.name \notin Names(Derived(p))
  <2> TAKE c \in Elements(rest)
  <2>1. DOMAIN ruled = 1..Len(ruled)
    <3> HIDE DEF T, ruled
    <3>1. QED
      BY <1>1
  <2>2. \A d \in Elements(Derived(p)) : d.name # c.name
    BY <1>1, <1>4, <2>1
  <2>3. QED
    BY <2>2, NamesFacts
<1>6. \A c : /\ Leftover(p, c)[1] \in {"dimension", "description", "ignore", "entity_key"}
             /\ Leftover(p, c)[2] \in 0..70
  BY DEF Leftover
<1>7. \A c \in Elements(rest) : ClaimOf(c, Leftover(p, c)[1], Leftover(p, c)[2]) \in T
  <2> TAKE c \in Elements(rest)
  <2> DEFINE role == Leftover(p, c)[1]
             confidence == Leftover(p, c)[2]
  <2>1. c \in C /\ role \in Roles /\ role # "event_time" /\ role \notin Summable /\ confidence \in 0..70
    BY <1>4, <1>6 DEF Roles, Summable
  <2>2. c.name \notin Names(Derived(p))
    BY <1>5
  <2> HIDE DEF role, confidence
  <2>3. ClaimOf(c, role, confidence) \in T
    BY <2>1, <2>2, ClaimFacts
  <2>4. QED
    BY <2>3 DEF role, confidence
<1>8. left \in Seq(T)
  <2>1. /\ Len(rest) \in 0..Len(rest) /\ DOMAIN rest = 1..Len(rest)
        /\ \A i \in 1..Len(rest) : rest[i] \in Elements(rest)
    <3> HIDE DEF rest, C
    <3>1. QED
      BY <1>4 DEF Elements
  <2>2. DOMAIN roles = 1..Len(rest) /\ \A i \in 1..Len(rest) : roles[i] = Leftover(p, rest[i])
    BY <2>1
  <2> HIDE DEF rest, roles, T, C
  <2>3. \A i \in 1..Len(rest) : ClaimOf(rest[i], roles[i][1], roles[i][2]) \in T
    BY <1>7, <2>1, <2>2
  <2>4. QED
    BY <1>4, <2>1, <2>2, <2>3, ClaimEachFacts
<1>9. /\ s \in Seq(T) /\ Len(s) >= Len(ruled) /\ Len(ruled) \in Nat
      /\ \A i \in 1..Len(ruled) : s[i] = ruled[i]
  <2> HIDE DEF ruled, left, s, T
  <2>1. QED
    BY <1>1, <1>2, <1>8
<1>10. \A x \in T : x.confidence \in 0..70
  BY DEF Claimable
<1>11. Elements(s) \subseteq T /\ \A x \in Elements(s) : key[x] = x.confidence /\ key[x] \in 0..70
  <2>1. Elements(s) \subseteq T
    <3> HIDE DEF s, T
    <3>1. QED
      BY <1>9 DEF Elements
  <2>2. QED
    BY <1>10, <2>1
<1>12. t \in Seq(T) /\ Len(t) = Len(s) /\ Elements(t) = Elements(s) /\ \E from : Reorders(from, s, key, t)
  <2> HIDE DEF s, key, t, T
  <2>1. s \in Seq(T) /\ \A x \in Elements(s) : key[x] \in 0..70
    BY <1>9, <1>11
  <2>2. \A x \in Elements(s) : key[x] \in Int
    <3>1. \A n \in 0..70 : n \in Int
      OBVIOUS
    <3>2. QED
      BY <2>1, <3>1
  <2>3. QED
    BY <1>3, <2>1, <2>2, DescendingFacts
<1> HIDE DEF s, key, t, ruled, T
<1>13. \A x \in Elements(t) : key[x] = x.confidence /\ key[x] \in 0..70
  BY <1>11, <1>12
<1>14. Len(s) \in Nat /\ DOMAIN t = 1..Len(s) /\ \A i \in 1..Len(s) : t[i] \in Elements(t)
  BY <1>9, <1>12 DEF Elements
<1>15. PICK from :
           /\ from \in [1..Len(s) -> 1..Len(s)]
           /\ \A i \in 1..Len(s) : t[i] = s[from[i]]
           /\ \A i \in 1..Len(s) : \E k \in 1..Len(s) : from[k] = i
           /\ \A i, k \in 1..Len(s) : i < k =>
                 key[t[i]] > key[t[k]] \/ (key[t[i]] = key[t[k]] /\ from[i] < from[k])
  BY <1>12 DEF Reorders
<1>16. ASSUME NEW c \in Elements(Derived(p))
       PROVE  \E i \in 1..Len(t) : t[i].column = c.name
  <2>1. PICK i \in 1..Len(ruled) : ruled[i].column = c.name
    BY <1>1
  <2>2. i \in 1..Len(s) /\ s[i].column = c.name
    BY <1>9, <1>14, <2>1
  <2>3. PICK k \in 1..Len(s) : from[k] = i
    BY <1>15, <2>2
  <2>4. t[k] = s[i]
    BY <1>15, <2>3
  <2>5. QED
    BY <1>12, <2>2, <2>4
<1>17. ASSUME Times(p) # <<>>
       PROVE  t # <<>> /\ t[1] = ClaimOf(Times(p)[1], "event_time", 70)
  <2>1. ruled # <<>> /\ ruled[1] = ClaimOf(Times(p)[1], "event_time", 70)
    BY <1>1, <1>17
  <2>2. Len(ruled) >= 1
    BY <1>1, <2>1
  <2>3. 1 \in 1..Len(s) /\ s[1] = ClaimOf(Times(p)[1], "event_time", 70)
    BY <1>9, <1>14, <2>1, <2>2
  <2>4. PICK k \in 1..Len(s) : from[k] = 1
    BY <1>15, <2>3
  <2>5. t[k] = s[1] /\ key[t[k]] = 70
    <3>1. t[k] = s[1] /\ t[k] \in Elements(t)
      BY <1>14, <1>15, <2>4
    <3>2. ClaimOf(Times(p)[1], "event_time", 70).confidence = 70
      BY DEF ClaimOf
    <3>3. QED
      BY <1>13, <2>3, <3>1, <3>2
  <2>6. k = 1
    <3>1. SUFFICES ASSUME 1 < k PROVE FALSE
      BY <1>14
    <3>2. key[t[1]] > key[t[k]] \/ from[1] < from[k]
      BY <1>15, <2>3, <3>1
    <3>3. key[t[1]] \in 0..70 /\ from[1] \in 1..Len(s)
      BY <1>13, <1>14, <1>15, <2>3
    <3>4. ~(key[t[1]] > 70)
      <4>1. \A n \in 0..70 : ~(n > 70)
        OBVIOUS
      <4>2. QED
        BY <3>3, <4>1
    <3>5. ~(from[1] < 1)
      BY <1>14, <3>3
    <3>6. QED
      BY <2>4, <2>5, <3>2, <3>4, <3>5
  <2>7. QED
    BY <1>14, <2>3, <2>5, <2>6
<1>18. QED
  BY <1>12, <1>16, <1>17 DEF T, t

-----------------------------------------------------------------------------
(* The model of a table. *)

\* The profile of a table is regular, and the evidence knows the columns' types.
LEMMA ProfileFacts ==
    ASSUME file \in Files
    PROVE  /\ Regular(Profile) /\ Profile.columns = Typed /\ Profile.links = Reported(Typed, file.links)
           /\ \A c \in Columns(Profile) : c.support \in Nat
           /\ \A c \in Columns(Profile) : /\ c.type \in Numeric => c.name \in Evidence.numeric
                                          /\ c.type \in Temporal => c.name \in Evidence.temporal
           /\ \A c \in Evidence.numeric : c # None
           /\ Evidence.prefixed = {} /\ DOMAIN Evidence.splits \subseteq Nat
<1>1. /\ file.columns \in Seq(Elements(file.columns)) /\ IsFiniteSet(file.links)
      /\ \A i, k \in DOMAIN file.columns : file.columns[i].name = file.columns[k].name => i = k
      /\ \A c \in Elements(file.columns) : c.name # None /\ c.unique \in Nat /\ c.support \in Nat
      /\ \A l \in file.links : {l.det, l.dep} \subseteq Names(file.columns)
  BY FilesAssumption
<1> DEFINE D == DOMAIN file.columns
<1>2. D = 1..Len(file.columns) /\ Len(file.columns) \in Nat
  BY <1>1
<1>3. DOMAIN Typed = D /\ \A i \in D : /\ Typed[i].name = file.columns[i].name
                                      /\ Typed[i].unique = file.columns[i].unique
                                      /\ Typed[i].support = file.columns[i].support
  BY DEF Typed
<1>4. Profile.columns = Typed /\ Profile.links = Reported(Typed, file.links)
  BY DEF Profile
<1>5. Columns(Profile) = {Typed[i] : i \in D}
  BY <1>3, <1>4 DEF Columns, Elements
<1>6. \A i \in D : file.columns[i] \in Elements(file.columns)
  BY DEF Elements
<1>7. Typed \in Seq(Columns(Profile))
  <2>1. Typed \in [1..Len(file.columns) -> Columns(Profile)]
    <3>1. Typed = [i \in D |-> Typed[i]]
      BY DEF Typed
    <3>2. QED
      BY <1>2, <1>5, <3>1
  <2>2. QED
    BY <1>2, <2>1
<1>8. Names(Typed) = Names(file.columns)
  BY <1>3 DEF Names
<1>9. Reported(Typed, file.links) \subseteq file.links
  BY DEF Reported
<1>10. \A c, d \in Columns(Profile) : c.name = d.name => c = d
  BY <1>1, <1>3, <1>5
<1>11. \A c \in Columns(Profile) : c.name # None /\ c.unique \in Nat /\ c.support \in Nat
  BY <1>1, <1>3, <1>5, <1>6
<1>12. IsFiniteSet(Profile.links) /\ \A l \in Profile.links : {l.det, l.dep} \subseteq Names(Profile.columns)
  BY <1>1, <1>4, <1>8, <1>9, FS_Subset
<1>13. \A c \in Columns(Profile) : /\ c.type \in Numeric => c.name \in Evidence.numeric
                                   /\ c.type \in Temporal => c.name \in Evidence.temporal
  <2> TAKE c \in Columns(Profile)
  <2>1. PICK i \in DOMAIN Typed : Typed[i] = c
    BY <1>3, <1>5
  <2>2. QED
    BY <2>1 DEF Evidence
<1>14. \A c \in Evidence.numeric : c # None
  <2> TAKE c \in Evidence.numeric
  <2>1. PICK i \in DOMAIN Typed : Typed[i].name = c
    BY DEF Evidence
  <2>2. QED
    BY <1>3, <1>5, <1>11, <2>1
<1>15. Evidence.prefixed = {} /\ DOMAIN Evidence.splits \subseteq Nat
  BY DEF Evidence
<1>16. Regular(Profile)
  BY <1>4, <1>7, <1>10, <1>11, <1>12 DEF Regular
<1>17. QED
  BY <1>4, <1>11, <1>13, <1>14, <1>15, <1>16

\* What the heuristic claims, and that the test of its claims makes sense.
LEMMA ClaimsFacts ==
    ASSUME file \in Files, proposer = "heuristic"
    PROVE  /\ Claims = HeuristicClaims(Profile) /\ Claims \in Seq(Claimable(Profile))
           /\ WellFormed(Claims, Evidence)
           /\ \A c \in Elements(Measures(Profile)) : c \in Columns(Profile) /\ c.name \in Evidence.numeric
<1>1. Claims = HeuristicClaims(Profile)
  BY DEF Claims
<1>2. Claims \in Seq(Claimable(Profile))
  BY <1>1, ProfileFacts, HeuristicFacts
<1>3. \A x \in Claimable(Profile) : x.column \in Names(Profile.columns)
  BY DEF Claimable
<1>4. \A n \in Names(Profile.columns) : n # None
  BY ProfileFacts, NamesFacts DEF Regular, Columns
<1>5. WellFormed(Claims, Evidence)
  <2> DEFINE claims == Claims
             T == Claimable(Profile)
  <2> HIDE DEF claims, T
  <2>1. claims \in Seq(T) /\ \A x \in T : x.column # None
    BY <1>2, <1>3, <1>4 DEF claims, T
  <2>2. Len(claims) \in Nat /\ DOMAIN claims = 1..Len(claims) /\ \A i \in 1..Len(claims) : claims[i] \in T
    BY <2>1
  <2>3. None \notin Evidence.prefixed /\ DOMAIN Evidence.splits \subseteq Nat
    BY ProfileFacts
  <2>4. QED
    BY <2>1, <2>2, <2>3 DEF WellFormed, claims
<1>6. \A c \in Elements(Measures(Profile)) : c \in Columns(Profile) /\ c.name \in Evidence.numeric
  <2> TAKE c \in Elements(Measures(Profile))
  <2>1. Measures(Profile) \in Seq(Columns(Profile)) /\ c.type \in Numeric
    BY ProfileFacts, RuleFacts
  <2>2. c \in Columns(Profile)
    BY <2>1 DEF Elements
  <2>3. QED
    BY <2>1, <2>2, ProfileFacts
<1>7. QED
  BY <1>1, <1>2, <1>5, <1>6

\* The build never multiplies text because of the heuristic.
LEMMA HeuristicBuilds ==
    ASSUME file \in Files, proposer = "heuristic"
    PROVE  Buildable(Claims, Evidence)
<1> DEFINE bs == Best(Claims)
<1>1. \A b \in bs : b.rank \in Nat /\ (b.role \in Summable => b.column \in Evidence.numeric)
  <2> TAKE b \in bs
  <2>1. PICK i \in DOMAIN Claims : b.column = Claims[i].column /\ b.role = Claims[i].role /\ b.rank = i
    BY DEF Best
  <2>2. i \in Nat /\ Claims[i] \in Claimable(Profile)
    BY <2>1, ClaimsFacts
  <2>3. b.role \in Summable => b.column \in Names(Measures(Profile))
    BY <2>1, <2>2 DEF Claimable
  <2>4. \A n \in Names(Measures(Profile)) : n \in Evidence.numeric
    BY ClaimsFacts, NamesFacts
  <2>5. QED
    BY <2>1, <2>2, <2>3, <2>4
<1>2. \A role \in Summable : Proposed(bs, role) = None \/ Proposed(bs, role) \in Evidence.numeric
  <2> TAKE role \in Summable
  <2> DEFINE of == {b \in bs : b.role = role}
  <2>1. Proposed(bs, role) = First(of)
    BY DEF Proposed
  <2>2. CASE of = {}
    BY <2>1, <2>2 DEF First
  <2>3. CASE of # {}
    <3>1. \A b \in of : b.rank \in Nat /\ b.column \in Evidence.numeric
      BY <1>1
    <3> HIDE DEF of
    <3>2. \E b \in of : First(of) = b.column
      BY <2>3, <3>1, FirstFacts
    <3>3. QED
      BY <2>1, <3>1, <3>2
  <2>4. QED
    BY <2>2, <2>3
<1>3. \A b \in bs : b.role = "monetary_amount" => b.column \in Evidence.numeric
  BY <1>1 DEF Summable
<1>4. {"additive_quantity", "monetary_rate"} \subseteq Summable
  BY DEF Summable
<1> HIDE DEF bs
<1>5. LET factors == {Proposed(bs, "additive_quantity"), Proposed(bs, "monetary_rate")} IN
      None \notin factors =>
          factors \cup {b.column : b \in {b \in bs : b.role = "monetary_amount"}} \subseteq Evidence.numeric
  BY <1>2, <1>3, <1>4
<1>6. QED
  BY <1>5 DEF Buildable, bs

-----------------------------------------------------------------------------
(* The invariant. *)

\* What is about the file, its dates and its proposer stays while they do.
LEMMA FileFrame ==
    ASSUME UNCHANGED <<file, reading, order, proposer>>
    PROVE  /\ Readings' = Readings /\ EventTimeTemporal' = EventTimeTemporal
           /\ Typed' = Typed /\ Dated' = Dated /\ Profile' = Profile
           /\ Claims' = Claims /\ Evidence' = Evidence
           /\ \A built : Caveat(built)' = Caveat(built)
<1>1. Readings' = Readings /\ EventTimeTemporal' = EventTimeTemporal /\ Typed' = Typed /\ Dated' = Dated
  BY DEF Readings, EventTimeTemporal, Typed, Dated
<1>2. Profile' = Profile
  BY <1>1 DEF Profile
<1>3. Claims' = Claims
  BY <1>1, <1>2 DEF Claims
<1>4. Evidence' = Evidence
  BY <1>1, <1>2 DEF Evidence
<1>5. \A built : Caveat(built)' = Caveat(built)
  BY <1>1 DEF Caveat
<1>6. QED
  BY <1>1, <1>2, <1>3, <1>4, <1>5

\* Every step keeps the file, and what is known of its dates and of the model.
LEMMA FoundStep ==
    ASSUME IngestionInvariant, [Next]_vars
    PROVE  file' \in Files /\ DatesRead' /\ ModelBuilt'
<1> USE DEF IngestionInvariant, Loaded, Resolved
<1>1. file' = file
  BY DEF Next, Sniff, Load, ComputeProfile, ResolveDates, Propose, Build, BuildFrom, Fail, vars
<1>2. CASE Sniff
  <2>1. stage' = "failed" \/ stage' = "loading"
    BY <1>2 DEF Sniff, Fail
  <2>2. QED
    BY <1>1, <2>1 DEF DatesRead, ModelBuilt
<1>3. CASE Load
  <2>1. CASE stage' = "failed"
    BY <1>1, <2>1 DEF DatesRead, ModelBuilt
  <2>2. CASE stage' = "profiling" /\ reading' \in Readings
    <3>1. Readings' = Readings
      BY <1>1 DEF Readings
    <3>2. QED
      BY <1>1, <2>2, <3>1 DEF DatesRead, ModelBuilt
  <2>3. QED
    BY <1>3, <2>1, <2>2 DEF Load, Fail
<1>4. CASE ComputeProfile
  <2>1. CASE stage' = "failed"
    BY <1>1, <2>1 DEF DatesRead, ModelBuilt
  <2>2. CASE stage = "profiling" /\ stage' = "resolving_dates" /\ UNCHANGED <<file, reading, order, proposer>>
    BY <1>1, <2>2, FileFrame DEF DatesRead, ModelBuilt
  <2>3. QED
    BY <1>4, <2>1, <2>2 DEF ComputeProfile, Fail
<1>5. CASE ResolveDates
  <2>1. /\ stage = "resolving_dates" /\ stage' = "inferring" /\ reading' = reading
        /\ \E sampled \in SUBSET file.dates : order' = ResolveDateOrder(sampled)
    BY <1>5 DEF ResolveDates
  <2>2. Readings' = Readings
    BY <1>1 DEF Readings
  <2>3. QED
    BY <1>1, <2>1, <2>2 DEF DatesRead, ModelBuilt
<1>6. CASE Propose
  <2>1. stage = "inferring" /\ stage' = "verifying" /\ reading' = reading /\ order' = order
    BY <1>6 DEF Propose
  <2>2. Readings' = Readings
    BY <1>1 DEF Readings
  <2>3. QED
    BY <1>1, <2>1, <2>2 DEF DatesRead, ModelBuilt
<1>7. CASE Build
  <2>1. CASE stage' = "failed"
    BY <1>1, <2>1 DEF DatesRead, ModelBuilt
  <2>2. CASE /\ stage = "verifying" /\ UNCHANGED <<file, reading, order, proposer>>
             /\ model' = [sem |-> Built(Claims, Evidence), caveat |-> Caveat(Built(Claims, Evidence)),
                          read |-> EventTimeTemporal]
    <3>1. DatesRead'
      BY <1>1, <2>2, FileFrame DEF DatesRead
    <3>2. ModelBuilt'
      BY <2>2, FileFrame DEF ModelBuilt
    <3>3. QED
      BY <1>1, <3>1, <3>2
  <2>3. QED
    BY <1>7, <2>1, <2>2 DEF Build, BuildFrom, Fail
<1>8. CASE UNCHANGED vars
  BY <1>8, FileFrame DEF vars, DatesRead, ModelBuilt
<1>9. QED
  BY <1>2, <1>3, <1>4, <1>5, <1>6, <1>7, <1>8 DEF Next

\* Every step keeps what is known of the encoding: where the sample and the file
\* are UTF-8, the first encoding tried is UTF-8, and it takes.
LEMMA EncodedStep ==
    ASSUME IngestionInvariant, [Next]_vars
    PROVE  Encoded'
<1>1. file' = file
  BY DEF Next, Sniff, Load, ComputeProfile, ResolveDates, Propose, Build, BuildFrom, Fail, vars
<1>2. CASE Sniff
  <2>1. stage' = "failed" \/ (stage' = "loading" /\ encoding' = DetectEncoding(Sample(file.bytes)))
    BY <1>2 DEF Sniff, Fail
  <2>2. QED
    BY <1>1, <2>1 DEF Encoded, Loaded
<1>3. CASE Load
  <2>1. CASE stage' = "failed"
    BY <2>1 DEF Encoded, Loaded
  <2>2. CASE stage = "loading" /\ stage' = "profiling" /\ encoding' \in LoadedUnder
    <3>1. ASSUME Utf8(file.bytes), Utf8(Sample(file.bytes)) PROVE encoding' = "utf-8"
      <4>1. encoding = "utf-8"
        BY <2>2, <3>1 DEF IngestionInvariant, Encoded, DetectEncoding
      <4> DEFINE took == {i \in DOMAIN Encodings : Decodes(Encodings[i])}
      <4>2. took \subseteq 1..2 /\ 1 \in took
        BY <3>1, <4>1 DEF Encodings, Decodes
      <4>3. (CHOOSE i \in took : \A k \in took : i <= k) = 1
        BY <4>2
      <4>4. LoadedUnder = {Encodings[1]}
        BY <4>2, <4>3 DEF LoadedUnder
      <4>5. QED
        BY <2>2, <4>1, <4>4 DEF Encodings
    <3>2. QED
      BY <1>1, <2>2, <3>1 DEF Encoded
  <2>3. QED
    BY <1>3, <2>1, <2>2 DEF Load, Fail
<1>4. CASE ComputeProfile \/ ResolveDates \/ Propose \/ Build
  <2>1. stage' = "failed" \/ (Loaded /\ encoding' = encoding /\ stage' # "loading")
    BY <1>4 DEF ComputeProfile, ResolveDates, Propose, Build, BuildFrom, Fail, Loaded
  <2>2. QED
    BY <1>1, <2>1 DEF IngestionInvariant, Encoded, Loaded
<1>5. CASE UNCHANGED vars
  BY <1>5 DEF vars, IngestionInvariant, Encoded, Loaded
<1>6. QED
  BY <1>2, <1>3, <1>4, <1>5 DEF Next

\* Every step that refuses a file that can be read has one of the reasons.
LEMMA RefusalsStep ==
    ASSUME IngestionInvariant, [Next]_vars
    PROVE  Refusals'
<1>1. file' = file
  BY DEF Next, Sniff, Load, ComputeProfile, ResolveDates, Propose, Build, BuildFrom, Fail, vars
<1>2. file \in Files /\ file.bytes \in Seq(Bytes)
  BY FilesAssumption DEF IngestionInvariant
<1>3. CASE Sniff
  <2>1. stage' = "loading" \/ (stage' = "failed" /\ (why' = "delimiter" \/ ~Valid(file.bytes)))
    <3>1. Valid(file.bytes) => /\ ~Blank(Sample(file.bytes))
                               /\ ~NoRows(Trimmed(Sample(file.bytes)))
                               /\ ~Ragged(Trimmed(Sample(file.bytes)))
      BY <1>2, SampleFacts
    <3>2. QED
      BY <1>3, <3>1 DEF Sniff, Fail
  <2>2. QED
    BY <1>1, <2>1 DEF Refusals
<1>4. CASE Load
  <2>1. LoadedUnder # {}
    <3> DEFINE took == {i \in DOMAIN Encodings : Decodes(Encodings[i])}
    <3>1. 2 \in took
      BY DEF Encodings, Decodes
    <3>2. QED
      BY <3>1 DEF LoadedUnder
  <2>2. stage' = "profiling" \/ (stage' = "failed" /\ ~Valid(file.bytes))
    BY <1>4, <2>1 DEF Load, Fail
  <2>3. QED
    BY <1>1, <2>2 DEF Refusals
<1>5. CASE ComputeProfile
  <2>1. stage' = "resolving_dates" \/ (stage' = "failed" /\ why' = "no_data")
    BY <1>5 DEF ComputeProfile, Fail
  <2>2. QED
    BY <2>1 DEF Refusals
<1>6. CASE ResolveDates
  BY <1>6 DEF ResolveDates, Refusals
<1>7. CASE Propose
  BY <1>7 DEF Propose, Refusals
<1>8. CASE Build
  <2>1. stage = "verifying" /\ proposer \in {"llm", "heuristic"} /\ proposer' = proposer
    BY <1>8 DEF Build, BuildFrom, Fail, IngestionInvariant, Refusals
  <2>2. stage' = "built" \/ (stage' = "failed" /\ why' = "build" /\ ~Buildable(Claims, Evidence))
    BY <1>8 DEF Build, BuildFrom, Fail
  <2>3. proposer = "heuristic" => Buildable(Claims, Evidence)
    BY <1>2, HeuristicBuilds
  <2>4. QED
    BY <2>1, <2>2, <2>3 DEF Refusals
<1>9. CASE UNCHANGED vars
  BY <1>9 DEF vars, IngestionInvariant, Refusals
<1>10. QED
  BY <1>3, <1>4, <1>5, <1>6, <1>7, <1>8, <1>9 DEF Next

\* In every state of an ingest what was found out about the file is so (ingest).
THEOREM IngestionInductive == Spec => []IngestionInvariant
<1>1. Init => IngestionInvariant
  BY DEF Init, IngestionInvariant, Loaded, Resolved, DatesRead, ModelBuilt, Encoded, Refusals
<1>2. IngestionInvariant /\ [Next]_vars => IngestionInvariant'
  BY FoundStep, EncodedStep, RefusalsStep DEF IngestionInvariant
<1>3. QED
  BY <1>1, <1>2, PTL DEF Spec

\* However the sample cuts a file that can be read, it is refused for no other
\* reason than want of a delimiter, of data or of numbers where the language
\* model saw a quantity; and it is read in its own encoding (sniff_dialect and
\* load_csv).
THEOREM ReadableFilesLoad == Spec => []ValidFilesLoad
<1>1. IngestionInvariant => ValidFilesLoad
  BY DEF IngestionInvariant, Encoded, Refusals, ValidFilesLoad, Loaded
<1>2. QED
  BY <1>1, IngestionInductive, PTL

-----------------------------------------------------------------------------
(* Dates. *)

\* The order resolved from a sample of dates: if all dates fit an order of day
\* and month, it is that one, or no order, and never that of ISO dates.
LEMMA OrderFacts ==
    ASSUME NEW dates, \A d \in dates : d.a \in Nat /\ d.b \in Nat,
           NEW sampled \in SUBSET dates, NEW o, o = ResolveDateOrder(sampled)
    PROVE  /\ o \in Orders \cup {"iso", "ambiguous", "not_a_date"}
           /\ o \in Orders => \E d \in dates : d.first = "number"
           /\ o = "iso" => \E d \in dates : d.first # "number"
           /\ \A r \in Orders : o \in Orders /\ (\A d \in dates : Fits(d, r)) => r = o
<1> DEFINE plain == {d \in sampled : d.first = "number"}
           day == \E d \in plain : d.a > 12
           month == \E d \in plain : d.b > 12
<1>1. o = IF sampled = {} THEN "not_a_date"
          ELSE IF plain = {} THEN "iso"
          ELSE IF day = month THEN "ambiguous"
          ELSE IF day THEN "day_first" ELSE "month_first"
  BY DEF ResolveDateOrder
<1>2. o \in Orders => plain # {} /\ (o = "day_first" <=> day) /\ (o = "month_first" <=> month)
  BY <1>1 DEF Orders
<1>3. o = "iso" => sampled # {} /\ plain = {}
  BY <1>1
<1>4. o \in Orders \cup {"iso", "ambiguous", "not_a_date"}
  BY <1>1 DEF Orders
<1>5. (\A d \in dates : Fits(d, "day_first")) => ~month
  BY DEF Fits
<1>6. (\A d \in dates : Fits(d, "month_first")) => ~day
  BY DEF Fits
<1>7. \A r \in Orders : o \in Orders /\ (\A d \in dates : Fits(d, r)) => r = o
  BY <1>2, <1>5, <1>6 DEF Orders
<1>8. QED
  BY <1>2, <1>3, <1>4, <1>7

\* How dates are read fits all of them, or all but rare ones.
LEMMA DatesReadFacts ==
    ASSUME reading \in Readings
    PROVE  /\ EventTimeTemporal \in Orders \cup {"iso", "refuted"}
           /\ reading # "text" => /\ EventTimeTemporal = reading /\ EventTimeTemporal # "refuted"
                                  /\ \A d \in file.dates : Fits(d, EventTimeTemporal)
           /\ reading = "text" /\ EventTimeTemporal \in Orders => EventTimeTemporal = order
           /\ reading = "text" /\ EventTimeTemporal = "iso" =>
                 \A d \in file.dates : Fits(d, "iso") \/ d.rare
<1>1. reading \in {"text"} \cup Orders \cup {"iso"}
      /\ (reading # "text" => \A d \in file.dates : Fits(d, reading))
  BY DEF Readings
<1>2. CASE reading # "text"
  BY <1>1, <1>2 DEF EventTimeTemporal, Orders
<1>3. CASE reading = "text"
  BY <1>3 DEF EventTimeTemporal, Orders, Parses
<1>4. QED
  BY <1>2, <1>3

\* A dated column is an event time only if its dates can be read.
LEMMA EventTimeIsRead ==
    ASSUME file \in Files, reading \in Readings, NEW claims,
           NEW c \in Dated \cap Cols(InRole(Bindings(claims, Evidence), "event_time"))
    PROVE  EventTimeTemporal # "refuted"
<1>1. PICK b \in Best(claims) :
          /\ b.column = c /\ b.role = "event_time"
          /\ ~Refuted(Tests(b, Best(claims), Evidence))
  BY DEF Cols, InRole, Bindings
<1>2. Tests(b, Best(claims), Evidence) = {<<"event_time_temporal", b.column \in Evidence.temporal>>}
  BY <1>1 DEF Tests
<1>3. c \in Evidence.temporal
  <2> DEFINE t == <<"event_time_temporal", b.column \in Evidence.temporal>>
  <2>1. t \in Tests(b, Best(claims), Evidence) /\ t[1] \notin Confirming
    BY <1>2 DEF Confirming
  <2>2. t[2]
    BY <1>1, <2>1 DEF Refuted
  <2>3. QED
    BY <1>1, <2>2
<1>4. SUFFICES ASSUME EventTimeTemporal = "refuted" PROVE FALSE
  OBVIOUS
<1>5. PICK i \in DOMAIN Typed : Typed[i].name = c /\ Typed[i].type \in Temporal
  BY <1>3, <1>4 DEF Evidence
<1>6. PICK k \in DOMAIN file.columns : file.columns[k].name = c /\ file.columns[k].type = "dated"
  BY DEF Dated
<1>7. i \in DOMAIN file.columns /\ file.columns[i].name = c
  BY <1>5 DEF Typed
<1>8. i = k
  BY <1>6, <1>7, FilesAssumption
<1>9. Typed[i].type = IF reading = "text" THEN "text" ELSE "date"
  BY <1>6, <1>7, <1>8 DEF Typed
<1>10. reading # "text"
  BY <1>5, <1>9 DEF Temporal
<1>11. QED
  BY <1>4, <1>10, DatesReadFacts

\* Whatever the dates, an event time is read in the order its answers give as
\* settled, and one they say was assumed in whichever DuckDB typed it in
\* (resolve_date_order, event_time_temporal and _date_assumptions).
THEOREM StatedOrders == Spec => []DatesReadAsStated
<1>1. IngestionInvariant => DatesReadAsStated
  <2> SUFFICES ASSUME IngestionInvariant, stage = "built",
                      Dated \cap Cols(InRole(model.sem.bindings, "event_time")) # {}
               PROVE  DatesReadAsStated
    BY DEF DatesReadAsStated
  <2> DEFINE built == Built(Claims, Evidence)
  <2>1. /\ file \in Files /\ reading \in Readings
        /\ model.sem = built /\ model.read = EventTimeTemporal /\ model.caveat = Caveat(built)
    BY DEF IngestionInvariant, DatesRead, ModelBuilt, Loaded
  <2>2. PICK sampled \in SUBSET file.dates : order = ResolveDateOrder(sampled)
    BY DEF IngestionInvariant, DatesRead, Resolved
  <2>3. /\ order \notin Orders \cup {"ambiguous"} => model.caveat.order = None /\ ~model.caveat.assumed
        /\ order = "ambiguous" => model.caveat.order = "day_first" /\ model.caveat.assumed
        /\ order \in Orders => model.caveat.order = order /\ ~model.caveat.assumed
    BY <2>1 DEF Caveat, Orders
  <2>4. model.read # "refuted"
    BY <2>1, EventTimeIsRead DEF Built
  <2>5. /\ order \in Orders \cup {"iso", "ambiguous", "not_a_date"}
        /\ order \in Orders => \E d \in file.dates : d.first = "number"
        /\ order = "iso" => \E d \in file.dates : d.first # "number"
        /\ \A r \in Orders : order \in Orders /\ (\A d \in file.dates : Fits(d, r)) => r = order
    <3>1. \A d \in file.dates : d.a \in Nat /\ d.b \in Nat
      BY <2>1, FilesAssumption
    <3>2. QED
      BY <2>2, <3>1, OrderFacts
  <2>6. /\ model.read \in Orders \cup {"iso"}
        /\ reading # "text" => \A d \in file.dates : Fits(d, model.read)
        /\ reading = "text" /\ model.read \in Orders => model.read = order
        /\ reading = "text" /\ model.read = "iso" => \A d \in file.dates : Fits(d, "iso") \/ d.rare
    BY <2>1, <2>4, DatesReadFacts
  <2>7. \A d : Fits(d, "iso") => d.first = "year"
    BY DEF Fits
  <2>8. \A d, r : r \in Orders /\ Fits(d, r) => d.first = "number"
    BY DEF Fits, Orders
  <2>9. model.read \in Orders /\ order # "not_a_date" => order \in {model.read, "ambiguous"}
    <3>1. CASE reading = "text"
      BY <2>6, <3>1
    <3>2. CASE reading # "text"
      BY <2>5, <2>6, <2>8, <3>2
    <3>3. QED
      BY <3>1, <3>2
  <2>10. order \in Orders => model.read \in {order, "iso"}
    BY <2>5, <2>6
  <2>11. model.read = "iso" /\ order \in Orders =>
             reading = "text" /\ \A d \in file.dates : d.first = "number" => d.rare
    BY <2>5, <2>6, <2>7
  <2>12. Orders = {"day_first", "month_first"} /\ None = "none"
    BY DEF Orders, None
  <2>13. order = "ambiguous" => model.read = IF reading = "text" THEN "iso" ELSE reading
    BY <2>1, <2>4, <2>12 DEF EventTimeTemporal, Parses
  <2>14. order = "ambiguous" /\ model.read = "iso" =>
             reading = "text" /\ \A d \in file.dates : d.first = "number" => d.rare
    BY <2>2, <2>6, <2>7, <2>12 DEF ResolveDateOrder
  <2>15. model.read \in Orders /\ order # "not_a_date" => model.caveat.order # None
    BY <2>3, <2>9, <2>12
  <2>16. CASE order = "ambiguous"
    BY <2>1, <2>3, <2>6, <2>12, <2>13, <2>14, <2>15, <2>16 DEF DatesReadAsStated, Readings
  <2>17. CASE order \in Orders
    BY <2>3, <2>10, <2>11, <2>12, <2>15, <2>17 DEF DatesReadAsStated
  <2>18. CASE order \in {"iso", "not_a_date"}
    BY <2>3, <2>12, <2>15, <2>18 DEF DatesReadAsStated
  <2>19. QED
    BY <2>5, <2>16, <2>17, <2>18
<1>2. QED
  BY <1>1, IngestionInductive, PTL

-----------------------------------------------------------------------------
(* The model of a proposal of the heuristic. *)

\* A claimed column keeps a binding, and the first claim its place.
LEMMA ClaimedIsBound ==
    ASSUME NEW claims, NEW ev, WellFormed(claims, ev)
    PROVE  /\ \A i \in 1..Len(claims) : \E b \in Bindings(claims, ev) : b.column = claims[i].column
           /\ Len(claims) >= 1 => \E b \in Bindings(claims, ev) :
                 b.rank = 1 /\ b.column = claims[1].column /\ b.role = claims[1].role
<1> DEFINE bs == Bindings(claims, ev)
           Claimed(i) == [column |-> claims[i].column, role |-> claims[i].role,
                          entity |-> claims[i].entity, rank |-> i]
<1>1. Len(claims) \in Nat /\ DOMAIN claims = 1..Len(claims)
  BY DEF WellFormed
<1>2. \A i \in 1..Len(claims) :
          (\A k \in 1..(i - 1) : claims[k].column # claims[i].column) => Claimed(i) \in Best(claims)
  BY <1>1 DEF Best
<1>3. \A b \in Best(claims) : \E d \in bs : d.column = b.column /\ d.role = b.role /\ d.rank = b.rank
  <2> DEFINE Tested(b) ==
                 [column |-> b.column, role |-> b.role, entity |-> b.entity, rank |-> b.rank,
                  refuted |-> Refuted(Tests(b, Best(claims), ev)),
                  verified |-> ~Refuted(Tests(b, Best(claims), ev))
                                   /\ \E t \in Tests(b, Best(claims), ev) : t[2]]
  <2>1. bs = {Tested(b) : b \in Best(claims)}
    BY DEF Bindings
  <2>2. \A b : Tested(b).column = b.column /\ Tested(b).role = b.role /\ Tested(b).rank = b.rank
    OBVIOUS
  <2> HIDE DEF bs, Tested
  <2>3. QED
    BY <2>1, <2>2
<1>4. \A i : Claimed(i).column = claims[i].column /\ Claimed(i).role = claims[i].role /\ Claimed(i).rank = i
  OBVIOUS
<1> HIDE DEF bs, Claimed
<1>5. ASSUME NEW i \in 1..Len(claims)
      PROVE  \E b \in bs : b.column = claims[i].column
  <2> DEFINE same == {k \in 1..Len(claims) : claims[k].column = claims[i].column}
  <2>1. same \subseteq Nat /\ same # {}
    BY <1>1
  <2> HIDE DEF same
  <2>2. PICK k \in same : \A m \in same : k <= m
    BY <2>1, LeastNumber
  <2>3. k \in 1..Len(claims) /\ claims[k].column = claims[i].column
    BY DEF same
  <2>4. \A m \in 1..(k - 1) : claims[m].column # claims[k].column
    <3> TAKE m \in 1..(k - 1)
    <3>1. m \in 1..Len(claims) /\ ~(k <= m)
      BY <1>1, <2>3
    <3>2. m \notin same
      BY <2>2, <3>1
    <3>3. QED
      BY <2>3, <3>1, <3>2 DEF same
  <2>5. Claimed(k) \in Best(claims)
    BY <1>2, <2>3, <2>4
  <2>6. QED
    BY <1>3, <1>4, <2>3, <2>5
<1>6. ASSUME Len(claims) >= 1
      PROVE  \E b \in bs : b.rank = 1 /\ b.column = claims[1].column /\ b.role = claims[1].role
  <2>1. 1 \in 1..Len(claims) /\ 1..(1 - 1) = {}
    BY <1>1, <1>6
  <2>2. Claimed(1) \in Best(claims)
    BY <1>2, <2>1
  <2>3. QED
    BY <1>3, <1>4, <2>2
<1>7. QED
  BY <1>5, <1>6 DEF bs

\* Every binding is of a claim, and no test refutes a dimension or an event time
\* that has one.
LEMMA BoundIsClaimed ==
    ASSUME NEW claims, NEW ev, WellFormed(claims, ev), NEW b \in Bindings(claims, ev)
    PROVE  /\ b.rank \in 1..Len(claims)
           /\ b.column = claims[b.rank].column /\ b.role = claims[b.rank].role
           /\ b.role = "dimension" => ~b.refuted
           /\ b.role = "event_time" /\ b.column \in ev.temporal => ~b.refuted
<1>1. PICK d \in Best(claims) : /\ b.column = d.column /\ b.role = d.role /\ b.rank = d.rank
                               /\ b.refuted = Refuted(Tests(d, Best(claims), ev))
  BY DEF Bindings
<1>2. d.rank \in 1..Len(claims) /\ d.column = claims[d.rank].column /\ d.role = claims[d.rank].role
  BY DEF Best, WellFormed
<1>3. ASSUME d.role = "dimension" PROVE ~Refuted(Tests(d, Best(claims), ev))
  <2>1. Tests(d, Best(claims), ev) = {}
    BY <1>3 DEF Tests
  <2>2. QED
    BY <2>1 DEF Refuted
<1>4. ASSUME d.role = "event_time", d.column \in ev.temporal PROVE ~Refuted(Tests(d, Best(claims), ev))
  <2> DEFINE test == <<"event_time_temporal", d.column \in ev.temporal>>
  <2>1. Tests(d, Best(claims), ev) = {test}
    BY <1>4 DEF Tests
  <2>2. test[2]
    BY <1>4
  <2> HIDE DEF test
  <2>3. QED
    BY <2>1, <2>2 DEF Refuted
<1>5. b.refuted = Refuted(Tests(d, Best(claims), ev))
  BY <1>1
<1>6. QED
  BY <1>1, <1>2, <1>3, <1>4

\* What revenue and units are summed over was claimed in a role for that.
LEMMA SummedFacts ==
    ASSUME NEW bs, IsBindings(bs), NEW ev, NEW c,
           c \in MeasureColumns(bs, Returns(bs, ev), "units_sold") \cup
                     MeasureColumns(bs, Returns(bs, ev), "net_revenue")
    PROVE  \E b \in bs : b.column = c /\ b.role \in Summable
<1> DEFINE Of(role) == InRole(bs, role)
           summed == {b \in bs : b.role \in Summable}
           quantity == FirstInRole(bs, "additive_quantity")
           rate == FirstInRole(bs, "monetary_rate")
           verified == {b \in Amounts(bs) : b.verified}
<1>1. Of("additive_quantity") \subseteq summed /\ Of("monetary_rate") \subseteq summed
      /\ Amounts(bs) \subseteq summed /\ verified \subseteq summed /\ summed \subseteq bs
  BY DEF InRole, Amounts, Summable
<1>2. \A s \in SUBSET summed : First(s) # None => First(s) \in Cols(summed)
  <2> TAKE s \in SUBSET summed
  <2>1. s \subseteq bs
    BY <1>1
  <2>2. First(s) # None => First(s) \in Cols(s)
    BY <2>1, RoleFacts
  <2>3. QED
    BY <2>2 DEF Cols
<1>3. /\ quantity # None => quantity \in Cols(summed)
      /\ rate # None => rate \in Cols(summed)
  BY <1>1, <1>2 DEF FirstInRole
<1>4. verified # {} => First(verified) \in Cols(summed)
  <2>1. verified # {} => First(verified) # None
    BY <1>1, RoleFacts
  <2>2. QED
    BY <1>1, <1>2, <2>1
<1>5. Cols(Amounts(bs)) \subseteq Cols(summed)
  BY <1>1 DEF Cols
<1>6. RevenueColumns(bs) \subseteq Cols(summed)
  <2>1. \/ verified # {} /\ RevenueColumns(bs) = {First(verified)}
        \/ quantity # None /\ rate # None /\ RevenueColumns(bs) = {quantity, rate}
        \/ RevenueColumns(bs) = Cols(Amounts(bs))
        \/ RevenueColumns(bs) = {}
    BY DEF RevenueColumns
  <2>2. QED
    BY <1>3, <1>4, <1>5, <2>1
<1>7. c \in Cols(summed)
  BY <1>3, <1>6 DEF MeasureColumns
<1>8. QED
  BY <1>7 DEF Cols

\* The bindings of a proposal of the heuristic.
LEMMA GuessedFacts ==
    ASSUME IngestionInvariant, Guessed
    PROVE  /\ file \in Files /\ proposer = "heuristic" /\ model.sem = Built(Claims, Evidence)
           /\ model.sem.bindings = Bindings(Claims, Evidence)
           /\ WellFormed(Claims, Evidence) /\ IsBindings(model.sem.bindings)
           /\ \A b \in model.sem.bindings :
                 /\ b.role = "event_time" => b.column \in Names(Times(Profile))
                 /\ b.role \in Summable => b.column \in Names(Measures(Profile))
                 /\ b.column \in Names(Derived(Profile)) => b.role = "dimension"
<1>1. file \in Files /\ proposer = "heuristic" /\ model.sem = Built(Claims, Evidence)
  BY DEF IngestionInvariant, ModelBuilt, Guessed
<1>2. model.sem.bindings = Bindings(Claims, Evidence) /\ WellFormed(Claims, Evidence)
      /\ Claims \in Seq(Claimable(Profile))
  BY <1>1, BuiltFields, ClaimsFacts
<1>3. IsBindings(model.sem.bindings)
  BY <1>2, BindingsFacts
<1>4. \A b \in Bindings(Claims, Evidence) :
          /\ b.role = "event_time" => b.column \in Names(Times(Profile))
          /\ b.role \in Summable => b.column \in Names(Measures(Profile))
          /\ b.column \in Names(Derived(Profile)) => b.role = "dimension"
  <2> TAKE b \in Bindings(Claims, Evidence)
  <2> DEFINE x == Claims[b.rank]
  <2>1. b.rank \in 1..Len(Claims) /\ b.column = x.column /\ b.role = x.role
    BY <1>2, BoundIsClaimed
  <2>2. x \in Claimable(Profile)
    BY <1>2, <2>1
  <2> HIDE DEF x
  <2>3. QED
    BY <2>1, <2>2 DEF Claimable
<1>5. QED
  BY <1>1, <1>2, <1>3, <1>4

\* Nothing that is a key of the transactions, or that the heuristic knew for a
\* slice of the time, is summed (propose_heuristically, build_semantic_model).
THEOREM MeasuresOnly == Spec => []MeasuresAreMeasures
<1>1. IngestionInvariant => MeasuresAreMeasures
  <2> SUFFICES ASSUME IngestionInvariant, Guessed, NEW c \in Summed
               PROVE  /\ c # FirstInRole(model.sem.bindings, "transaction_key")
                      /\ \A l \in file.links :
                            l.det = EventTime(Profile) /\ l.dep = c /\ l.strength >= MinStrength =>
                                \/ \E k \in Profile.links : k.det = c /\ k.dep = l.det
                                \/ \A e \in Examined(Typed) : e.name = l.det => e.support < MinSupport
    BY DEF MeasuresAreMeasures
  <2> DEFINE bs == model.sem.bindings
             p == Profile
  <2>1. /\ IsBindings(bs) /\ bs = Bindings(Claims, Evidence) /\ model.sem = Built(Claims, Evidence)
        /\ \A b \in bs : b.role \in Summable => b.column \in Names(Measures(p))
    BY GuessedFacts
  <2>2. PICK b \in bs : b.column = c /\ b.role \in Summable
    <3>1. c \in MeasureColumns(bs, Returns(bs, Evidence), "units_sold") \cup
                    MeasureColumns(bs, Returns(bs, Evidence), "net_revenue")
      BY <2>1, BuiltFields DEF Summed, MeasureNames
    <3>2. QED
      BY <2>1, <3>1, SummedFacts
  <2>3. c # FirstInRole(bs, "transaction_key")
    <3>1. SUFFICES ASSUME c = FirstInRole(bs, "transaction_key") PROVE FALSE
      OBVIOUS
    <3>2. c # None
      BY <2>1, <2>2 DEF IsBindings
    <3>3. InRole(bs, "transaction_key") \subseteq bs
      BY DEF InRole
    <3>4. c \in Cols(InRole(bs, "transaction_key"))
      BY <2>1, <3>1, <3>2, <3>3, RoleFacts DEF FirstInRole
    <3>5. PICK d \in bs : d.column = c /\ d.role = "transaction_key"
      BY <3>4 DEF Cols, InRole
    <3>6. d = b
      BY <2>1, <2>2, <3>5 DEF IsBindings
    <3>7. QED
      BY <2>2, <3>5, <3>6 DEF Summable
  <2>4. ASSUME NEW l \in file.links, l.det = EventTime(p), l.dep = c, l.strength >= MinStrength,
               NEW e \in Examined(Typed), e.name = l.det, ~(e.support < MinSupport)
        PROVE  \E k \in p.links : k.det = c /\ k.dep = l.det
    <3>1. /\ file \in Files /\ Regular(p) /\ p.columns = Typed /\ p.links = Reported(Typed, file.links)
          /\ \A m \in Columns(p) : m.support \in Nat
      BY GuessedFacts, ProfileFacts
    <3>2. PICK m \in Elements(Measures(p)) : m.name = c
      BY <2>1, <2>2, NamesFacts
    <3>3. m \in Columns(p) /\ m.type \in Numeric /\ m.name \notin Names(Derived(p))
      <4>1. Measures(p) \in Seq(Columns(p)) /\ m.type \in Numeric /\ m.name \notin Names(Derived(p))
        BY <3>1, RuleFacts
      <4>2. QED
        BY <4>1 DEF Elements
    <3>4. m \notin Elements(Derived(p))
      BY <3>3, NamesFacts
    <3>5. m.type \notin Temporal
      BY <3>3 DEF Numeric, Temporal
    <3>6. e.support >= MinSupport
      <4>1. e \in Columns(p)
        <5> DEFINE candidates == Kept(Typed, {k \in Elements(Typed) : k.distinct \in 2..MaxGroups /\ k.unique < 990})
                   key == [k \in Elements(Typed) |-> 1000 - k.unique]
                   sorted == Descending(candidates, key)
                   C == Columns(p)
        <5>1. C = Elements(Typed) /\ Typed \in Seq(C) /\ \A k \in C : k.unique \in Nat
          BY <3>1 DEF Columns, Regular
        <5>2. e \in Elements(sorted)
          BY DEF Examined, Elements
        <5>3. candidates \in Seq(C) /\ Elements(candidates) \subseteq C
          <6> DEFINE set == {k \in Elements(Typed) : k.distinct \in 2..MaxGroups /\ k.unique < 990}
          <6>1. candidates = Kept(Typed, set)
            OBVIOUS
          <6> HIDE DEF C, set, candidates
          <6>2. candidates \in Seq(C \cap set) /\ Elements(candidates) = C \cap set
            BY <5>1, <6>1, KeptFacts
          <6>3. QED
            BY <6>2
        <5>4. \A k \in Elements(candidates) : key[k] \in Int
          BY <5>1, <5>3
        <5> HIDE DEF C, candidates, key, sorted
        <5>5. Elements(sorted) = Elements(candidates)
          BY <5>3, <5>4, DescendingFacts DEF sorted
        <5>6. QED
          BY <5>2, <5>3, <5>5 DEF C
      <4>2. e.support \in Nat
        BY <3>1, <4>1
      <4>3. QED
        BY <2>4, <4>2 DEF MinSupport
    <3>7. l \in p.links
      BY <2>4, <3>1, <3>6 DEF Reported
    <3>8. EventTime(p) \in DeterminedBy(p, m)
      BY <2>4, <3>2, <3>7 DEF DeterminedBy
    <3>9. EventTime(p) \in Determines(p, m)
      BY <3>1, <3>3, <3>4, <3>5, <3>8, RuleFacts
    <3>10. QED
      BY <2>4, <3>2, <3>9 DEF Determines
  <2>5. QED
    BY <2>3, <2>4
<1>2. QED
  BY <1>1, IngestionInductive, PTL

\* The event time the heuristic reasons with is the one of the model.
LEMMA EventTimeBound ==
    ASSUME IngestionInvariant, Guessed, Times(Profile) # <<>>
    PROVE  FirstInRole(model.sem.bindings, "event_time") = EventTime(Profile)
<1> DEFINE bs == model.sem.bindings
           p == Profile
           first == Times(p)[1]
           timed == InRole(bs, "event_time")
<1>1. /\ file \in Files /\ Regular(p) /\ bs = Bindings(Claims, Evidence) /\ WellFormed(Claims, Evidence)
      /\ Claims = HeuristicClaims(p) /\ Claims \in Seq(Claimable(p))
  BY GuessedFacts, ProfileFacts, ClaimsFacts
<1>2. Claims # <<>> /\ Claims[1] = ClaimOf(first, "event_time", 70)
  BY <1>1, HeuristicFacts
<1>3. Claims[1].column = first.name /\ Claims[1].role = "event_time" /\ EventTime(p) = first.name
  BY <1>2 DEF ClaimOf, EventTime, FirstName
<1>4. Len(Claims) >= 1
  BY <1>1, <1>2
<1>5. PICK b \in bs : b.rank = 1 /\ b.column = first.name /\ b.role = "event_time"
  BY <1>1, <1>3, <1>4, ClaimedIsBound
<1>6. first.name \in Evidence.temporal
  <2>1. Times(p) \in Seq(Columns(p)) /\ \A c \in Elements(Times(p)) : c \in Columns(p) /\ c.type \in Temporal
    BY <1>1, RuleFacts
  <2>2. first \in Elements(Times(p))
    BY <2>1 DEF Elements
  <2>3. QED
    BY <1>1, <2>1, <2>2, ProfileFacts
<1>7. b \in timed
  BY <1>1, <1>5, <1>6, BoundIsClaimed DEF InRole
<1>8. \A d \in timed : d \in bs /\ d.rank \in 1..Len(Claims) /\ d.column = Claims[d.rank].column
  BY <1>1, BoundIsClaimed DEF InRole
<1>9. Len(Claims) \in Nat
  BY <1>1
<1> DEFINE chosen == CHOOSE d \in timed : \A e \in timed : d.rank <= e.rank
<1>10. chosen \in timed /\ chosen.rank <= 1
  <2>1. \A e \in timed : b.rank <= e.rank
    BY <1>5, <1>8, <1>9
  <2> HIDE DEF timed
  <2>2. chosen \in timed /\ \A e \in timed : chosen.rank <= e.rank
    BY <1>7, <2>1
  <2>3. QED
    BY <1>5, <1>7, <2>2
<1>11. chosen.rank = 1
  BY <1>8, <1>9, <1>10
<1>12. chosen.column = first.name
  BY <1>3, <1>8, <1>10, <1>11
<1>13. First(timed) = chosen.column
  BY <1>7 DEF First
<1>14. QED
  BY <1>3, <1>12, <1>13 DEF FirstInRole

\* What the heuristic sets aside as a slice of the time, the model makes a period
\* of it (propose_heuristically, period_columns).
THEOREM SlicesArePeriods == Spec => []PeriodsAgree
<1>1. IngestionInvariant => PeriodsAgree
  <2> SUFFICES ASSUME IngestionInvariant, Guessed, NEW i \in DOMAIN Derived(Profile),
                      <<EventTime(Profile), Derived(Profile)[i].name>> \in Evidence.fds
               PROVE  Derived(Profile)[i].name \in Periods(model.sem.bindings, Evidence)
    BY DEF PeriodsAgree
  <2> DEFINE bs == model.sem.bindings
             p == Profile
             d == Derived(p)[i]
  <2>1. /\ file \in Files /\ Regular(p) /\ bs = Bindings(Claims, Evidence) /\ WellFormed(Claims, Evidence)
        /\ Claims = HeuristicClaims(p)
        /\ \A b \in bs : b.column \in Names(Derived(p)) => b.role = "dimension"
    BY GuessedFacts, ProfileFacts, ClaimsFacts
  <2>2. d \in Elements(Derived(p)) /\ d.name \in Names(Derived(p))
    BY NamesFacts DEF Elements
  <2>3. EventTime(p) \in DeterminedBy(p, d)
    BY <2>1, <2>2, RuleFacts
  <2>4. PICK l \in p.links : l.det = EventTime(p)
    BY <2>3 DEF DeterminedBy
  <2>5. EventTime(p) \in Names(p.columns)
    BY <2>1, <2>4 DEF Regular
  <2>6. EventTime(p) # None
    BY <2>1, <2>5, NamesFacts DEF Regular, Columns
  <2>7. Times(p) # <<>>
    BY <2>6 DEF EventTime, FirstName
  <2>8. FirstInRole(bs, "event_time") = EventTime(p)
    BY <2>7, EventTimeBound
  <2>9. PICK b \in bs : b.column = d.name
    <3>1. PICK k \in 1..Len(Claims) : Claims[k].column = d.name
      BY <2>1, <2>2, HeuristicFacts
    <3>2. QED
      BY <2>1, <3>1, ClaimedIsBound
  <2>10. b.role = "dimension" /\ ~b.refuted
    BY <2>1, <2>2, <2>9, BoundIsClaimed
  <2>11. d.name \in Cols(InRole(bs, "dimension"))
    BY <2>9, <2>10 DEF Cols, InRole
  <2>12. QED
    BY <2>8, <2>11 DEF Periods
<1>2. QED
  BY <1>1, IngestionInductive, PTL
=============================================================================
