------------------------------- MODULE Dialect -------------------------------
(***************************************************************************)
(* What the sniffer makes of the first bytes of an upload: its encoding,   *)
(* and whether its records all have as many fields.                        *)
(*                                                                         *)
(* A file is a sequence of bytes.  "lead" and "trail" are the two bytes of *)
(* a character beyond ASCII in UTF-8, each a character of its own in       *)
(* cp1252; "comma" stands for whichever delimiter and "quote" for          *)
(* whichever quote csv.Sniffer settles on; the rest is "other".  Files     *)
(* with a byte-order mark, which settles their encoding, are left out.     *)
(***************************************************************************)
EXTENDS Naturals, Sequences, FiniteSets

CONSTANT SampleBytes  \* _SAMPLE_BYTES

ASSUME SampleAssumption == SampleBytes \in Nat \ {0}

Bytes == {"quote", "newline", "comma", "lead", "trail", "other"}

-----------------------------------------------------------------------------
(* csv.reader: the fields of every record that is not blank.  A quote opens a *)
(* field only at its start, and a doubled one inside is a quote.              *)

Unread == [at |-> "start", fields |-> 0, widths |-> <<>>, proper |-> TRUE]

EndRecord(r) ==
    IF r.at = "start" /\ r.fields = 0 THEN r
    ELSE [r EXCEPT !.at = "start", !.fields = 0, !.widths = Append(@, r.fields + 1)]

ReadByte(r, byte) ==
    CASE byte = "newline" /\ r.at # "quoted" -> EndRecord(r)
      [] byte = "comma" /\ r.at # "quoted" -> [r EXCEPT !.at = "start", !.fields = @ + 1]
      [] byte = "quote" -> [r EXCEPT !.at = CASE @ = "quoted" -> "closing"
                                              [] @ = "plain" -> "plain"
                                              [] OTHER -> "quoted",
                                     !.proper = @ /\ r.at # "plain"]
      [] OTHER -> [r EXCEPT !.at = IF @ = "quoted" THEN "quoted" ELSE "plain",
                            !.proper = @ /\ r.at # "closing"]

\* What is read after each number of bytes.
ReadUpTo(text) ==
    LET after[n \in 0..Len(text)] == IF n = 0 THEN Unread ELSE ReadByte(after[n - 1], text[n]) IN after
Read(text) == ReadUpTo(text)[Len(text)]
Widths(text) == EndRecord(Read(text)).widths

SameWidth(text) == LET widths == Widths(text) IN \A i \in DOMAIN widths : widths[i] = widths[1]

\* A file that any reader of CSV can read: it starts with a record, its quotes
\* pair up around fields, and its records are as wide as the first.
Valid(text) ==
    /\ text # <<>> /\ text[1] # "newline"
    /\ Read(text).proper /\ Read(text).at # "quoted"
    /\ SameWidth(text)

-----------------------------------------------------------------------------
(* sniff_dialect *)

Sample(text) == SubSeq(text, 1, IF Len(text) < SampleBytes THEN Len(text) ELSE SampleBytes)

Utf8(text) ==
    \A i \in DOMAIN text :
        /\ text[i] = "lead" => i < Len(text) /\ text[i + 1] = "trail"
        /\ text[i] = "trail" => i > 1 /\ text[i - 1] = "lead"

\* _detect_encoding
DetectEncoding(sample) == IF Utf8(sample) THEN "utf-8" ELSE "cp1252"

\* Where a sequence has its last position of a set, and 0 for none.
Latest(positions) == IF positions = {} THEN 0 ELSE CHOOSE i \in positions : \A k \in positions : k <= i

Newlines(text) == {i \in DOMAIN text : text[i] = "newline"}

\* The sample without a trailing partial line.
Trimmed(text) == IF Newlines(text) = {} THEN text ELSE SubSeq(text, 1, Latest(Newlines(text)) - 1)

\* Mutant of LastRecordBoundary: the last newline, inside a field or not.
LastNewline(text) == Latest(Newlines(text))

\* _last_record_boundary: the last newline outside quotes.  That the code steps
\* over a doubled quote makes no difference, as it toggles twice.
RecordEnds(text) ==
    {i \in Newlines(text) : Cardinality({k \in 1..(i - 1) : text[k] = "quote"}) % 2 = 0}
LastRecordBoundary(text) == Latest(RecordEnds(text))

\* The part of the sample whose rows are compared, if there is one.
Checked(text) == SubSeq(text, 1, LastRecordBoundary(text) - 1)
Judged(text) == LastRecordBoundary(text) > 1

Blank(text) == \A i \in DOMAIN text : text[i] = "newline"
NoRows(text) == Judged(text) /\ Widths(Checked(text)) = <<>>
Ragged(text) == Judged(text) /\ ~SameWidth(Checked(text))
=============================================================================
