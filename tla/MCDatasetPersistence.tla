------------------------ MODULE MCDatasetPersistence ------------------------
(* Small instances of DatasetPersistence for TLC. *)
EXTENDS DatasetPersistence

CONSTANTS d1, d2, q1

\* Three files: the second has the size and the columns of the first and
\* other rows; the third has fewer columns, and a row more.
MCContents == {"jan", "feb", "short"}
MCRowCount == [c \in MCContents |-> IF c = "short" THEN 3 ELSE 2]
MCColumns == [c \in MCContents |-> IF c = "short" THEN {"id"} ELSE {"id", "amount"}]
MCBound == MCColumns
=============================================================================
