------------------------------ MODULE RowStream ------------------------------
(***************************************************************************)
(* What a JDBC scan promises the C++ side of get_next: through JNI come    *)
(* the rows of the query's result, each once and in order, in chunks that  *)
(* are full except the last, and the end of the stream only after the last *)
(* row.  A scan whose result set breaks may report the end too early, and  *)
(* take it back.                                                           *)
(***************************************************************************)
EXTENDS Integers, Sequences

CONSTANTS
  Scanners,    \* the scans
  Rows,        \* [Scanners -> Nat], the number of rows each query selects
  ChunkSize,   \* rows in a full chunk
  Breaking     \* the scans whose result set may break

VARIABLES
  fetched,     \* the row numbers that have crossed JNI for each scan, in order
  eos          \* whether get_next has said that there are no more

vars == <<fetched, eos>>

Init ==
  /\ fetched = [s \in Scanners |-> << >>]
  /\ eos = [s \in Scanners |-> FALSE]

\* As many rows as are left, but not more than a chunk holds.
NextChunkRows(s) ==
  LET left == Rows[s] - Len(fetched[s])
  IN  IF left < ChunkSize THEN left ELSE ChunkSize

Fetch(s) ==
  /\ ~eos[s] /\ NextChunkRows(s) > 0
  /\ fetched' = [fetched EXCEPT ![s] =
       @ \o [i \in 1..NextChunkRows(s) |-> Len(@) + i]]
  /\ UNCHANGED eos

End(s) ==
  /\ Len(fetched[s]) = Rows[s] \/ s \in Breaking
  /\ eos' = [eos EXCEPT ![s] = TRUE]
  /\ UNCHANGED fetched

\* A reader that asks again after an early end gets the rows that are left.
Resume(s) ==
  /\ eos[s] /\ s \in Breaking /\ NextChunkRows(s) > 0
  /\ eos' = [eos EXCEPT ![s] = FALSE]
  /\ UNCHANGED fetched

Next == \E s \in Scanners : Fetch(s) \/ End(s) \/ Resume(s)

Spec == Init /\ [][Next]_vars
=============================================================================
