-------------------------------- MODULE Paging --------------------------------
(***************************************************************************)
(* What the list handlers of the backend have in common: a COUNT, then a   *)
(* SELECT with ORDER BY, LIMIT and OFFSET, and the number of pages         *)
(* computed from the count.  A row is a pair: the value of the column it   *)
(* is sorted by, and its number.                                           *)
(***************************************************************************)
EXTENDS Naturals, FiniteSets

\* (total + pageSize - 1) / pageSize, at least 1
TotalPages(total, size) ==
  IF total = 0 THEN 1 ELSE (total + size - 1) \div size

\* The orders in which the database may put rows that sort alike.
TieBreaks(rows) ==
  {f \in [rows -> 1..Cardinality(rows)] : \A q, r \in rows : f[q] = f[r] => q = r}

Before(q, r, tie) == q[1] < r[1] \/ (q[1] = r[1] /\ tie[q] < tie[r])

\* The position of a row, from 0.
Rank(row, rows, tie) == Cardinality({r \in rows : Before(r, row, tie)})

\* Slip: pages counted from 0.
PageFromZero(rows, tie, page, size) ==
  {r \in rows : /\ Rank(r, rows, tie) >= page * size
                /\ Rank(r, rows, tie) < (page + 1) * size}

\* LIMIT pageSize OFFSET (page - 1) * pageSize
PageOf(rows, tie, page, size) ==
  {r \in rows : /\ Rank(r, rows, tie) >= (page - 1) * size
                /\ Rank(r, rows, tie) < page * size}

\* A page or a page size out of range is replaced by the default.
PageAsked(page) == IF page < 1 THEN 1 ELSE page
=============================================================================
