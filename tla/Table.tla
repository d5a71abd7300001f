------------------------------- MODULE Table -------------------------------
(***************************************************************************)
(* What the storage engine promises of a table with unique keys: a set of  *)
(* rows that a transaction changes, never holding two rows with the same   *)
(* value of a unique key, and that changes for others only when the        *)
(* transaction commits.  There are no indexes.                             *)
(***************************************************************************)
CONSTANTS Pk, Row, NoRow

VARIABLES
  unique,   \* columns with a unique key, fixed at CREATE TABLE
  rows,     \* the committed table
  work      \* the table as the transaction sees it

\* row and the row of p have the same value in some unique column.
Clashes(p, row) == work[p] # NoRow /\ \E k \in unique : work[p][k] = row[k]

Init ==
  /\ rows = [p \in Pk |-> NoRow]
  /\ work = rows

\* The rows of a statement, one at a time or several at once.
Insert(S, row) ==
  /\ \A p \in S : work[p] = NoRow /\ \A q \in Pk : ~Clashes(q, row[p])
  /\ \A p, q \in S : p # q => \A k \in unique : row[p][k] # row[q][k]
  /\ work' = [p \in Pk |-> IF p \in S THEN row[p] ELSE work[p]]
  /\ UNCHANGED << unique, rows >>

\* Row p becomes row, under the same or under another primary key.
Update(p, q, row) ==
  /\ work[p] # NoRow
  /\ q = p \/ work[q] = NoRow
  /\ \A r \in Pk \ {p} : ~Clashes(r, row)
  /\ work' = [work EXCEPT ![p] = NoRow, ![q] = row]
  /\ UNCHANGED << unique, rows >>

Delete(p) ==
  /\ work[p] # NoRow
  /\ work' = [work EXCEPT ![p] = NoRow]
  /\ UNCHANGED << unique, rows >>

Commit == rows' = work /\ UNCHANGED << unique, work >>

Rollback == work' = rows /\ UNCHANGED << unique, rows >>

Next ==
  \/ \E p \in Pk : Delete(p)
  \/ \E S \in SUBSET Pk : \E row \in [S -> Row] : Insert(S, row)
  \/ \E p, q \in Pk, row \in Row : Update(p, q, row)
  \/ Commit \/ Rollback

Spec == Init /\ [][Next]_<< unique, rows, work >>
=============================================================================
