---------------------------- MODULE MCRowIndex ----------------------------
(* RowIndex for TLC. *)
EXTENDS RowIndex, TLC

AllCalls == {"write_row", "update_row", "delete_row"}

MCTables ==
  { [unique |-> {1, 2}, generated |-> FALSE, calls |-> AllCalls, ignore |-> FALSE],
    [unique |-> {1, 2}, generated |-> FALSE, calls |-> {"write_row"}, ignore |-> TRUE],
    [unique |-> {1, 2}, generated |-> FALSE, calls |-> {"write_row"}, ignore |-> FALSE],
    [unique |-> {1}, generated |-> FALSE, calls |-> {"write_row"}, ignore |-> FALSE],
    [unique |-> {}, generated |-> FALSE, calls |-> {"write_row"}, ignore |-> FALSE],
    [unique |-> {1}, generated |-> FALSE, calls |-> AllCalls, ignore |-> TRUE],
    [unique |-> {1}, generated |-> TRUE, calls |-> AllCalls, ignore |-> TRUE] }

\* UPDATE IGNORE on a table with two unique keys.
IgnoreTables ==
  { [unique |-> {1, 2}, generated |-> FALSE, calls |-> AllCalls, ignore |-> TRUE] }

\* Primary keys and column values are interchangeable.
RowSymmetry == Permutations(Pk) \cup Permutations(Val)
===========================================================================
