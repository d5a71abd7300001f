------------------------------ MODULE RowIndex ------------------------------
(***************************************************************************)
(* Rows and secondary indexes of an Eloq table (ha_eloq::write_row(),      *)
(* update_row() and delete_row() of storage/eloq/ha_eloq.cc).              *)
(*                                                                         *)
(* A table is a map from primary keys to records, and one map for each     *)
(* secondary index.  The key of a non-unique index ends with the primary   *)
(* key; a unique index holds it in the record.  Every call writes into the *)
(* write set of the session's transaction, one index after the other and   *)
(* the base table last, and may fail in between.  A statement of several   *)
(* rows may write them first and check their unique keys a batch at a time *)
(* (BulkInsert()).  Transactions are isolated by the transaction service;  *)
(* one session is modelled.                                                *)
(***************************************************************************)
EXTENDS Integers, Sequences, Functions

CONSTANTS
  Pk, Val,      \* primary keys, values of the indexed columns
  N,            \* number of secondary indexes, one column each
  Batch,        \* batch_read_size_, rows whose unique keys are checked together
  Tables,       \* tables and statements to look at, see TableAssumption
  NoPk, NoRow,  \* no entry
  Untouched     \* not in the write set

Index == 1 .. N
Row == [Index -> Val]
IndexKey == Val \X (Pk \cup {NoPk})

\* unique: the unique indexes, which sort_keys() puts before the others;
\* generated: the table has no primary key, rows get a hidden generated one;
\* calls: the calls that the statements of a transaction make;
\* ignore: the statements skip a duplicate (IGNORE, REPLACE, ON DUPLICATE KEY).
ASSUME TableAssumption ==
  /\ N \in Nat /\ Batch \in Nat \ {0}
  /\ NoPk \notin Pk /\ NoRow \notin Row
  /\ Untouched \notin Pk \cup {NoPk} /\ Untouched \notin Row \cup {NoRow}
  /\ Tables \subseteq [unique : SUBSET Index, generated : BOOLEAN,
                       calls : SUBSET {"write_row", "update_row", "delete_row"},
                       ignore : BOOLEAN]
  /\ \A t \in Tables : \A k \in t.unique : 1 .. k \subseteq t.unique

VARIABLES
  share,         \* the table and its statements, a member of Tables
  base, index,   \* committed records
  wbase, windex, \* write set of the transaction
  pc, kid,       \* call in progress and the index it has come to
  old_pk, new_pk, old_data, new_data,   \* arguments of the call
  bulk,                 \* bulk insert: "none", "rows" or in end_bulk_insert()
  pk_buffer, sk_buffer, \* keys written and not checked yet
  rc             \* what the last call returned

store == << base, index >>
wset == << wbase, windex >>
args == << old_pk, new_pk, old_data, new_data >>
buffers == << bulk, pk_buffer, sk_buffer >>
vars == << share, store, wset, pc, kid, args, buffers, rc >>

-----------------------------------------------------------------------------
(* The transaction service: reads see the transaction's own writes.        *)

Over(w, c) == IF w = Untouched THEN c ELSE w
BaseRead(p) == Over(wbase[p], base[p])
IndexRead(k, key) == Over(windex[k][key], index[k][key])

TxUpsertBase(p, rec) == wbase' = [wbase EXCEPT ![p] = rec] /\ UNCHANGED windex
TxUpsert(k, key, rec) == windex' = [windex EXCEPT ![k][key] = rec] /\ UNCHANGED wbase

EmptyWriteSet ==
  /\ wbase' = [p \in Pk |-> Untouched]
  /\ windex' = [k \in Index |-> [key \in IndexKey |-> Untouched]]

\* pack_record(): the columns of the index, then the primary key unless the
\* index is unique.
PackRecord(is_unique, k, p, row) == << row[k], IF is_unique THEN NoPk ELSE p >>
SecondaryKey(k, p, row) == PackRecord(k \in share.unique, k, p, row)

-----------------------------------------------------------------------------
Init ==
  /\ share \in Tables
  /\ base = [p \in Pk |-> NoRow]
  /\ index = [k \in Index |-> [key \in IndexKey |-> NoPk]]
  /\ wbase = [p \in Pk |-> Untouched]
  /\ windex = [k \in Index |-> [key \in IndexKey |-> Untouched]]
  /\ pc = "idle" /\ kid = 1 /\ rc = "ok"
  /\ old_pk = NoPk /\ new_pk = NoPk /\ old_data = NoRow /\ new_data = NoRow
  /\ bulk = "none" /\ pk_buffer = << >> /\ sk_buffer = [k \in Index |-> << >>]

Enter(call, p, q, old, new) ==
  /\ pc = "idle" /\ bulk # "end"
  /\ pc' = call /\ kid' = 1 /\ rc' = "ok"
  /\ old_pk' = p /\ new_pk' = q /\ old_data' = old /\ new_data' = new
  /\ UNCHANGED << share, store, wset, buffers >>

\* A generated primary key is new.
write_row(p, new) ==
  /\ "write_row" \in share.calls
  /\ share.generated => BaseRead(p) = NoRow
  /\ Enter(IF bulk = "rows" THEN "bulk" ELSE "check", NoPk, p, NoRow, new)

\* The row was read before; a changed primary key is an insert and a delete.
update_row(p, q, new) ==
  /\ "update_row" \in share.calls
  /\ BaseRead(p) # NoRow
  /\ share.generated => q = p
  /\ Enter(IF q = p THEN "update" ELSE "check", p, q, BaseRead(p), new)

delete_row(p) ==
  /\ "delete_row" \in share.calls
  /\ BaseRead(p) # NoRow
  /\ Enter("delete", p, NoPk, BaseRead(p), NoRow)

ReturnCode(code) == pc' = "return" /\ rc' = code /\ UNCHANGED << share, store, kid, args >>
Return(code) == ReturnCode(code) /\ UNCHANGED buffers
ToIndex(k) == kid' = k /\ UNCHANGED << share, store, args, rc >>
NextIndex == ToIndex(kid + 1) /\ UNCHANGED << pc, buffers >>

\* The statement fails.
Failed == pc = "return" /\ (rc = "error" \/ (rc = "dup" /\ ~share.ignore))

-----------------------------------------------------------------------------
(* Insert()                                                                *)

InsertCheck ==
  /\ pc = "check"
  /\ IF ~share.generated /\ BaseRead(new_pk) # NoRow
       THEN Return("dup")
       ELSE pc' = "insert" /\ ToIndex(1) /\ UNCHANGED buffers
  /\ UNCHANGED wset

NewKey == SecondaryKey(kid, new_pk, new_data)
Taken == kid \in share.unique /\ IndexRead(kid, NewKey) # NoPk

InsertIndex ==
  /\ pc = "insert" /\ kid \in Index
  /\ ~Taken
  /\ TxUpsert(kid, NewKey, new_pk)
  /\ NextIndex

\* Mutant: the entries of the row that was not inserted stay.
Mut_InsertDuplicate ==
  /\ pc = "insert" /\ kid \in Index
  /\ Taken
  /\ UNCHANGED wset
  /\ Return("dup")

\* TxRevert() erases the entries of the indexes before; their keys are packed
\* as those of the unique index at hand.
InsertDuplicate ==
  /\ pc = "insert" /\ kid \in Index
  /\ Taken
  /\ windex' = [k \in Index |->
       IF k < kid THEN [windex[k] EXCEPT ![PackRecord(TRUE, k, new_pk, new_data)] = Untouched]
                  ELSE windex[k]]
  /\ UNCHANGED wbase
  /\ Return("dup")

InsertBase ==
  /\ pc = "insert" /\ kid = N + 1
  /\ TxUpsertBase(new_pk, new_data)
  /\ IF old_pk = NoPk
       THEN Return("ok")
       ELSE pc' = "delete" /\ ToIndex(1) /\ UNCHANGED buffers

-----------------------------------------------------------------------------
(* Update() and Delete()                                                   *)

OldKey == SecondaryKey(kid, old_pk, old_data)

\* Mutant: the next index is passed over as well.
Mut_UpdateSame ==
  /\ pc = "update" /\ kid \in Index
  /\ NewKey = OldKey
  /\ ToIndex(kid + 2)
  /\ UNCHANGED << wset, pc, buffers >>

UpdateSame ==
  /\ pc = "update" /\ kid \in Index
  /\ NewKey = OldKey
  /\ UNCHANGED wset
  /\ NextIndex

\* A failure between the two writes ends in the same rollback as TxError.
UpdateIndex ==
  /\ pc = "update" /\ kid \in Index
  /\ NewKey # OldKey /\ ~Taken
  /\ windex' = [windex EXCEPT ![kid][NewKey] = new_pk, ![kid][OldKey] = NoPk]
  /\ UNCHANGED wbase
  /\ NextIndex

\* Mutant: the row's own entry counts as a duplicate.
Mut_UpdateDuplicate ==
  /\ pc = "update" /\ kid \in Index
  /\ Taken
  /\ UNCHANGED wset
  /\ Return("dup")

\* The entries of the indexes before stay in the write set.
UpdateDuplicate ==
  /\ pc = "update" /\ kid \in Index
  /\ NewKey # OldKey /\ Taken
  /\ UNCHANGED wset
  /\ Return("dup")

UpdateBase ==
  /\ pc = "update" /\ kid = N + 1
  /\ TxUpsertBase(new_pk, new_data)
  /\ Return("ok")

DeleteIndex ==
  /\ pc = "delete" /\ kid \in Index
  /\ TxUpsert(kid, OldKey, NoPk)
  /\ NextIndex

DeleteBase ==
  /\ pc = "delete" /\ kid = N + 1
  /\ TxUpsertBase(old_pk, NoRow)
  /\ Return("ok")

\* A read or a write of the write set fails.
TxError ==
  /\ pc \in {"check", "insert", "update", "delete"}
  /\ UNCHANGED wset
  /\ Return("error")

-----------------------------------------------------------------------------
(* Bulk insert.  Transactions that also update or delete are left out: what *)
(* a batch read returns for a key the transaction has deleted itself is the *)
(* transaction service's.                                                   *)

\* Only where a duplicate is an error and the primary key is to be checked.
start_bulk_insert ==
  /\ pc = "idle" /\ bulk = "none"
  /\ ~share.ignore /\ ~share.generated /\ share.calls = {"write_row"}
  /\ bulk' = "rows"
  /\ UNCHANGED << share, store, wset, pc, kid, args, pk_buffer, sk_buffer, rc >>

\* TxUpsert() of a unique key: the transaction has written the key before.
Written == IF kid \in Index
  THEN kid \in share.unique /\ windex[kid][NewKey] \notin {Untouched, NoPk}
  ELSE wbase[new_pk] \notin {Untouched, NoRow}

\* The key goes into its buffer before it is written.
Buffer ==
  /\ sk_buffer' = IF kid \in share.unique
       THEN [sk_buffer EXCEPT ![kid] = Append(@, NewKey)] ELSE sk_buffer
  /\ pk_buffer' = IF kid \in Index THEN pk_buffer ELSE Append(pk_buffer, new_pk)
  /\ UNCHANGED bulk

BulkIndex ==
  /\ pc = "bulk" /\ kid \in Index /\ ~Written
  /\ TxUpsert(kid, NewKey, new_pk)
  /\ Buffer
  /\ ToIndex(kid + 1) /\ UNCHANGED pc

\* A full buffer is checked.
BulkBase ==
  /\ pc = "bulk" /\ kid = N + 1 /\ ~Written
  /\ TxUpsertBase(new_pk, new_data)
  /\ Buffer
  /\ IF Len(pk_buffer') >= Batch
       THEN pc' = "verify_pk" /\ ToIndex(1)
       ELSE ReturnCode("ok")

\* The buffer of the duplicate key is dropped, the others are not.
BulkDuplicate ==
  /\ pc = "bulk" /\ Written
  /\ sk_buffer' = IF kid \in Index THEN [sk_buffer EXCEPT ![kid] = << >>] ELSE sk_buffer
  /\ pk_buffer' = IF kid \in Index THEN pk_buffer ELSE << >>
  /\ UNCHANGED << bulk, wset >>
  /\ ReturnCode("dup")

BulkError ==
  /\ pc = "bulk"
  /\ Buffer
  /\ UNCHANGED wset
  /\ ReturnCode("error")

\* BulkUniqueCheck(): a batch read looks behind the write set; it may fail.
PkTaken == \E p \in Range(pk_buffer) : base[p] # NoRow
SkTaken(k) == \E key \in Range(sk_buffer[k]) : index[k][key] # NoPk

CheckBase ==
  /\ pc = "verify_pk"
  /\ pk_buffer' = << >> /\ UNCHANGED << bulk, sk_buffer, wset >>
  /\ \/ PkTaken /\ ReturnCode("dup")
     \/ ~PkTaken /\ pc' = "verify" /\ ToIndex(1)
     \/ ReturnCode("error")

CheckIndex ==
  /\ pc = "verify" /\ kid \in share.unique
  /\ sk_buffer' = [sk_buffer EXCEPT ![kid] = << >>]
  /\ UNCHANGED << bulk, pk_buffer, wset >>
  /\ \/ SkTaken(kid) /\ ReturnCode("dup")
     \/ ~SkTaken(kid) /\ ToIndex(kid + 1) /\ UNCHANGED pc
     \/ ReturnCode("error")

CheckDone ==
  /\ pc = "verify" /\ kid \notin share.unique
  /\ UNCHANGED wset
  /\ Return("ok")

\* Mutant: the rows since the last full buffer are not checked.
Mut_end_bulk_insert ==
  /\ bulk = "rows"
  /\ pc = "idle" \/ Failed
  /\ bulk' = "end"
  /\ UNCHANGED << share, store, wset, pc, kid, args, pk_buffer, sk_buffer, rc >>

\* Called after a failed row as well: the buffers then differ in length, what
\* the check reads is undefined and what it finds is dropped.
end_bulk_insert ==
  /\ bulk = "rows"
  /\ pc = "idle" \/ Failed
  /\ bulk' = "end"
  /\ pc' = IF pc = "idle" /\ pk_buffer # << >> THEN "verify_pk" ELSE pc
  /\ UNCHANGED << share, store, wset, kid, args, pk_buffer, sk_buffer, rc >>

EndBulk ==
  /\ bulk = "end" /\ pc \in {"idle", "return"}
  /\ bulk' = "none" /\ pk_buffer' = << >> /\ sk_buffer' = [k \in Index |-> << >>]
  /\ UNCHANGED << share, store, wset, pc, kid, args, rc >>

-----------------------------------------------------------------------------
(* The statement and the end of the transaction.                           *)

\* The statement goes on to its next row.
Continue ==
  /\ pc = "return" /\ ~Failed /\ bulk # "end"
  /\ pc' = "idle"
  /\ UNCHANGED << share, store, wset, kid, args, buffers, rc >>

\* The rollback of a statement aborts the transaction, and so does a commit
\* that fails.
eloq_rollback ==
  /\ pc = "idle" \/ Failed
  /\ bulk = "none"
  /\ EmptyWriteSet
  /\ pc' = "idle"
  /\ UNCHANGED << share, store, kid, args, buffers, rc >>

eloq_commit ==
  /\ pc = "idle" /\ bulk = "none"
  /\ base' = [p \in Pk |-> BaseRead(p)]
  /\ index' = [k \in Index |-> [key \in IndexKey |-> IndexRead(k, key)]]
  /\ EmptyWriteSet
  /\ UNCHANGED << share, pc, kid, args, buffers, rc >>

Next ==
  \/ \E p \in Pk, new \in Row : write_row(p, new)
  \/ \E p, q \in Pk, new \in Row : update_row(p, q, new)
  \/ \E p \in Pk : delete_row(p)
  \/ InsertCheck \/ InsertIndex \/ InsertDuplicate \/ InsertBase
  \/ UpdateSame \/ UpdateIndex \/ UpdateDuplicate \/ UpdateBase
  \/ DeleteIndex \/ DeleteBase
  \/ start_bulk_insert \/ BulkIndex \/ BulkBase \/ BulkDuplicate \/ BulkError
  \/ CheckBase \/ CheckIndex \/ CheckDone \/ end_bulk_insert \/ EndBulk
  \/ TxError \/ Continue \/ eloq_rollback \/ eloq_commit

Spec == Init /\ [][Next]_vars

-----------------------------------------------------------------------------
(* Properties                                                              *)

\* The variables of the handler and the write set have their types.
TypeOK ==
  /\ share \in Tables
  /\ base \in [Pk -> Row \cup {NoRow}]
  /\ index \in [Index -> [IndexKey -> Pk \cup {NoPk}]]
  /\ wbase \in [Pk -> Row \cup {NoRow, Untouched}]
  /\ windex \in [Index -> [IndexKey -> Pk \cup {NoPk, Untouched}]]
  /\ pc \in {"idle", "check", "insert", "update", "delete", "return",
             "bulk", "verify_pk", "verify"}
  /\ kid \in 1 .. N + 1
  /\ rc \in {"ok", "dup", "error"}
  /\ old_pk \in Pk \cup {NoPk} /\ new_pk \in Pk \cup {NoPk}
  /\ old_data \in Row \cup {NoRow} /\ new_data \in Row \cup {NoRow}
  /\ bulk \in {"none", "rows", "end"}
  /\ pk_buffer \in Seq(Pk) /\ Len(pk_buffer) <= Batch
  /\ sk_buffer \in [Index -> Seq(IndexKey)] /\ \A k \in Index : Len(sk_buffer[k]) <= Batch

\* Between two calls, a bulk insert counting as one, an entry of an index leads
\* to a row with that key and every row has its entry, as the transaction sees
\* them and hence also in what it commits.
ViewConsistent ==
  pc = "idle" /\ bulk = "none" =>
    \A k \in Index, key \in IndexKey, p \in Pk :
      IndexRead(k, key) = p <=> BaseRead(p) # NoRow /\ key = SecondaryKey(k, p, BaseRead(p))

\* What index_read_map() asserts when it follows an entry: "A secondary index
\* entry always points to a valid primary index record".
EntryPointsToRecord ==
  pc = "idle" =>
    \A k \in Index, key \in IndexKey :
      IndexRead(k, key) # NoPk => BaseRead(IndexRead(k, key)) # NoRow

\* Two rows that cannot both be in the table.
Meets(p, row, q, other) == p = q \/ \E k \in share.unique : row[k] = other[k]

\* The row that a duplicate reported in this state would be about.
Duplicate ==
  IF pc \in {"verify_pk", "verify"}
    THEN \E p, q \in Pk :
           /\ wbase[p] \in Row /\ base[q] # NoRow
           /\ Meets(p, wbase[p], q, base[q])
    ELSE \E q \in Pk :
           /\ q # old_pk \/ new_pk # old_pk
           /\ BaseRead(q) # NoRow
           /\ Meets(new_pk, new_data, q, BaseRead(q))

\* A duplicate is reported for a row that is there: another row than the one
\* updated, or the row itself when its primary key changes, whose unique keys
\* are then still in place.  For a batch, a row of the batch meets a committed
\* one.
DuplicateIsReal == [][rc = "ok" /\ rc' = "dup" => Duplicate]_vars

\* A row written by a bulk insert whose keys are not all checked.
Unchecked(p) ==
  \/ p \in Range(pk_buffer)
  \/ wbase[p] \in Row /\ \E k \in share.unique :
                            SecondaryKey(k, p, wbase[p]) \in Range(sk_buffer[k])

\* A row to be deleted has left the table when the call starts, the rows of a
\* batch enter it when the last of their keys has been checked, and a statement
\* that fails has undone the transaction.
ViewOfRows ==
  IF Failed THEN base
  ELSE [p \in Pk |-> IF pc = "delete" /\ p = old_pk THEN NoRow
                     ELSE IF bulk # "none" /\ Unchecked(p) THEN base[p] ELSE BaseRead(p)]

T == INSTANCE Table WITH unique <- share.unique, rows <- base, work <- ViewOfRows

\* The rows a transaction sees and commits are those of a table with unique
\* keys: uniqueness is decided by the indexes, and holds for the rows.
ImplementsTable == T!Spec

=============================================================================
