--------------------------- MODULE RowIndex_proofs ---------------------------
(***************************************************************************)
(* Proofs about RowIndex, for any number of primary keys, column values,   *)
(* secondary indexes and rows per batch: the indexes lead to the rows and  *)
(* the rows to their entries, a duplicate is reported for a row that is    *)
(* there, and the table is the one of Table (write_row(), update_row(),    *)
(* delete_row() and BulkInsert() in storage/eloq/ha_eloq.cc).              *)
(***************************************************************************)
EXTENDS RowIndex, TLAPS

\* A duplicate that the statement skips leaves the write set as it was if no
\* unique index was written before the one that finds the duplicate, or if the
\* entries that were written can be erased because the transaction has deleted
\* nothing (TxRevert()).  Otherwise it does not, see EntryPointsToRecord.
CleanSkips ==
  share.ignore => share.unique \subseteq {1} \/ share.calls \subseteq {"write_row"}

-----------------------------------------------------------------------------
(* The inductive invariant.                                                *)

\* The arguments of the call in progress.
Arguments ==
  /\ pc \in {"check", "insert", "bulk", "update"} => new_pk \in Pk /\ new_data \in Row
  /\ pc \in {"update", "delete"} => old_pk \in Pk
  /\ pc \in {"check", "insert", "update", "delete"} /\ old_pk # NoPk =>
       old_data = BaseRead(old_pk) /\ old_data \in Row
  /\ pc \in {"check", "insert", "bulk"} => old_pk # new_pk
  /\ pc = "update" => old_pk = new_pk
  /\ pc = "insert" \/ (pc = "check" /\ share.generated) => BaseRead(new_pk) = NoRow
  /\ pc \notin {"idle", "return"} => rc = "ok"

\* The calls of a table whose transactions only insert, and of a bulk insert.
Calls ==
  /\ share.calls \subseteq {"write_row"} =>
       /\ pc \notin {"update", "delete"}
       /\ pc \in {"check", "insert", "bulk"} => old_pk = NoPk
  /\ bulk # "none" =>
       /\ ~ share.ignore /\ ~ share.generated /\ share.calls = {"write_row"}
       /\ pc \in {"idle", "return", "bulk", "verify_pk", "verify"}
  /\ pc \in {"bulk", "verify_pk", "verify"} => bulk # "none"
  /\ pc = "bulk" => bulk = "rows"

\* The committed indexes hold an entry for every committed row, and no others.
StoreIndexed ==
  \A k \in Index, key \in IndexKey, p \in Pk :
    index[k][key] = p <=> base[p] # NoRow /\ key = SecondaryKey(k, p, base[p])

\* Row p as index k has it: a call changes the indexes one by one and the base
\* table last.
Seen(k, p) ==
  IF pc \in {"insert", "update"} /\ k < kid /\ p = new_pk THEN new_data
  ELSE IF pc = "delete" /\ k < kid /\ p = old_pk THEN NoRow
  ELSE BaseRead(p)

ViewIndexed ==
  bulk = "none" /\ ~ Failed =>
    \A k \in Index, key \in IndexKey, p \in Pk :
      IndexRead(k, key) = p <=> Seen(k, p) # NoRow /\ key = SecondaryKey(k, p, Seen(k, p))

\* A key that transactions which only insert have written, base or index.
RowOfTx(k, key, p) == wbase[p] \in Row /\ key = SecondaryKey(k, p, wbase[p])
RowOfCall(k, key, p) ==
  /\ pc \in {"insert", "bulk"} /\ k < kid
  /\ p = new_pk /\ key = SecondaryKey(k, new_pk, new_data)

\* The write set of such a transaction: it deletes nothing, its entries are
\* those of its rows, and what was not checked is in a buffer.
WritesIndexed ==
  share.calls \subseteq {"write_row"} /\ ~ Failed =>
    /\ \A p \in Pk : wbase[p] # NoRow
    /\ \A k \in Index, key \in IndexKey : windex[k][key] # NoPk
    /\ \A k \in Index, key \in IndexKey, p \in Pk :
         windex[k][key] = p <=> RowOfTx(k, key, p) \/ RowOfCall(k, key, p)
    /\ \A p \in Pk : wbase[p] \in Row => p \in Range(pk_buffer) \/ base[p] = NoRow
    /\ \A k \in share.unique, key \in IndexKey :
         windex[k][key] \in Pk => key \in Range(sk_buffer[k]) \/ index[k][key] = NoPk

\* How long the buffers are.
Lengths ==
  /\ bulk = "none" => pk_buffer = << >>
  /\ \A k \in Index : bulk = "none" \/ k \notin share.unique => sk_buffer[k] = << >>
  /\ bulk = "end" /\ pc \in {"idle", "return"} /\ ~ Failed => pk_buffer = << >>
  /\ pc \in {"idle", "return", "bulk"} /\ ~ Failed => Len(pk_buffer) < Batch
  /\ pc \in {"idle", "return", "bulk", "verify_pk"} /\ ~ Failed =>
       \A k \in share.unique :
         Len(sk_buffer[k]) = Len(pk_buffer) + (IF pc = "bulk" /\ k < kid THEN 1 ELSE 0)
  /\ pc = "verify" => pk_buffer = << >> /\ \A k \in Index : k < kid => sk_buffer[k] = << >>

\* What the buffers hold: keys that were written, all the keys of a row.  The
\* last call was a write_row() that did not fail.
Buffered ==
  ~ Failed =>
    /\ pk_buffer # << >> => rc = "ok"
    /\ \A p \in Range(pk_buffer) : wbase[p] \in Row
    /\ \A k \in share.unique : \A key \in Range(sk_buffer[k]) : windex[k][key] \in Pk
    /\ pc = "bulk" =>
         \A k \in share.unique :
           k < kid => SecondaryKey(k, new_pk, new_data) \in Range(sk_buffer[k])
    /\ pc \in {"idle", "return", "bulk", "verify_pk"} =>
         \A p \in Pk, k \in share.unique :
           wbase[p] \in Row =>
             (p \in Range(pk_buffer) <=> SecondaryKey(k, p, wbase[p]) \in Range(sk_buffer[k]))
    /\ pc = "verify" =>
         \A p \in Pk, k, l \in share.unique :
           wbase[p] \in Row /\ k >= kid /\ l >= kid =>
             (SecondaryKey(k, p, wbase[p]) \in Range(sk_buffer[k])
                <=> SecondaryKey(l, p, wbase[p]) \in Range(sk_buffer[l]))

Rest == Arguments /\ Calls /\ StoreIndexed /\ ViewIndexed /\ WritesIndexed /\ Lengths /\ Buffered
IInv == TypeOK /\ CleanSkips /\ Rest

-----------------------------------------------------------------------------
(* Types.                                                                  *)

\* A key is the value of the column and, unless the index is unique, the
\* primary key.
LEMMA KeyType ==
  ASSUME NEW k \in Index, NEW p \in Pk, NEW row \in Row
  PROVE  SecondaryKey(k, p, row) \in IndexKey
BY Zenon DEF SecondaryKey, PackRecord, IndexKey, Row

\* What is appended to a buffer is in it, after what was in it.
LEMMA RangeAppend ==
  ASSUME NEW S, NEW s \in Seq(S), NEW x \in S
  PROVE  /\ Append(s, x) \in Seq(S) /\ Len(Append(s, x)) = Len(s) + 1
         /\ Range(Append(s, x)) = Range(s) \cup {x}
<1>1. Append(s, x) \in Seq(S) /\ Len(Append(s, x)) = Len(s) + 1
  OBVIOUS
<1>2. \A i \in 1 .. Len(s) : Append(s, x)[i] = s[i]
  OBVIOUS
<1>3. Append(s, x)[Len(s) + 1] = x
  OBVIOUS
<1>4. DOMAIN s = 1 .. Len(s) /\ DOMAIN Append(s, x) = 1 .. (Len(s) + 1) /\ Len(s) \in Nat
  OBVIOUS
<1> QED
  BY <1>1, <1>2, <1>3, <1>4 DEF Range

\* An empty buffer holds nothing.
LEMMA RangeEmpty == Range(<< >>) = {}
BY DEF Range

\* The types hold initially.
LEMMA TypeInit == Init => TypeOK
BY TableAssumption DEF Init, TypeOK, Index

\* The calls keep the types.
LEMMA TypeCalls ==
  ASSUME TypeOK,
         \/ \E p \in Pk, new \in Row : write_row(p, new)
         \/ \E p, q \in Pk, new \in Row : update_row(p, q, new)
         \/ \E p \in Pk : delete_row(p)
  PROVE  TypeOK'
<1>1. \A p \in Pk : BaseRead(p) \in Row \cup {NoRow}
  BY Zenon DEF TypeOK, BaseRead, Over
<1>2. ASSUME NEW p \in Pk, NEW new \in Row, write_row(p, new)  PROVE TypeOK'
  BY <1>2, TableAssumption DEF write_row, Enter, TypeOK, store, wset, buffers
<1>3. ASSUME NEW p \in Pk, NEW q \in Pk, NEW new \in Row, update_row(p, q, new)  PROVE TypeOK'
  BY <1>1, <1>3, TableAssumption DEF update_row, Enter, TypeOK, store, wset, buffers
<1>4. ASSUME NEW p \in Pk, delete_row(p)  PROVE TypeOK'
  BY <1>1, <1>4, TableAssumption DEF delete_row, Enter, TypeOK, store, wset, buffers
<1> QED
  BY <1>2, <1>3, <1>4, Zenon

\* Insert() keeps the types.
LEMMA TypeInsert ==
  ASSUME TypeOK, Arguments,
         InsertCheck \/ InsertIndex \/ InsertDuplicate \/ InsertBase
  PROVE  TypeOK'
<1> USE TableAssumption DEF Return, ReturnCode, NextIndex, ToIndex, store, wset, args, buffers
<1>1. CASE InsertCheck
  BY <1>1 DEF InsertCheck, TypeOK
<1>2. CASE InsertIndex
  <2>1. NewKey \in IndexKey
    BY <1>2, KeyType, Zenon DEF InsertIndex, NewKey, Arguments
  <2>2. windex' \in [Index -> [IndexKey -> Pk \cup {NoPk, Untouched}]]
    BY <1>2, <2>1, Zenon DEF InsertIndex, TxUpsert, TypeOK, Arguments
  <2> QED
    BY <1>2, <2>2 DEF InsertIndex, TxUpsert, TypeOK, Index
<1>3. CASE InsertDuplicate
  BY <1>3, Zenon DEF InsertDuplicate, TypeOK
<1>4. CASE InsertBase
  BY <1>4 DEF InsertBase, TxUpsertBase, TypeOK, Arguments
<1> QED
  BY <1>1, <1>2, <1>3, <1>4, Zenon

\* Update() and Delete() keep the types.
LEMMA TypeChange ==
  ASSUME TypeOK, Arguments,
         \/ UpdateSame \/ UpdateIndex \/ UpdateDuplicate \/ UpdateBase
         \/ DeleteIndex \/ DeleteBase \/ TxError
  PROVE  TypeOK'
<1> USE TableAssumption DEF Return, ReturnCode, NextIndex, ToIndex, store, wset, args, buffers
<1>1. CASE UpdateSame
  BY <1>1 DEF UpdateSame, TypeOK, Index
<1>2. CASE UpdateIndex
  <2>1. windex' \in [Index -> [IndexKey -> Pk \cup {NoPk, Untouched}]]
    BY <1>2, Zenon DEF UpdateIndex, TypeOK, Arguments
  <2>2. kid \in Index /\ kid' = kid + 1 /\ UNCHANGED << share, store, wbase, pc, args, buffers, rc >>
    BY <1>2, Zenon DEF UpdateIndex
  <2> QED
    BY <2>1, <2>2 DEF TypeOK, Index
<1>3. CASE UpdateDuplicate
  BY <1>3, Zenon DEF UpdateDuplicate, TypeOK
<1>4. CASE UpdateBase
  BY <1>4, Zenon DEF UpdateBase, TxUpsertBase, TypeOK, Arguments
<1>5. CASE DeleteIndex
  <2>1. windex' \in [Index -> [IndexKey -> Pk \cup {NoPk, Untouched}]]
    BY <1>5, Zenon DEF DeleteIndex, TxUpsert, TypeOK
  <2> QED
    BY <1>5, <2>1 DEF DeleteIndex, TxUpsert, TypeOK, Index
<1>6. CASE DeleteBase
  BY <1>6, Zenon DEF DeleteBase, TxUpsertBase, TypeOK, Arguments
<1>7. CASE TxError
  BY <1>7, Zenon DEF TxError, TypeOK
<1> QED
  BY <1>1, <1>2, <1>3, <1>4, <1>5, <1>6, <1>7, Zenon

\* Putting a key into its buffer keeps the types while there is room.
LEMMA TypeBuffer ==
  ASSUME TypeOK, Arguments, Lengths, pc = "bulk", Buffer
  PROVE  /\ pk_buffer' \in Seq(Pk) /\ Len(pk_buffer') <= Batch
         /\ sk_buffer' \in [Index -> Seq(IndexKey)]
         /\ \A k \in Index : Len(sk_buffer'[k]) <= Batch
<1>1. ~ Failed /\ new_pk \in Pk /\ new_data \in Row
  BY Zenon DEF Failed, Arguments
<1>2. Len(pk_buffer) + 1 <= Batch
  BY <1>1, TableAssumption DEF Lengths, TypeOK
<1>3. pk_buffer' \in Seq(Pk) /\ Len(pk_buffer') <= Batch
  BY <1>1, <1>2, RangeAppend, Zenon DEF Buffer, TypeOK
<1>4. CASE kid \in share.unique
  <2>1. kid \in Index
    BY <1>4, TableAssumption, Zenon DEF TypeOK
  <2>2. NewKey \in IndexKey
    BY <1>1, <2>1, KeyType, Zenon DEF NewKey
  <2>3. sk_buffer' = [sk_buffer EXCEPT ![kid] = Append(sk_buffer[kid], NewKey)]
    BY <1>4, Zenon DEF Buffer
  <2>4. Append(sk_buffer[kid], NewKey) \in Seq(IndexKey)
    BY <2>1, <2>2, RangeAppend, Zenon DEF TypeOK
  <2>5. Len(Append(sk_buffer[kid], NewKey)) <= Batch
    <3>1. Len(sk_buffer[kid]) = Len(pk_buffer)
      BY <1>1, <1>4, <2>1, SMTT(60) DEF Lengths, TypeOK, Index
    <3> QED
      BY <1>2, <2>1, <2>2, <3>1, RangeAppend DEF TypeOK
  <2> QED
    BY <1>3, <2>1, <2>3, <2>4, <2>5, Zenon DEF TypeOK
<1>5. CASE kid \notin share.unique
  BY <1>3, <1>5, Zenon DEF Buffer, TypeOK
<1> QED
  BY <1>4, <1>5, Zenon

\* A bulk insert keeps the types.
LEMMA TypeBulk ==
  ASSUME TypeOK, Arguments, Lengths,
         \/ start_bulk_insert \/ BulkIndex \/ BulkBase \/ BulkDuplicate \/ BulkError
         \/ CheckBase \/ CheckIndex \/ CheckDone \/ end_bulk_insert \/ EndBulk
  PROVE  TypeOK'
<1> USE TableAssumption DEF Return, ReturnCode, ToIndex, store, wset, args, buffers
<1>1. CASE start_bulk_insert
  BY <1>1, Zenon DEF start_bulk_insert, TypeOK
<1>2. CASE BulkIndex
  <2>1. NewKey \in IndexKey
    BY <1>2, KeyType, Zenon DEF BulkIndex, NewKey, Arguments
  <2>2. windex' \in [Index -> [IndexKey -> Pk \cup {NoPk, Untouched}]]
    BY <1>2, <2>1, Zenon DEF BulkIndex, TxUpsert, TypeOK, Arguments
  <2>3. bulk' = bulk
    BY <1>2, Zenon DEF BulkIndex, Buffer
  <2> QED
    BY <1>2, <2>2, <2>3, TypeBuffer DEF BulkIndex, TxUpsert, TypeOK, Index
<1>3. CASE BulkBase
  <2>1. bulk' = bulk /\ wbase' \in [Pk -> Row \cup {NoRow, Untouched}] /\ UNCHANGED windex
    BY <1>3, Zenon DEF BulkBase, Buffer, TxUpsertBase, TypeOK, Arguments
  <2>2. /\ pc' \in {"verify_pk", "return"} /\ kid' \in 1 .. N + 1 /\ rc' \in {"ok", "dup", "error"}
        /\ UNCHANGED << share, store, args >>
    BY <1>3 DEF BulkBase, TypeOK
  <2> QED
    BY <1>3, <2>1, <2>2, TypeBuffer, Zenon DEF BulkBase, TypeOK
<1>4. CASE BulkDuplicate
  BY <1>4 DEF BulkDuplicate, TypeOK
<1>5. CASE BulkError
  <2>1. bulk' = bulk
    BY <1>5, Zenon DEF BulkError, Buffer
  <2> QED
    BY <1>5, <2>1, TypeBuffer, Zenon DEF BulkError, TypeOK
<1>6. CASE CheckBase
  BY <1>6 DEF CheckBase, TypeOK
<1>7. CASE CheckIndex
  <2>1. kid \in Index
    BY <1>7, Zenon DEF CheckIndex, TypeOK
  <2>2. sk_buffer' \in [Index -> Seq(IndexKey)] /\ \A k \in Index : Len(sk_buffer'[k]) <= Batch
    BY <1>7 DEF CheckIndex, TypeOK
  <2>3. kid' \in 1 .. N + 1 /\ pc' \in {"return", "verify"} /\ rc' \in {"ok", "dup", "error"}
    BY <1>7, <2>1, SMTT(60) DEF CheckIndex, TypeOK, Index
  <2> QED
    BY <1>7, <2>2, <2>3, Zenon DEF CheckIndex, TypeOK
<1>8. CASE CheckDone
  BY <1>8, Zenon DEF CheckDone, TypeOK
<1>9. CASE end_bulk_insert
  BY <1>9, Zenon DEF end_bulk_insert, TypeOK
<1>10. CASE EndBulk
  BY <1>10 DEF EndBulk, TypeOK
<1> QED
  BY <1>1, <1>2, <1>3, <1>4, <1>5, <1>6, <1>7, <1>8, <1>9, <1>10, Zenon

\* The end of a row, a statement or a transaction keeps the types.
LEMMA TypeEnd ==
  ASSUME TypeOK, Continue \/ eloq_rollback \/ eloq_commit
  PROVE  TypeOK'
<1> USE TableAssumption DEF store, wset, args, buffers
<1>1. CASE Continue
  BY <1>1, Zenon DEF Continue, TypeOK
<1>2. CASE eloq_rollback
  BY <1>2, Zenon DEF eloq_rollback, EmptyWriteSet, TypeOK
<1>3. CASE eloq_commit
  <2>1. base' \in [Pk -> Row \cup {NoRow}]
    BY <1>3, Zenon DEF eloq_commit, BaseRead, Over, TypeOK
  <2>2. index' \in [Index -> [IndexKey -> Pk \cup {NoPk}]]
    BY <1>3 DEF eloq_commit, IndexRead, Over, TypeOK
  <2>3. wbase' \in [Pk -> Row \cup {NoRow, Untouched}]
    BY <1>3, Zenon DEF eloq_commit, EmptyWriteSet
  <2>4. windex' \in [Index -> [IndexKey -> Pk \cup {NoPk, Untouched}]]
    BY <1>3, Zenon DEF eloq_commit, EmptyWriteSet
  <2> QED
    BY <1>3, <2>1, <2>2, <2>3, <2>4, Zenon DEF eloq_commit, TypeOK
<1> QED
  BY <1>1, <1>2, <1>3, Zenon

\* Every step keeps the types.
LEMMA TypeNext == IInv /\ [Next]_vars => TypeOK'
<1> SUFFICES ASSUME IInv, [Next]_vars  PROVE TypeOK'
  BY Zenon
<1>1. TypeOK /\ Arguments /\ Lengths
  BY Zenon DEF IInv, Rest
<1>2. CASE UNCHANGED vars
  BY <1>1, <1>2 DEF vars, store, wset, args, buffers, TypeOK
<1> QED
  BY <1>1, <1>2, TypeCalls, TypeInsert, TypeChange, TypeBulk, TypeEnd, Zenon DEF Next

-----------------------------------------------------------------------------
(* Keys and views.                                                         *)

\* When two rows have the same key.
LEMMA SameKey ==
  ASSUME NEW k \in Index, NEW p, NEW q, NEW r, NEW s
  PROVE  SecondaryKey(k, p, r) = SecondaryKey(k, q, s)
           <=> r[k] = s[k] /\ (k \in share.unique \/ p = q)
BY Zenon DEF SecondaryKey, PackRecord

\* The committed table is indexed as long as it does not change.
LEMMA StoreKept ==
  ASSUME StoreIndexed, UNCHANGED << share, store >>
  PROVE  StoreIndexed'
BY DEF StoreIndexed, SecondaryKey, PackRecord, store

\* A row that the transaction sees is a row.
LEMMA ReadType ==
  ASSUME TypeOK
  PROVE  /\ \A p \in Pk : BaseRead(p) \in Row \cup {NoRow}
         /\ \A k \in Index, key \in IndexKey : IndexRead(k, key) \in Pk \cup {NoPk}
BY TableAssumption DEF TypeOK, BaseRead, IndexRead, Over

\* A call that starts has written nothing.
LEMMA CallsKeep ==
  ASSUME IInv,
         \/ \E p \in Pk, new \in Row : write_row(p, new)
         \/ \E p, q \in Pk, new \in Row : update_row(p, q, new)
         \/ \E p \in Pk : delete_row(p)
  PROVE  Rest'
<1> USE DEF store, wset, buffers
<1>1. /\ UNCHANGED << share, store, wset, buffers >> /\ kid' = 1 /\ rc' = "ok" /\ pc = "idle"
      /\ bulk # "end"
  BY Zenon DEF write_row, update_row, delete_row, Enter
<1>2. pc' \in {"check", "bulk", "update", "delete"}
  BY Zenon DEF write_row, update_row, delete_row, Enter
<1>3. \A p \in Pk : BaseRead(p)' = BaseRead(p)
  BY <1>1, Zenon DEF BaseRead
<1>4. ~ Failed /\ ~ Failed'
  BY <1>1, <1>2, Zenon DEF Failed
<1>5. TypeOK /\ Rest
  BY Zenon DEF IInv
<1>6. Arguments' /\ Calls'
  <2>1. ASSUME NEW p \in Pk, NEW new \in Row, write_row(p, new)  PROVE Arguments' /\ Calls'
    <3>1. bulk \in {"none", "rows"}
      BY <1>1, <1>5, Zenon DEF TypeOK
    <3>2. /\ pc' = (IF bulk = "rows" THEN "bulk" ELSE "check") /\ old_pk' = NoPk /\ new_pk' = p
          /\ new_data' = new /\ (share.generated => BaseRead(p) = NoRow)
      BY <2>1, Zenon DEF write_row, Enter
    <3>3. BaseRead(new_pk)' = BaseRead(p)
      BY <1>1, <3>2, Zenon DEF BaseRead
    <3>4. Arguments'
      BY <1>1, <3>1, <3>2, <3>3, TableAssumption, Zenon DEF Arguments
    <3> QED
      BY <1>1, <1>5, <3>1, <3>2, <3>4, Zenon DEF Calls, Rest
  <2>2. ASSUME NEW p \in Pk, NEW q \in Pk, NEW new \in Row, update_row(p, q, new)
        PROVE Arguments' /\ Calls'
    BY <1>1, <1>3, <1>5, <2>2, ReadType, TableAssumption, SMTT(60) DEF update_row, Enter, Arguments, Calls,
       Rest
  <2>3. ASSUME NEW p \in Pk, delete_row(p)  PROVE Arguments' /\ Calls'
    BY <1>1, <1>3, <1>5, <2>3, ReadType, TableAssumption DEF delete_row, Enter, Arguments, Calls, Rest
  <2> QED
    BY <2>1, <2>2, <2>3, Zenon
<1>7. StoreIndexed'
  BY <1>1, <1>5, StoreKept, Zenon DEF Rest
<1>8. ViewIndexed'
  BY <1>1, <1>2, <1>4, <1>5
  DEF Rest, ViewIndexed, Seen, BaseRead, IndexRead, SecondaryKey, PackRecord, Index
<1>9. WritesIndexed'
  BY <1>1, <1>2, <1>4, <1>5
  DEF Rest, WritesIndexed, RowOfTx, RowOfCall, SecondaryKey, PackRecord, Index
<1>10. Lengths'
  BY <1>1, <1>2, <1>4, <1>5, <1>6, TableAssumption, SMTT(60) DEF Rest, Lengths, TypeOK, Index, Calls
<1>11. Buffered'
  BY <1>1, <1>2, <1>4, <1>5, <1>6, TableAssumption
  DEF Rest, Buffered, SecondaryKey, PackRecord, TypeOK, Index, Calls
<1> QED
  BY <1>6, <1>7, <1>8, <1>9, <1>10, <1>11, Zenon DEF Rest

-----------------------------------------------------------------------------
(* Insert().                                                               *)

\* A statement that fails leaves its write set to the rollback: nothing is
\* claimed of it, and the committed table is as before.
LEMMA FailureKeeps ==
  ASSUME IInv, Failed', UNCHANGED << share, store >>,
         bulk' # "none" => bulk # "none",
         bulk' = "none" => pk_buffer' = << >>,
         \A k \in Index : bulk' = "none" \/ k \notin share.unique => sk_buffer'[k] = << >>
  PROVE  Rest'
<1>1. pc' = "return" /\ Failed'
  BY Zenon DEF Failed
<1>2. Arguments'
  BY <1>1, Zenon DEF Arguments
<1>3. Calls'
  BY <1>1, Zenon DEF Calls, IInv, Rest
<1>4. StoreIndexed'
  BY StoreKept, Zenon DEF IInv, Rest
<1>5. ViewIndexed' /\ WritesIndexed' /\ Buffered'
  BY <1>1, Zenon DEF ViewIndexed, WritesIndexed, Buffered
<1>6. Lengths'
  BY <1>1, Zenon DEF Lengths, IInv, Rest
<1> QED
  BY <1>2, <1>3, <1>4, <1>5, <1>6, Zenon DEF Rest

\* Between the calls that change a row the indexes have the base table's rows.
LEMMA SeenView ==
  ASSUME Rest, bulk = "none", ~ Failed, \A k \in Index, p \in Pk : Seen(k, p) = BaseRead(p)
  PROVE  \A k \in Index, key \in IndexKey, p \in Pk :
           IndexRead(k, key) = p <=> BaseRead(p) # NoRow /\ key = SecondaryKey(k, p, BaseRead(p))
<1> SUFFICES ASSUME NEW k \in Index, NEW key \in IndexKey, NEW p \in Pk
    PROVE IndexRead(k, key) = p <=> BaseRead(p) # NoRow /\ key = SecondaryKey(k, p, BaseRead(p))
  BY Zenon
<1>1. Seen(k, p) = BaseRead(p)
  BY Zenon
<1>2. ViewIndexed
  BY Zenon DEF Rest
<1>3. IndexRead(k, key) = p <=> Seen(k, p) # NoRow /\ key = SecondaryKey(k, p, Seen(k, p))
  BY <1>2, Zenon DEF ViewIndexed
<1> QED
  BY <1>1, <1>3, Zenon

\* A step that returns to the statement and has written nothing since its
\* row was complete.
LEMMA ReturnKeeps ==
  ASSUME IInv, UNCHANGED << share, store, wset, buffers >>,
         pc' = "return", ~ Failed',
         \A k \in Index, p \in Pk : Seen(k, p) = BaseRead(p),
         \A k \in Index, key \in IndexKey, p \in Pk : ~ RowOfCall(k, key, p),
         pc \in {"check", "insert", "update", "delete"}
  PROVE  Rest'
<1>1. ~ Failed /\ bulk = "none" /\ bulk' = "none" /\ Rest /\ TypeOK
  BY Zenon DEF Failed, IInv, Rest, Calls, buffers
<1>2. Arguments'
  BY Zenon DEF Arguments
<1>3. Calls'
  BY <1>1, Zenon DEF Calls, Rest
<1>4. StoreIndexed'
  BY <1>1, StoreKept, Zenon DEF Rest
<1>5. ViewIndexed'
  <2>1. \A k \in Index, p \in Pk : Seen(k, p)' = BaseRead(p)
    BY Zenon DEF Seen, BaseRead, wset, store
  <2>2. \A k \in Index, key \in IndexKey : IndexRead(k, key)' = IndexRead(k, key)
    BY Zenon DEF IndexRead, wset, store
  <2>3. \A k \in Index, key \in IndexKey, p \in Pk :
          IndexRead(k, key) = p <=> BaseRead(p) # NoRow /\ key = SecondaryKey(k, p, BaseRead(p))
    BY <1>1, SeenView, ZenonT(40)
  <2> QED
    BY <2>1, <2>2, <2>3 DEF ViewIndexed, SecondaryKey, PackRecord
<1>6. WritesIndexed'
  BY <1>1 DEF Rest, WritesIndexed, RowOfTx, RowOfCall, SecondaryKey, PackRecord, wset, store, buffers
<1>7. Lengths'
  BY <1>1, TableAssumption, SMTT(60) DEF Rest, Lengths, buffers, TypeOK
<1>8. Buffered'
  BY <1>1, RangeEmpty, TableAssumption DEF Rest, Lengths, Buffered, buffers, TypeOK
<1> QED
  BY <1>2, <1>3, <1>4, <1>5, <1>6, <1>7, <1>8, Zenon DEF Rest

\* No key is buffered by a call outside a bulk insert.
LEMMA NoBuffers ==
  ASSUME IInv, pc \in {"check", "insert", "update", "delete"}, UNCHANGED << share, buffers >>,
         pc' \in {"insert", "update", "delete", "return"}
  PROVE  /\ bulk = "none" /\ bulk' = "none" /\ Lengths' /\ Buffered'
         /\ pk_buffer = << >> /\ Range(pk_buffer) = {} /\ Range(pk_buffer') = {}
         /\ \A k \in Index : /\ sk_buffer[k] = << >>
                             /\ Range(sk_buffer[k]) = {} /\ Range(sk_buffer'[k]) = {}
         /\ share.unique \subseteq Index
<1>1. bulk = "none" /\ bulk' = "none" /\ Rest /\ TypeOK /\ share.unique \subseteq Index
  BY TableAssumption, Zenon DEF IInv, Rest, Calls, buffers, TypeOK
<1>2. pk_buffer = << >> /\ \A k \in Index : sk_buffer[k] = << >>
  BY <1>1, Zenon DEF Rest, Lengths
<1>3. pk_buffer' = << >> /\ \A k \in Index : sk_buffer'[k] = << >>
  BY <1>2, Zenon DEF buffers
<1>4. Lengths'
  BY <1>1, <1>3, TableAssumption DEF Lengths, buffers
<1>5. Buffered'
  BY <1>1, <1>3, RangeEmpty, TableAssumption, Zenon DEF Buffered, buffers
<1> QED
  BY <1>1, <1>2, <1>3, <1>4, <1>5, RangeEmpty, Zenon

\* Insert() looks whether the primary key is there.
LEMMA InsertCheckKeeps == ASSUME IInv, InsertCheck PROVE Rest'
<1> USE DEF store, wset, args, buffers
<1>1. pc = "check" /\ UNCHANGED << share, store, wset, args, buffers >>
  BY Zenon DEF InsertCheck, Return, ReturnCode, ToIndex
<1>2. TypeOK /\ Rest /\ ~ Failed
  BY <1>1, Zenon DEF IInv, Failed
<1>3. \A k \in Index, p \in Pk : Seen(k, p) = BaseRead(p)
  BY <1>1, Zenon DEF Seen
<1>4. CASE pc' = "return"
  <2>1. bulk = "none" /\ pk_buffer = << >> /\ \A k \in Index : sk_buffer[k] = << >>
    BY <1>1, <1>4, NoBuffers, Zenon
  <2>2. CASE Failed'
    BY <1>1, <2>1, <2>2, FailureKeeps, Zenon
  <2>3. CASE ~ Failed'
    BY <1>1, <1>3, <1>4, <2>3, ReturnKeeps, Zenon DEF RowOfCall
  <2> QED
    BY <2>2, <2>3, Zenon
<1>5. CASE pc' # "return"
  <2>1. pc' = "insert" /\ kid' = 1 /\ rc' = rc /\ (share.generated \/ BaseRead(new_pk) = NoRow)
    BY <1>5, Zenon DEF InsertCheck, Return, ReturnCode, ToIndex
  <2>2. bulk = "none" /\ bulk' = "none" /\ Lengths' /\ Buffered' /\ ~ Failed'
    BY <1>1, <2>1, NoBuffers, Zenon DEF Failed
  <2>3. Arguments'
    BY <1>1, <1>2, <2>1, Zenon DEF Rest, Arguments, BaseRead
  <2>4. Calls'
    BY <1>1, <1>2, <2>1, <2>2, Zenon DEF Rest, Calls
  <2>5. StoreIndexed'
    BY <1>1, <1>2, StoreKept, Zenon DEF Rest
  <2>6. ViewIndexed'
    <3>1. \A k \in Index, p \in Pk : Seen(k, p)' = BaseRead(p)
      BY <1>1, <2>1, TableAssumption DEF Seen, BaseRead, Index
    <3>2. \A k \in Index, key \in IndexKey : IndexRead(k, key)' = IndexRead(k, key)
      BY <1>1, Zenon DEF IndexRead
    <3>3. \A k \in Index, key \in IndexKey, p \in Pk :
            IndexRead(k, key) = p <=> BaseRead(p) # NoRow /\ key = SecondaryKey(k, p, BaseRead(p))
      BY <1>2, <1>3, <2>2, SeenView, Zenon
    <3> QED
      BY <1>1, <3>1, <3>2, <3>3 DEF ViewIndexed, SecondaryKey, PackRecord
  <2>7. WritesIndexed'
    <3>1. \A k \in Index : ~ (k < kid')
      BY <2>1 DEF Index
    <3> QED
      BY <1>1, <1>2, <2>1, <3>1 DEF Rest, WritesIndexed, RowOfTx, RowOfCall, SecondaryKey, PackRecord
  <2> QED
    BY <2>2, <2>3, <2>4, <2>5, <2>6, <2>7, Zenon DEF Rest
<1> QED
  BY <1>4, <1>5, Zenon

\* What a call knows of the index it has come to: no other row has the new key.
LEMMA FreshKey ==
  ASSUME IInv, pc \in {"insert", "update"}, kid \in Index, ~ Taken
  PROVE  /\ NewKey \in IndexKey
         /\ \A p \in Pk : p # new_pk /\ BaseRead(p) # NoRow => NewKey # SecondaryKey(kid, p, BaseRead(p))
<1>1. /\ TypeOK /\ Rest /\ bulk = "none" /\ ~ Failed
      /\ new_pk \in Pk /\ new_data \in Row
  BY Zenon DEF IInv, Rest, Calls, Arguments, Failed
<1>2. NewKey \in IndexKey
  BY <1>1, KeyType, Zenon DEF NewKey
<1>3. \A p \in Pk : Seen(kid, p) = BaseRead(p)
  BY <1>1 DEF Seen, TypeOK, Index
<1>4. \A key \in IndexKey, p \in Pk :
        IndexRead(kid, key) = p <=> BaseRead(p) # NoRow /\ key = SecondaryKey(kid, p, BaseRead(p))
  BY <1>1, <1>3 DEF Rest, ViewIndexed
<1>5. ASSUME NEW p \in Pk, p # new_pk, BaseRead(p) # NoRow, NewKey = SecondaryKey(kid, p, BaseRead(p))
      PROVE  FALSE
  <2>1. IndexRead(kid, NewKey) = p
    BY <1>1, <1>2, <1>4, <1>5, Zenon
  <2>2. kid \notin share.unique
    BY <2>1, TableAssumption, Zenon DEF Taken
  <2> QED
    BY <1>5, <2>2, SameKey DEF NewKey
<1> QED
  BY <1>2, <1>5, Zenon

\* Insert() writes the entry of one index.
LEMMA InsertIndexKeeps == ASSUME IInv, InsertIndex PROVE Rest'
<1> USE DEF store, wset, args, buffers
<1>1. /\ pc = "insert" /\ kid \in Index /\ ~ Taken /\ kid' = kid + 1 /\ pc' = "insert"
      /\ UNCHANGED << share, store, args, buffers, rc, wbase >>
      /\ windex' = [windex EXCEPT ![kid][NewKey] = new_pk]
  BY Zenon DEF InsertIndex, TxUpsert, NextIndex, ToIndex
<1>2. /\ TypeOK /\ Rest /\ ~ Failed /\ ~ Failed'
      /\ new_pk \in Pk /\ new_data \in Row /\ BaseRead(new_pk) = NoRow
  BY <1>1, Zenon DEF IInv, Failed, Rest, Arguments
<1>3. /\ bulk = "none" /\ bulk' = "none" /\ Lengths' /\ Buffered' /\ share.unique \subseteq Index
      /\ \A k \in Index : Range(sk_buffer[k]) = {}
      /\ Range(pk_buffer) = {}
  BY <1>1, NoBuffers, Zenon
<1>4. NewKey \in IndexKey /\ kid \in Nat
  BY <1>1, FreshKey DEF Index
<1>5. /\ \A k \in Index, key \in IndexKey :
           windex'[k][key] = IF k = kid /\ key = NewKey THEN new_pk ELSE windex[k][key]
  BY <1>1, <1>2, <1>4, Zenon DEF TypeOK
<1>6. Arguments'
  BY <1>1, <1>2, Zenon DEF Rest, Arguments, BaseRead
<1>7. Calls'
  BY <1>1, <1>2, <1>3, Zenon DEF Rest, Calls
<1>8. StoreIndexed'
  BY <1>1, <1>2, StoreKept, Zenon DEF Rest
<1>9. ViewIndexed'
  <2>1. SUFFICES ASSUME NEW k \in Index, NEW key \in IndexKey, NEW p \in Pk
        PROVE (IndexRead(k, key) = p <=> Seen(k, p) # NoRow /\ key = SecondaryKey(k, p, Seen(k, p)))'
    BY Zenon DEF ViewIndexed
  <2>2. IndexRead(k, key) = p <=> Seen(k, p) # NoRow /\ key = SecondaryKey(k, p, Seen(k, p))
    BY <1>2, <1>3, Zenon DEF Rest, ViewIndexed
  <2>3. BaseRead(p)' = BaseRead(p)
    BY <1>1, Zenon DEF BaseRead
  <2>4. Seen(k, p) = IF k < kid /\ p = new_pk THEN new_data ELSE BaseRead(p)
    BY <1>1, Zenon DEF Seen
  <2>5. Seen(k, p)' = IF k < kid + 1 /\ p = new_pk THEN new_data ELSE BaseRead(p)
    BY <1>1, <2>3, Zenon DEF Seen
  <2>6. \A r : SecondaryKey(k, p, r)' = SecondaryKey(k, p, r)
    BY <1>1, Zenon DEF SecondaryKey, PackRecord
  <2>7. CASE k # kid
    <3>1. IndexRead(k, key)' = IndexRead(k, key)
      BY <1>1, <1>5, <2>7, ZenonT(40) DEF IndexRead
    <3>2. Seen(k, p)' = Seen(k, p)
      BY <1>4, <2>4, <2>5, <2>7 DEF Index
    <3> QED
      BY <2>2, <2>6, <3>1, <3>2, Zenon DEF SecondaryKey, PackRecord
  <2>8. CASE k = kid /\ key = NewKey
    <3>1. IndexRead(k, key)' = new_pk
      BY <1>1, <1>2, <1>5, <2>8, TableAssumption, Zenon DEF IndexRead, Over
    <3>2. CASE p = new_pk
      <4>1. Seen(k, p)' = new_data
        BY <1>4, <2>5, <2>8, <3>2
      <4>2. SecondaryKey(k, p, Seen(k, p))' = NewKey
        BY <1>1, <2>8, <3>2, <4>1, Zenon DEF SecondaryKey, PackRecord, NewKey
      <4> QED
        BY <1>2, <2>8, <3>1, <3>2, <4>1, <4>2, TableAssumption, Zenon
    <3>3. CASE p # new_pk
      <4>1. Seen(k, p)' = BaseRead(p)
        BY <2>5, <3>3, Zenon
      <4>2. SecondaryKey(k, p, Seen(k, p))' = SecondaryKey(k, p, BaseRead(p))
        BY <1>1, <4>1, Zenon DEF SecondaryKey, PackRecord
      <4> QED
        BY <1>1, <2>8, <3>1, <3>3, <4>1, <4>2, FreshKey, Zenon
    <3> QED
      BY <3>2, <3>3, Zenon
  <2>9. CASE k = kid /\ key # NewKey
    <3>1. IndexRead(k, key)' = IndexRead(k, key)
      BY <1>1, <1>5, <2>9, ZenonT(40) DEF IndexRead
    <3>2. CASE p = new_pk
      <4>1. Seen(k, p)' = new_data /\ Seen(k, p) = NoRow
        BY <1>2, <1>4, <2>4, <2>5, <2>9, <3>2
      <4>2. SecondaryKey(k, p, Seen(k, p))' = NewKey
        BY <1>1, <2>9, <3>2, <4>1, Zenon DEF SecondaryKey, PackRecord, NewKey
      <4> QED
        BY <2>2, <2>9, <3>1, <4>1, <4>2, Zenon
    <3>3. CASE p # new_pk
      <4>1. Seen(k, p)' = BaseRead(p) /\ Seen(k, p) = BaseRead(p)
        BY <2>4, <2>5, <3>3, Zenon
      <4>2. SecondaryKey(k, p, Seen(k, p))' = SecondaryKey(k, p, BaseRead(p))
        BY <1>1, <4>1, Zenon DEF SecondaryKey, PackRecord
      <4> QED
        BY <2>2, <3>1, <4>1, <4>2, Zenon
    <3> QED
      BY <3>2, <3>3, Zenon
  <2> QED
    BY <2>7, <2>8, <2>9, Zenon
<1>10. WritesIndexed'
  <2> SUFFICES ASSUME share.calls \subseteq {"write_row"}  PROVE WritesIndexed'
    BY <1>1, Zenon DEF WritesIndexed
  <2>1. /\ \A p \in Pk : wbase[p] # NoRow
        /\ \A k \in Index, key \in IndexKey : windex[k][key] # NoPk
        /\ \A k \in Index, key \in IndexKey, p \in Pk :
             windex[k][key] = p <=> RowOfTx(k, key, p) \/ RowOfCall(k, key, p)
        /\ \A p \in Pk : wbase[p] \in Row => base[p] = NoRow
        /\ \A k \in share.unique, key \in IndexKey : windex[k][key] \in Pk => index[k][key] = NoPk
    BY <1>2, <1>3, Zenon DEF Rest, WritesIndexed
  <2>2. \A k \in Index, key \in IndexKey : windex'[k][key] # NoPk
    BY <1>2, <1>5, <2>1, TableAssumption
  <2>3. ASSUME NEW k \in Index, NEW key \in IndexKey, NEW p \in Pk
        PROVE  windex'[k][key] = p <=> RowOfTx(k, key, p)' \/ RowOfCall(k, key, p)'
    <3>1. RowOfTx(k, key, p)' <=> RowOfTx(k, key, p)
      BY <1>1, Zenon DEF RowOfTx, SecondaryKey, PackRecord
    <3>2. RowOfCall(k, key, p)' <=> k < kid + 1 /\ p = new_pk /\ key = SecondaryKey(k, new_pk, new_data)
      BY <1>1, Zenon DEF RowOfCall, SecondaryKey, PackRecord
    <3>3. RowOfCall(k, key, p) <=> k < kid /\ p = new_pk /\ key = SecondaryKey(k, new_pk, new_data)
      BY <1>1, Zenon DEF RowOfCall
    <3>4. windex[k][key] = p <=> RowOfTx(k, key, p) \/ RowOfCall(k, key, p)
      BY <2>1, Zenon
    <3>5. CASE k # kid
      BY <1>4, <1>5, <3>1, <3>2, <3>3, <3>4, <3>5 DEF Index
    <3>6. CASE k = kid /\ key # NewKey
      BY <1>4, <1>5, <3>1, <3>2, <3>3, <3>4, <3>6, Zenon DEF NewKey
    <3>7. CASE k = kid /\ key = NewKey
      <4>1. RowOfTx(k, key, p) => BaseRead(p) = wbase[p] /\ BaseRead(p) # NoRow
        BY <2>1, TableAssumption DEF RowOfTx, BaseRead, Over
      <4>2. ~ RowOfTx(k, key, p)
        BY <1>1, <1>2, <3>7, <4>1, FreshKey, Zenon DEF RowOfTx
      <4> QED
        BY <1>4, <1>5, <3>1, <3>2, <3>7, <4>2, SMTT(60) DEF NewKey
    <3> QED
      BY <3>5, <3>6, <3>7, Zenon
  <2>4. ASSUME NEW k \in share.unique, NEW key \in IndexKey, windex'[k][key] \in Pk
        PROVE  index[k][key] = NoPk
    <3>1. CASE k = kid /\ key = NewKey
      BY <1>1, <1>2, <1>3, <1>4, <2>1, <3>1 DEF Taken, IndexRead, Over
    <3>2. CASE ~ (k = kid /\ key = NewKey)
      BY <1>3, <1>5, <2>1, <2>4, <3>2, Zenon
    <3> QED
      BY <3>1, <3>2, Zenon
  <2> QED
    BY <1>1, <2>1, <2>2, <2>3, <2>4, ZenonT(40) DEF WritesIndexed
<1> QED
  BY <1>3, <1>6, <1>7, <1>8, <1>9, <1>10, Zenon DEF Rest

\* Insert() meets a unique key that is there: the statement fails, or it skips
\* the row and TxRevert() has undone what the row had written.
LEMMA InsertDuplicateKeeps == ASSUME IInv, InsertDuplicate PROVE Rest'
<1> USE DEF store, wset, args, buffers
<1>1. /\ pc = "insert" /\ kid \in Index /\ Taken /\ pc' = "return" /\ rc' = "dup"
      /\ UNCHANGED << share, store, args, buffers, kid, wbase >>
  BY Zenon DEF InsertDuplicate, Return, ReturnCode
<1>2. /\ TypeOK /\ Rest /\ ~ Failed /\ CleanSkips
      /\ new_pk \in Pk /\ new_data \in Row /\ BaseRead(new_pk) = NoRow
  BY <1>1, Zenon DEF IInv, Failed, Rest, Arguments
<1>3. /\ bulk = "none" /\ bulk' = "none" /\ Lengths' /\ Buffered' /\ share.unique \subseteq Index
      /\ \A k \in Index : sk_buffer[k] = << >> /\ Range(sk_buffer[k]) = {}
      /\ Range(pk_buffer) = {} /\ pk_buffer = << >>
  BY <1>1, NoBuffers, Zenon
<1>4. CASE Failed'
  BY <1>1, <1>3, <1>4, FailureKeeps, Zenon
<1>5. CASE ~ Failed' /\ share.unique \subseteq {1}
  <2>1. kid = 1
    BY <1>1, <1>5, Zenon DEF Taken
  <2>2. \A k \in Index : ~ (k < kid)
    BY <2>1 DEF Index
  <2>3. windex' = windex
    BY <1>2, <2>2, Zenon DEF InsertDuplicate, TypeOK
  <2>4. \A k \in Index, p \in Pk : Seen(k, p) = BaseRead(p)
    BY <1>1, <2>2, Zenon DEF Seen
  <2>5. \A k \in Index, key \in IndexKey, p \in Pk : ~ RowOfCall(k, key, p)
    BY <2>2, Zenon DEF RowOfCall
  <2> QED
    BY <1>1, <1>5, <2>3, <2>4, <2>5, ReturnKeeps, Zenon
<1>6. CASE ~ Failed' /\ share.calls \subseteq {"write_row"}
  <2> DEFINE Own(k) == SecondaryKey(k, new_pk, new_data)
  <2>1. \A k \in Index : k < kid => k \in share.unique
    BY <1>1, <1>2, TableAssumption DEF Taken, TypeOK, Index
  <2>2. \A k \in Index : Own(k) \in IndexKey
    BY <1>2, KeyType, Zenon
  <2>3. \A k \in Index : k < kid => PackRecord(TRUE, k, new_pk, new_data) = Own(k)
    BY <2>1, Zenon DEF SecondaryKey
  <2>4. \A k \in Index, key \in IndexKey :
          windex'[k][key] = IF k < kid /\ key = Own(k) THEN Untouched ELSE windex[k][key]
    <3> SUFFICES ASSUME NEW k \in Index, NEW key \in IndexKey
                 PROVE  windex'[k][key] = IF k < kid /\ key = Own(k) THEN Untouched ELSE windex[k][key]
      BY Zenon
    <3> HIDE DEF Own
    <3>1. windex'[k] = IF k < kid THEN [windex[k] EXCEPT ![PackRecord(TRUE, k, new_pk, new_data)] = Untouched]
                                  ELSE windex[k]
      BY Zenon DEF InsertDuplicate
    <3>2. windex[k] \in [IndexKey -> Pk \cup {NoPk, Untouched}]
      BY <1>2, Zenon DEF TypeOK
    <3> QED
      BY <2>2, <2>3, <3>1, <3>2, Zenon
  <2>5. /\ \A p \in Pk : wbase[p] # NoRow
        /\ \A k \in Index, key \in IndexKey : windex[k][key] # NoPk
        /\ \A k \in Index, key \in IndexKey, p \in Pk :
             windex[k][key] = p <=> RowOfTx(k, key, p) \/ RowOfCall(k, key, p)
        /\ \A p \in Pk : wbase[p] \in Row => base[p] = NoRow
        /\ \A k \in share.unique, key \in IndexKey : windex[k][key] \in Pk => index[k][key] = NoPk
    BY <1>2, <1>3, <1>6, Zenon DEF Rest, WritesIndexed
  <2>6. ASSUME NEW k \in Index, k < kid
        PROVE  windex[k][Own(k)] = new_pk /\ index[k][Own(k)] = NoPk /\ IndexRead(k, Own(k)) = new_pk
    <3>1. RowOfCall(k, Own(k), new_pk)
      BY <1>1, <2>6, Zenon DEF RowOfCall
    <3> HIDE DEF Own
    <3>2. windex[k][Own(k)] = new_pk
      BY <1>2, <2>2, <2>5, <3>1, Zenon
    <3> QED
      BY <1>2, <2>1, <2>2, <2>5, <2>6, <3>2, TableAssumption, Zenon DEF IndexRead, Over
  <2>7. Arguments' /\ Calls' /\ StoreIndexed'
    BY <1>1, <1>2, <1>3, StoreKept, Zenon DEF Arguments, Calls, Rest
  <2>8. ViewIndexed'
    <3> SUFFICES ASSUME NEW k \in Index, NEW key \in IndexKey, NEW p \in Pk
        PROVE (IndexRead(k, key) = p <=> Seen(k, p) # NoRow /\ key = SecondaryKey(k, p, Seen(k, p)))'
      BY Zenon DEF ViewIndexed
    <3>1. Seen(k, p)' = BaseRead(p)
      BY <1>1, Zenon DEF Seen, BaseRead
    <3>2. SecondaryKey(k, p, Seen(k, p))' = SecondaryKey(k, p, BaseRead(p))
      BY <1>1, <3>1, Zenon DEF SecondaryKey, PackRecord
    <3>3. Seen(k, p) = IF k < kid /\ p = new_pk THEN new_data ELSE BaseRead(p)
      BY <1>1, Zenon DEF Seen
    <3>4. IndexRead(k, key) = p <=> Seen(k, p) # NoRow /\ key = SecondaryKey(k, p, Seen(k, p))
      BY <1>2, <1>3, Zenon DEF Rest, ViewIndexed
    <3>5. CASE k < kid /\ key = Own(k)
      <4>1. IndexRead(k, key)' = NoPk
        <5> HIDE DEF Own
        <5> QED BY <1>1, <2>4, <2>6, <3>5, Zenon DEF IndexRead, Over
      <4>2. IndexRead(k, key) = new_pk
        <5> HIDE DEF Own
        <5> QED BY <2>6, <3>5, Zenon
      <4>3. CASE p = new_pk
        BY <1>2, <3>1, <4>1, <4>3, TableAssumption, Zenon
      <4>4. CASE p # new_pk
        BY <3>1, <3>2, <3>3, <3>4, <4>1, <4>2, <4>4, TableAssumption, Zenon
      <4> QED
        BY <4>3, <4>4, Zenon
    <3>6. CASE k < kid /\ key # Own(k)
      <4>1. IndexRead(k, key)' = IndexRead(k, key)
        <5> HIDE DEF Own
        <5> QED BY <1>1, <2>4, <3>6, Zenon DEF IndexRead
      <4>2. CASE p = new_pk
        BY <1>2, <3>1, <3>3, <3>4, <3>6, <4>1, <4>2, Zenon
      <4>3. CASE p # new_pk
        BY <3>1, <3>2, <3>3, <3>4, <4>1, <4>3, Zenon
      <4> QED
        BY <4>2, <4>3, Zenon
    <3>7. CASE ~ (k < kid)
      <4>1. IndexRead(k, key)' = IndexRead(k, key)
        BY <1>1, <2>4, <3>7, Zenon DEF IndexRead
      <4> QED
        BY <3>1, <3>2, <3>3, <3>4, <3>7, <4>1, Zenon
    <3> QED
      BY <3>5, <3>6, <3>7, Zenon
  <2>9. WritesIndexed'
    <3>1. \A k \in Index, key \in IndexKey : windex'[k][key] # NoPk
      BY <2>4, <2>5, TableAssumption
    <3>2. ASSUME NEW k \in Index, NEW key \in IndexKey, NEW p \in Pk
          PROVE  windex'[k][key] = p <=> RowOfTx(k, key, p)' \/ RowOfCall(k, key, p)'
      <4>1. (RowOfTx(k, key, p)' <=> RowOfTx(k, key, p)) /\ ~ RowOfCall(k, key, p)'
        BY <1>1, Zenon DEF RowOfTx, RowOfCall, SecondaryKey, PackRecord
      <4>2. RowOfCall(k, key, p) <=> k < kid /\ p = new_pk /\ key = Own(k)
        BY <1>1, Zenon DEF RowOfCall
      <4>3. wbase[new_pk] \notin Row
        BY <1>2, <2>5, TableAssumption, ZenonT(40) DEF BaseRead, Over
      <4>4. RowOfTx(k, key, p) => p # new_pk
        BY <4>3, Zenon DEF RowOfTx
      <4> HIDE DEF Own
      <4>5. CASE k < kid /\ key = Own(k)
        BY <1>2, <2>4, <2>5, <2>6, <3>2, <4>1, <4>4, <4>5, TableAssumption
      <4>6. CASE ~ (k < kid /\ key = Own(k))
        BY <2>4, <2>5, <4>1, <4>2, <4>6
      <4> QED
        BY <4>5, <4>6, Zenon
    <3>3. ASSUME NEW k \in share.unique, NEW key \in IndexKey, windex'[k][key] \in Pk
          PROVE  index[k][key] = NoPk
      <4> HIDE DEF Own
      <4> QED
        BY <1>3, <2>4, <2>5, <3>3, TableAssumption, ZenonT(40)
    <3> QED
      BY <1>1, <2>5, <3>1, <3>2, <3>3, Zenon DEF WritesIndexed
  <2> QED
    BY <1>3, <2>7, <2>8, <2>9, Zenon DEF Rest
<1> QED
  BY <1>1, <1>2, <1>4, <1>5, <1>6, Zenon DEF Failed, CleanSkips

\* A step that changes neither the entries nor the rows as the indexes have
\* them keeps the view.
LEMMA ViewKept ==
  ASSUME Rest, bulk = "none", ~ Failed, share' = share,
         \A k \in Index, key \in IndexKey : IndexRead(k, key)' = IndexRead(k, key),
         \A k \in Index, p \in Pk : Seen(k, p)' = Seen(k, p)
  PROVE  ViewIndexed'
<1> SUFFICES ASSUME NEW k \in Index, NEW key \in IndexKey, NEW p \in Pk
    PROVE (IndexRead(k, key) = p <=> Seen(k, p) # NoRow /\ key = SecondaryKey(k, p, Seen(k, p)))'
  BY Zenon DEF ViewIndexed
<1>1. SecondaryKey(k, p, Seen(k, p))' = SecondaryKey(k, p, Seen(k, p))
  BY Zenon DEF SecondaryKey, PackRecord
<1> QED
  BY <1>1 DEF Rest, ViewIndexed

\* Insert() writes the record.
LEMMA InsertBaseKeeps == ASSUME IInv, InsertBase PROVE Rest'
<1> USE DEF store, wset, args, buffers
<1>1. /\ pc = "insert" /\ kid = N + 1 /\ wbase' = [wbase EXCEPT ![new_pk] = new_data]
      /\ UNCHANGED << share, store, args, buffers, windex >>
      /\ IF old_pk = NoPk THEN pc' = "return" /\ rc' = "ok" ELSE pc' = "delete" /\ kid' = 1 /\ rc' = rc
  BY Zenon DEF InsertBase, TxUpsertBase, Return, ReturnCode, ToIndex
<1>2. /\ TypeOK /\ Rest /\ ~ Failed /\ ~ Failed'
      /\ new_pk \in Pk /\ new_data \in Row /\ BaseRead(new_pk) = NoRow /\ old_pk # new_pk
  BY <1>1, Zenon DEF IInv, Failed, Rest, Arguments
<1>3. /\ bulk = "none" /\ bulk' = "none" /\ Lengths' /\ Buffered' /\ share.unique \subseteq Index
      /\ \A k \in Index : Range(sk_buffer[k]) = {}
      /\ Range(pk_buffer) = {}
  BY <1>1, NoBuffers, Zenon
<1>4. \A k \in Index : k < kid
  BY <1>1, TableAssumption DEF Index
<1>5. \A p \in Pk : wbase'[p] = IF p = new_pk THEN new_data ELSE wbase[p]
  BY <1>1, <1>2, Zenon DEF TypeOK
<1>6. \A p \in Pk : BaseRead(p)' = IF p = new_pk THEN new_data ELSE BaseRead(p)
  BY <1>1, <1>2, <1>5, TableAssumption, Zenon DEF BaseRead, Over
<1>7. Arguments'
  <2>1. CASE old_pk = NoPk
    BY <1>1, <2>1, Zenon DEF Arguments
  <2>2. CASE old_pk # NoPk
    <3>1. old_pk \in Pk /\ old_data = BaseRead(old_pk) /\ old_data \in Row /\ rc = "ok"
      BY <1>1, <1>2, <2>2, Zenon DEF Rest, Arguments, TypeOK
    <3>2. BaseRead(old_pk)' = BaseRead(old_pk)
      BY <1>1, <1>2, <1>6, <3>1, Zenon DEF BaseRead
    <3> QED
      BY <1>1, <2>2, <3>1, <3>2, Zenon DEF Arguments
  <2> QED
    BY <2>1, <2>2, Zenon
<1>8. Calls' /\ StoreIndexed'
  BY <1>1, <1>2, <1>3, StoreKept, Zenon DEF Rest, Calls
<1>9. ViewIndexed'
  <2>1. \A k \in Index, p \in Pk : Seen(k, p)' = Seen(k, p)
    <3> SUFFICES ASSUME NEW k \in Index, NEW p \in Pk  PROVE Seen(k, p)' = Seen(k, p)
      BY Zenon
    <3>1. Seen(k, p) = IF p = new_pk THEN new_data ELSE BaseRead(p)
      BY <1>1, <1>4, Zenon DEF Seen
    <3>2. Seen(k, p)' = BaseRead(p)'
      BY <1>1, SMTT(60) DEF Seen, Index
    <3> QED
      BY <1>6, <3>1, <3>2, Zenon
  <2> QED
    BY <1>1, <1>2, <1>3, <2>1, ViewKept, Zenon DEF IndexRead
<1>10. WritesIndexed'
  <2> SUFFICES ASSUME share.calls \subseteq {"write_row"}  PROVE WritesIndexed'
    BY <1>1, Zenon DEF WritesIndexed
  <2>1. /\ \A p \in Pk : wbase[p] # NoRow
        /\ \A k \in Index, key \in IndexKey : windex[k][key] # NoPk
        /\ \A k \in Index, key \in IndexKey, p \in Pk :
             windex[k][key] = p <=> RowOfTx(k, key, p) \/ RowOfCall(k, key, p)
        /\ \A p \in Pk : wbase[p] \in Row => base[p] = NoRow
        /\ \A k \in share.unique, key \in IndexKey : windex[k][key] \in Pk => index[k][key] = NoPk
    BY <1>2, <1>3, Zenon DEF Rest, WritesIndexed
  <2>2. wbase[new_pk] = Untouched /\ base[new_pk] = NoRow
    BY <1>2, <2>1, Zenon DEF BaseRead, Over
  <2>3. ASSUME NEW k \in Index, NEW key \in IndexKey, NEW p \in Pk
        PROVE  windex'[k][key] = p <=> RowOfTx(k, key, p)' \/ RowOfCall(k, key, p)'
    <3>1. RowOfTx(k, key, p)' <=> \/ p # new_pk /\ RowOfTx(k, key, p)
                                  \/ p = new_pk /\ key = SecondaryKey(k, new_pk, new_data)
      BY <1>1, <1>2, <1>5, Zenon DEF RowOfTx, SecondaryKey, PackRecord
    <3>2. ~ RowOfCall(k, key, p)'
      BY <1>1, Zenon DEF RowOfCall
    <3>3. RowOfCall(k, key, p) <=> p = new_pk /\ key = SecondaryKey(k, new_pk, new_data)
      BY <1>1, <1>4, Zenon DEF RowOfCall
    <3>4. RowOfTx(k, key, p) => p # new_pk
      BY <2>2, TableAssumption, Zenon DEF RowOfTx
    <3> QED
      BY <1>1, <2>1, <3>1, <3>2, <3>3, <3>4, Zenon
  <2>4. \A p \in Pk : wbase'[p] # NoRow /\ (wbase'[p] \in Row => base[p] = NoRow)
    BY <1>2, <1>5, <2>1, <2>2, TableAssumption, Zenon
  <2> QED
    BY <1>1, <2>1, <2>3, <2>4 DEF WritesIndexed
<1> QED
  BY <1>3, <1>7, <1>8, <1>9, <1>10, Zenon DEF Rest

-----------------------------------------------------------------------------
(* Update() and Delete().                                                  *)

\* A transaction that updates or deletes is not one that only inserts, and the
\* row it changes has its entry.
LEMMA ChangeFacts ==
  ASSUME IInv, pc \in {"update", "delete"}, UNCHANGED << share, buffers >>,
         pc' \in {"update", "delete", "return"}
  PROVE  /\ TypeOK /\ Rest /\ ~ Failed /\ WritesIndexed'
         /\ old_pk \in Pk /\ old_data = BaseRead(old_pk) /\ old_data \in Row /\ old_data # NoRow
         /\ pc = "update" => new_pk = old_pk /\ new_data \in Row /\ new_data # NoRow
         /\ \A k \in Index : /\ SecondaryKey(k, old_pk, old_data) \in IndexKey
                             /\ pc = "update" => SecondaryKey(k, new_pk, new_data) \in IndexKey
         /\ bulk = "none" /\ bulk' = "none" /\ Lengths' /\ Buffered'
         /\ pk_buffer = << >> /\ \A k \in Index : sk_buffer[k] = << >>
<1>1. TypeOK /\ Rest /\ ~ Failed
  BY Zenon DEF IInv, Failed
<1>2. old_pk \in Pk /\ old_data = BaseRead(old_pk) /\ old_data \in Row /\ old_data # NoRow
  BY <1>1, TableAssumption, Zenon DEF Rest, Arguments
<1>3. pc = "update" => new_pk = old_pk /\ new_data \in Row /\ new_data # NoRow
  BY <1>1, TableAssumption, Zenon DEF Rest, Arguments
<1>4. WritesIndexed'
  BY <1>1, Zenon DEF Rest, Calls, WritesIndexed
<1>5. \A k \in Index : /\ SecondaryKey(k, old_pk, old_data) \in IndexKey
                       /\ pc = "update" => SecondaryKey(k, new_pk, new_data) \in IndexKey
  BY <1>2, <1>3, KeyType, Zenon
<1> QED
  BY <1>1, <1>2, <1>3, <1>4, <1>5, NoBuffers, Zenon

\* Between two writes the call keeps its arguments.
LEMMA ChangeArguments ==
  ASSUME IInv, pc \in {"update", "delete"},
         (pc' = pc /\ UNCHANGED << share, store, args, buffers, rc, wbase >>) \/ pc' = "return",
         UNCHANGED << share, store, buffers >>
  PROVE  Arguments' /\ Calls' /\ StoreIndexed'
<1>1. Rest /\ TypeOK /\ bulk = "none"
  BY Zenon DEF IInv, Rest, Calls
<1>2. CASE pc' = "return"
  BY <1>1, <1>2, StoreKept, Zenon DEF Rest, Arguments, Calls, buffers
<1>3. CASE pc' = pc /\ UNCHANGED << share, store, args, buffers, rc, wbase >>
  <2>1. BaseRead(old_pk)' = BaseRead(old_pk)
    BY <1>3, Zenon DEF BaseRead, store, args
  <2> QED
    BY <1>1, <1>3, <2>1, StoreKept, Zenon DEF Rest, Arguments, Calls, args, buffers
<1> QED
  BY <1>2, <1>3, Zenon

\* Update() passes an index whose key stays.
LEMMA UpdateSameKeeps == ASSUME IInv, UpdateSame PROVE Rest'
<1> USE DEF store, wset, args, buffers
<1>1. /\ pc = "update" /\ kid \in Index /\ NewKey = OldKey /\ kid' = kid + 1 /\ pc' = "update"
      /\ UNCHANGED << share, store, wset, args, buffers, rc >>
  BY Zenon DEF UpdateSame, NextIndex, ToIndex
<1>2. /\ TypeOK /\ Rest /\ ~ Failed /\ bulk = "none"
      /\ old_pk \in Pk /\ old_data = BaseRead(old_pk) /\ old_data # NoRow
      /\ new_pk = old_pk /\ new_data # NoRow
  BY <1>1, ChangeFacts, Zenon
<1>3. WritesIndexed' /\ Lengths' /\ Buffered'
  BY <1>1, ChangeFacts, Zenon
<1>4. Arguments' /\ Calls' /\ StoreIndexed'
  BY <1>1, ChangeArguments, Zenon
<1>5. ViewIndexed'
  <2> SUFFICES ASSUME NEW k \in Index, NEW key \in IndexKey, NEW p \in Pk
      PROVE (IndexRead(k, key) = p <=> Seen(k, p) # NoRow /\ key = SecondaryKey(k, p, Seen(k, p)))'
    BY Zenon DEF ViewIndexed
  <2>1. IndexRead(k, key) = p <=> Seen(k, p) # NoRow /\ key = SecondaryKey(k, p, Seen(k, p))
    BY <1>2, Zenon DEF Rest, ViewIndexed
  <2>2. BaseRead(p)' = BaseRead(p) /\ IndexRead(k, key)' = IndexRead(k, key)
    BY <1>1, Zenon DEF BaseRead, IndexRead
  <2>3. Seen(k, p) = IF k < kid /\ p = new_pk THEN new_data ELSE BaseRead(p)
    BY <1>1, Zenon DEF Seen
  <2>4. Seen(k, p)' = IF k < kid + 1 /\ p = new_pk THEN new_data ELSE BaseRead(p)
    BY <1>1, <2>2, Zenon DEF Seen
  <2>5. SecondaryKey(k, p, Seen(k, p))' = SecondaryKey(k, p, Seen(k, p)')
    BY <1>1, Zenon DEF SecondaryKey, PackRecord
  <2>6. CASE k = kid /\ p = new_pk
    <3>1. Seen(k, p) = old_data /\ Seen(k, p)' = new_data
      BY <1>1, <1>2, <2>3, <2>4, <2>6 DEF Index
    <3>2. SecondaryKey(k, p, Seen(k, p)') = SecondaryKey(k, p, Seen(k, p))
      BY <1>1, <1>2, <2>6, <3>1, Zenon DEF NewKey, OldKey
    <3> QED
      BY <1>2, <2>1, <2>2, <2>5, <3>1, <3>2, Zenon
  <2>7. CASE ~ (k = kid /\ p = new_pk)
    <3>1. Seen(k, p)' = Seen(k, p)
      BY <1>1, <2>3, <2>4, <2>7 DEF Index
    <3> QED
      BY <2>1, <2>2, <2>5, <3>1, Zenon
  <2> QED
    BY <2>6, <2>7, Zenon
<1> QED
  BY <1>3, <1>4, <1>5, Zenon DEF Rest

\* Update() replaces the entry of one index.
LEMMA UpdateIndexKeeps == ASSUME IInv, UpdateIndex PROVE Rest'
<1> USE DEF store, wset, args, buffers
<1>1. /\ pc = "update" /\ kid \in Index /\ NewKey # OldKey /\ ~ Taken /\ kid' = kid + 1 /\ pc' = "update"
      /\ UNCHANGED << share, store, wbase, args, buffers, rc >>
  BY Zenon DEF UpdateIndex, NextIndex, ToIndex
<1>2. /\ TypeOK /\ Rest /\ ~ Failed /\ bulk = "none"
      /\ old_pk \in Pk /\ old_data = BaseRead(old_pk) /\ old_data # NoRow
      /\ new_pk = old_pk /\ new_data # NoRow
      /\ OldKey \in IndexKey /\ NewKey \in IndexKey
  BY <1>1, ChangeFacts, Zenon DEF OldKey, NewKey
<1>3. WritesIndexed' /\ Lengths' /\ Buffered'
  BY <1>1, ChangeFacts, Zenon
<1>4. Arguments' /\ Calls' /\ StoreIndexed'
  BY <1>1, ChangeArguments, Zenon
<1>5. \A k \in Index, key \in IndexKey :
        windex'[k][key] = IF k = kid /\ key = NewKey THEN new_pk
                          ELSE IF k = kid /\ key = OldKey THEN NoPk ELSE windex[k][key]
  <2>1. windex' = [windex EXCEPT ![kid][NewKey] = new_pk, ![kid][OldKey] = NoPk]
    BY Zenon DEF UpdateIndex
  <2> QED
    BY <1>1, <1>2, <2>1, Zenon DEF TypeOK
<1>6. ViewIndexed'
  <2> SUFFICES ASSUME NEW k \in Index, NEW key \in IndexKey, NEW p \in Pk
      PROVE (IndexRead(k, key) = p <=> Seen(k, p) # NoRow /\ key = SecondaryKey(k, p, Seen(k, p)))'
    BY Zenon DEF ViewIndexed
  <2>1. IndexRead(k, key) = p <=> Seen(k, p) # NoRow /\ key = SecondaryKey(k, p, Seen(k, p))
    BY <1>2, Zenon DEF Rest, ViewIndexed
  <2>2. BaseRead(p)' = BaseRead(p)
    BY <1>1, Zenon DEF BaseRead
  <2>3. Seen(k, p) = IF k < kid /\ p = new_pk THEN new_data ELSE BaseRead(p)
    BY <1>1, Zenon DEF Seen
  <2>4. Seen(k, p)' = IF k < kid + 1 /\ p = new_pk THEN new_data ELSE BaseRead(p)
    BY <1>1, <2>2, Zenon DEF Seen
  <2>5. SecondaryKey(k, p, Seen(k, p))' = SecondaryKey(k, p, Seen(k, p)')
    BY <1>1, Zenon DEF SecondaryKey, PackRecord
  <2>6. CASE k # kid
    <3>1. Seen(k, p)' = Seen(k, p) /\ IndexRead(k, key)' = IndexRead(k, key)
      BY <1>1, <1>5, <2>3, <2>4, <2>6, SMTT(60) DEF Index, IndexRead
    <3> QED
      BY <2>1, <2>5, <3>1, Zenon
  <2>7. CASE k = kid
    <3>1. Seen(k, p) = BaseRead(p) /\ Seen(k, p)' = IF p = new_pk THEN new_data ELSE BaseRead(p)
      BY <1>1, <2>3, <2>4, <2>7 DEF Index
    <3>2. IndexRead(k, key)' = IF key = NewKey THEN new_pk
                               ELSE IF key = OldKey THEN NoPk ELSE IndexRead(k, key)
      BY <1>1, <1>2, <1>5, <2>7, TableAssumption, Zenon DEF IndexRead, Over
    <3>3. CASE p = new_pk
      <4>1. SecondaryKey(k, p, Seen(k, p)) = OldKey /\ SecondaryKey(k, p, Seen(k, p)') = NewKey
        BY <1>2, <2>7, <3>1, <3>3, Zenon DEF OldKey, NewKey
      <4> QED
        BY <1>1, <1>2, <2>1, <2>5, <3>1, <3>2, <3>3, <4>1, TableAssumption, Zenon
    <3>4. CASE p # new_pk
      <4>1. Seen(k, p)' = Seen(k, p) /\ Seen(k, p) = BaseRead(p)
        BY <3>1, <3>4, Zenon
      <4>2. CASE key = NewKey
        BY <1>1, <2>5, <2>7, <3>2, <3>4, <4>1, <4>2, FreshKey, Zenon
      <4>3. CASE key = OldKey
        <5>1. Seen(kid, old_pk) = old_data
          BY <1>1, <1>2 DEF Seen, Index
        <5>2. IndexRead(kid, OldKey) = old_pk
          BY <1>1, <1>2, <5>1, Zenon DEF OldKey, Rest, ViewIndexed
        <5> QED
          BY <1>1, <1>2, <2>1, <2>5, <2>7, <3>2, <3>4, <4>1, <4>3, <5>2, TableAssumption, Zenon
      <4>4. CASE key # NewKey /\ key # OldKey
        BY <2>1, <2>5, <3>2, <4>1, <4>4, Zenon
      <4> QED
        BY <4>2, <4>3, <4>4, Zenon
    <3> QED
      BY <3>3, <3>4, Zenon
  <2> QED
    BY <2>6, <2>7, Zenon
<1> QED
  BY <1>3, <1>4, <1>6, Zenon DEF Rest

\* Update() meets a key that is there.
LEMMA UpdateDuplicateKeeps == ASSUME IInv, UpdateDuplicate PROVE Rest'
<1> USE DEF store, wset, args, buffers
<1>1. /\ pc = "update" /\ kid \in Index /\ Taken /\ pc' = "return" /\ rc' = "dup"
      /\ UNCHANGED << share, store, wset, args, buffers, kid >>
  BY Zenon DEF UpdateDuplicate, Return, ReturnCode
<1>2. CASE Failed'
  BY <1>1, <1>2, ChangeFacts, FailureKeeps, Zenon
<1>3. CASE ~ Failed'
  <2>1. kid = 1
    BY <1>1, <1>3, Zenon DEF Failed, IInv, CleanSkips, Rest, Calls, Taken
  <2>2. \A k \in Index : ~ (k < kid)
    BY <2>1 DEF Index
  <2>3. \A k \in Index, p \in Pk : Seen(k, p) = BaseRead(p)
    BY <1>1, <2>2, Zenon DEF Seen
  <2>4. \A k \in Index, key \in IndexKey, p \in Pk : ~ RowOfCall(k, key, p)
    BY <1>1, Zenon DEF RowOfCall
  <2> QED
    BY <1>1, <1>3, <2>3, <2>4, ReturnKeeps, Zenon
<1> QED
  BY <1>2, <1>3, Zenon

\* Update() writes the record.
LEMMA UpdateBaseKeeps == ASSUME IInv, UpdateBase PROVE Rest'
<1> USE DEF store, wset, args, buffers
<1>1. /\ pc = "update" /\ kid = N + 1 /\ wbase' = [wbase EXCEPT ![new_pk] = new_data]
      /\ pc' = "return" /\ rc' = "ok"
      /\ UNCHANGED << share, store, args, buffers, windex >>
  BY Zenon DEF UpdateBase, TxUpsertBase, Return, ReturnCode
<1>2. /\ TypeOK /\ Rest /\ ~ Failed /\ bulk = "none" /\ ~ Failed'
      /\ new_pk \in Pk /\ new_data \in Row
  BY <1>1, ChangeFacts, Zenon DEF Failed
<1>3. WritesIndexed' /\ Lengths' /\ Buffered'
  BY <1>1, ChangeFacts, Zenon
<1>4. Arguments' /\ Calls' /\ StoreIndexed'
  BY <1>1, ChangeArguments, Zenon
<1>5. \A p \in Pk : BaseRead(p)' = IF p = new_pk THEN new_data ELSE BaseRead(p)
  BY <1>1, <1>2, TableAssumption, Zenon DEF BaseRead, Over, TypeOK
<1>6. \A k \in Index, p \in Pk : Seen(k, p)' = Seen(k, p)
  <2> SUFFICES ASSUME NEW k \in Index, NEW p \in Pk  PROVE Seen(k, p)' = Seen(k, p)
    BY Zenon
  <2>1. Seen(k, p) = IF p = new_pk THEN new_data ELSE BaseRead(p)
    BY <1>1, TableAssumption DEF Seen, Index
  <2>2. Seen(k, p)' = BaseRead(p)'
    BY <1>1, Zenon DEF Seen
  <2> QED
    BY <1>5, <2>1, <2>2, Zenon
<1>7. ViewIndexed'
  BY <1>1, <1>2, <1>6, ViewKept, Zenon DEF IndexRead
<1> QED
  BY <1>3, <1>4, <1>7, Zenon DEF Rest

\* Delete() erases the entry of one index.
LEMMA DeleteIndexKeeps == ASSUME IInv, DeleteIndex PROVE Rest'
<1> USE DEF store, wset, args, buffers
<1>1. /\ pc = "delete" /\ kid \in Index /\ kid' = kid + 1 /\ pc' = "delete"
      /\ windex' = [windex EXCEPT ![kid][OldKey] = NoPk]
      /\ UNCHANGED << share, store, wbase, args, buffers, rc >>
  BY Zenon DEF DeleteIndex, TxUpsert, NextIndex, ToIndex
<1>2. /\ TypeOK /\ Rest /\ ~ Failed /\ bulk = "none"
      /\ old_pk \in Pk /\ old_data = BaseRead(old_pk) /\ old_data # NoRow
      /\ OldKey \in IndexKey
  BY <1>1, ChangeFacts, Zenon DEF OldKey
<1>3. WritesIndexed' /\ Lengths' /\ Buffered'
  BY <1>1, ChangeFacts, Zenon
<1>4. Arguments' /\ Calls' /\ StoreIndexed'
  BY <1>1, ChangeArguments, Zenon
<1>5. \A k \in Index, key \in IndexKey :
        windex'[k][key] = IF k = kid /\ key = OldKey THEN NoPk ELSE windex[k][key]
  BY <1>1, <1>2, Zenon DEF TypeOK
<1>6. ViewIndexed'
  <2> SUFFICES ASSUME NEW k \in Index, NEW key \in IndexKey, NEW p \in Pk
      PROVE (IndexRead(k, key) = p <=> Seen(k, p) # NoRow /\ key = SecondaryKey(k, p, Seen(k, p)))'
    BY Zenon DEF ViewIndexed
  <2>1. IndexRead(k, key) = p <=> Seen(k, p) # NoRow /\ key = SecondaryKey(k, p, Seen(k, p))
    BY <1>2, Zenon DEF Rest, ViewIndexed
  <2>2. BaseRead(p)' = BaseRead(p)
    BY <1>1, Zenon DEF BaseRead
  <2>3. Seen(k, p) = IF k < kid /\ p = old_pk THEN NoRow ELSE BaseRead(p)
    BY <1>1, Zenon DEF Seen
  <2>4. Seen(k, p)' = IF k < kid + 1 /\ p = old_pk THEN NoRow ELSE BaseRead(p)
    BY <1>1, <2>2, Zenon DEF Seen
  <2>5. SecondaryKey(k, p, Seen(k, p))' = SecondaryKey(k, p, Seen(k, p)')
    BY <1>1, Zenon DEF SecondaryKey, PackRecord
  <2>6. CASE k # kid
    <3>1. Seen(k, p)' = Seen(k, p) /\ IndexRead(k, key)' = IndexRead(k, key)
      BY <1>1, <1>5, <2>3, <2>4, <2>6, SMTT(60) DEF Index, IndexRead
    <3> QED
      BY <2>1, <2>5, <3>1, Zenon
  <2>7. CASE k = kid
    <3>1. Seen(k, p) = BaseRead(p) /\ Seen(k, p)' = IF p = old_pk THEN NoRow ELSE BaseRead(p)
      BY <1>1, <2>3, <2>4, <2>7, SMTT(60) DEF Index
    <3>2. IndexRead(k, key)' = IF key = OldKey THEN NoPk ELSE IndexRead(k, key)
      BY <1>1, <1>2, <1>5, <2>7, TableAssumption, SMTT(60) DEF IndexRead, Over
    <3>3. Seen(kid, old_pk) = old_data
      BY <1>1, <1>2 DEF Seen, Index
    <3>4. IndexRead(kid, OldKey) = old_pk
      BY <1>1, <1>2, <3>3, Zenon DEF OldKey, Rest, ViewIndexed
    <3>5. CASE p = old_pk
      <4>1. SecondaryKey(k, p, Seen(k, p)) = OldKey
        BY <1>2, <2>7, <3>1, <3>5, Zenon DEF OldKey
      <4> QED
        BY <1>2, <2>1, <3>1, <3>2, <3>5, <4>1, TableAssumption, Zenon
    <3>6. CASE p # old_pk
      <4>1. Seen(k, p)' = Seen(k, p)
        BY <3>1, <3>6, Zenon
      <4> QED
        BY <1>2, <2>1, <2>5, <2>7, <3>2, <3>4, <3>6, <4>1, TableAssumption, Zenon
    <3> QED
      BY <3>5, <3>6, Zenon
  <2> QED
    BY <2>6, <2>7, Zenon
<1> QED
  BY <1>3, <1>4, <1>6, Zenon DEF Rest

\* Delete() erases the record.
LEMMA DeleteBaseKeeps == ASSUME IInv, DeleteBase PROVE Rest'
<1> USE DEF store, wset, args, buffers
<1>1. /\ pc = "delete" /\ kid = N + 1 /\ wbase' = [wbase EXCEPT ![old_pk] = NoRow]
      /\ pc' = "return" /\ rc' = "ok"
      /\ UNCHANGED << share, store, args, buffers, windex >>
  BY Zenon DEF DeleteBase, TxUpsertBase, Return, ReturnCode
<1>2. /\ TypeOK /\ Rest /\ ~ Failed /\ bulk = "none" /\ ~ Failed' /\ old_pk \in Pk
  BY <1>1, ChangeFacts, Zenon DEF Failed
<1>3. WritesIndexed' /\ Lengths' /\ Buffered'
  BY <1>1, ChangeFacts, Zenon
<1>4. Arguments' /\ Calls' /\ StoreIndexed'
  BY <1>1, ChangeArguments, Zenon
<1>5. \A p \in Pk : BaseRead(p)' = IF p = old_pk THEN NoRow ELSE BaseRead(p)
  BY <1>1, <1>2, TableAssumption, Zenon DEF BaseRead, Over, TypeOK
<1>6. \A k \in Index, p \in Pk : Seen(k, p)' = Seen(k, p)
  <2> SUFFICES ASSUME NEW k \in Index, NEW p \in Pk  PROVE Seen(k, p)' = Seen(k, p)
    BY Zenon
  <2>1. Seen(k, p) = IF p = old_pk THEN NoRow ELSE BaseRead(p)
    BY <1>1, TableAssumption DEF Seen, Index
  <2>2. Seen(k, p)' = BaseRead(p)'
    BY <1>1, Zenon DEF Seen
  <2> QED
    BY <1>5, <2>1, <2>2, Zenon
<1>7. ViewIndexed'
  BY <1>1, <1>2, <1>6, ViewKept, Zenon DEF IndexRead
<1> QED
  BY <1>3, <1>4, <1>7, Zenon DEF Rest

\* A call that fails leaves the rest to the rollback.
LEMMA TxErrorKeeps == ASSUME IInv, TxError PROVE Rest'
<1>1. /\ pc \in {"check", "insert", "update", "delete"} /\ pc' = "return" /\ rc' = "error"
      /\ UNCHANGED << share, store, wset, args, buffers, kid >>
  BY Zenon DEF TxError, Return, ReturnCode
<1>2. pk_buffer = << >> /\ bulk = "none" /\ \A k \in Index : sk_buffer[k] = << >>
  BY <1>1, NoBuffers, Zenon
<1> QED
  BY <1>1, <1>2, FailureKeeps, Zenon DEF Failed, buffers

-----------------------------------------------------------------------------
(* Bulk insert.                                                            *)

\* What is known in a bulk insert that has not failed.
LEMMA BulkFacts ==
  ASSUME IInv, bulk # "none", ~ Failed
  PROVE  /\ TypeOK /\ Rest /\ ~ share.ignore /\ ~ share.generated /\ share.calls = {"write_row"}
         /\ share.unique \subseteq Index
         /\ \A k \in share.unique, l \in Index : l <= k => l \in share.unique
         /\ \A p \in Pk : wbase[p] # NoRow
         /\ \A k \in Index, key \in IndexKey : windex[k][key] # NoPk
         /\ \A k \in Index, key \in IndexKey, p \in Pk :
              windex[k][key] = p <=> RowOfTx(k, key, p) \/ RowOfCall(k, key, p)
         /\ \A p \in Pk : wbase[p] \in Row => p \in Range(pk_buffer) \/ base[p] = NoRow
         /\ \A k \in share.unique, key \in IndexKey :
              windex[k][key] \in Pk => key \in Range(sk_buffer[k]) \/ index[k][key] = NoPk
<1>1. TypeOK /\ Rest /\ ~ share.ignore /\ ~ share.generated /\ share.calls = {"write_row"}
  BY Zenon DEF IInv, Rest, Calls
<1>2. share.unique \subseteq Index /\ \A k \in share.unique, l \in Index : l <= k => l \in share.unique
  BY <1>1, TableAssumption DEF TypeOK, Index
<1> QED
  BY <1>1, <1>2, Zenon DEF Rest, WritesIndexed

\* start_bulk_insert() only says that the checks are put off.
LEMMA StartKeeps == ASSUME IInv, start_bulk_insert PROVE Rest'
<1> USE DEF store, wset, args
<1>1. /\ pc = "idle" /\ pc' = "idle" /\ bulk = "none" /\ bulk' = "rows" /\ ~ share.ignore /\ ~ share.generated
      /\ share.calls = {"write_row"}
      /\ UNCHANGED << share, store, wset, kid, args, pk_buffer, sk_buffer, rc >>
  BY Zenon DEF start_bulk_insert
<1>2. TypeOK /\ Rest /\ ~ Failed /\ ~ Failed' /\ share.unique \subseteq Index
  BY <1>1, TableAssumption, Zenon DEF IInv, Failed, TypeOK
<1>3. /\ pk_buffer = << >> /\ Range(pk_buffer) = {}
      /\ \A k \in Index : sk_buffer[k] = << >> /\ Range(sk_buffer[k]) = {}
  BY <1>1, <1>2, RangeEmpty, Zenon DEF Rest, Lengths
<1>4. Arguments' /\ Calls' /\ StoreIndexed' /\ ViewIndexed'
  BY <1>1, <1>2, StoreKept, ZenonT(40) DEF Rest, Arguments, Calls, ViewIndexed
<1>5. WritesIndexed'
  BY <1>1, <1>2, SMTT(60) DEF Rest, WritesIndexed, RowOfTx, RowOfCall, SecondaryKey, PackRecord
<1>6. Lengths'
  BY <1>1, <1>2, <1>3, TableAssumption DEF Lengths
<1>7. Buffered'
  BY <1>1, <1>2, <1>3, Zenon DEF Buffered
<1> QED
  BY <1>4, <1>5, <1>6, <1>7, Zenon DEF Rest

\* The buffer after a key has been put into it.
LEMMA BufferGrows ==
  ASSUME TypeOK, pc = "bulk", Arguments, kid \in share.unique, Buffer, share.unique \subseteq Index
  PROVE  /\ NewKey \in IndexKey /\ pk_buffer' = pk_buffer /\ bulk' = bulk
         /\ \A k \in Index : k # kid => sk_buffer'[k] = sk_buffer[k]
         /\ Range(sk_buffer'[kid]) = Range(sk_buffer[kid]) \cup {NewKey}
         /\ Len(sk_buffer'[kid]) = Len(sk_buffer[kid]) + 1
<1>1. NewKey \in IndexKey /\ kid \in Index
  BY KeyType, Zenon DEF NewKey, Arguments
<1>2. sk_buffer' = [sk_buffer EXCEPT ![kid] = Append(sk_buffer[kid], NewKey)]
  BY Zenon DEF Buffer
<1>3. sk_buffer[kid] \in Seq(IndexKey)
  BY <1>1, Zenon DEF TypeOK
<1>4. sk_buffer'[kid] = Append(sk_buffer[kid], NewKey) /\ \A k \in Index : k # kid => sk_buffer'[k] = sk_buffer[k]
  BY <1>1, <1>2, Zenon DEF TypeOK
<1> QED
  BY <1>1, <1>3, <1>4, RangeAppend DEF Buffer

\* A row of the bulk insert writes the entry of one index.
LEMMA BulkIndexKeeps == ASSUME IInv, BulkIndex PROVE Rest'
<1> USE DEF store, wset, args
<1>1. /\ pc = "bulk" /\ kid \in Index /\ ~ Written /\ kid' = kid + 1 /\ pc' = "bulk"
      /\ windex' = [windex EXCEPT ![kid][NewKey] = new_pk] /\ Buffer
      /\ UNCHANGED << share, store, args, rc, wbase >>
  BY Zenon DEF BulkIndex, TxUpsert, ToIndex
<1>2. /\ ~ Failed /\ ~ Failed' /\ bulk = "rows" /\ bulk' = "rows" /\ pk_buffer' = pk_buffer
      /\ new_pk \in Pk /\ new_data \in Row /\ rc = "ok"
  BY <1>1, Zenon DEF IInv, Failed, Rest, Arguments, Calls, Buffer
<1>3. /\ TypeOK /\ Rest /\ Arguments /\ share.calls = {"write_row"} /\ share.unique \subseteq Index
      /\ \A p \in Pk : wbase[p] # NoRow
      /\ \A k \in Index, key \in IndexKey : windex[k][key] # NoPk
      /\ \A k \in Index, key \in IndexKey, p \in Pk :
           windex[k][key] = p <=> RowOfTx(k, key, p) \/ RowOfCall(k, key, p)
      /\ \A p \in Pk : wbase[p] \in Row => p \in Range(pk_buffer) \/ base[p] = NoRow
      /\ \A k \in share.unique, key \in IndexKey :
           windex[k][key] \in Pk => key \in Range(sk_buffer[k]) \/ index[k][key] = NoPk
  BY <1>2, BulkFacts, Zenon DEF Rest
<1>4. NewKey \in IndexKey /\ kid \in Nat
  BY <1>1, <1>2, KeyType, SMTT(60) DEF NewKey, Index
<1>5. \A k \in Index, key \in IndexKey :
        windex'[k][key] = IF k = kid /\ key = NewKey THEN new_pk ELSE windex[k][key]
  BY <1>1, <1>3, <1>4 DEF TypeOK
<1>6. kid \in share.unique => windex[kid][NewKey] = Untouched
  BY <1>1, <1>3, <1>4, ZenonT(40) DEF Written
<1>7. \A p \in Pk : wbase[p] \in Row /\ (kid \in share.unique \/ p # new_pk)
                      => SecondaryKey(kid, p, wbase[p]) # NewKey
  <2> SUFFICES ASSUME NEW p \in Pk, wbase[p] \in Row, kid \in share.unique \/ p # new_pk,
                      SecondaryKey(kid, p, wbase[p]) = NewKey
               PROVE  FALSE
    BY Zenon
  <2>1. CASE kid \in share.unique
    <3>1. windex[kid][NewKey] = p
      BY <1>1, <1>3, <1>4 DEF RowOfTx
    <3> QED
      BY <1>6, <2>1, <3>1, TableAssumption, Zenon
  <2>2. CASE kid \notin share.unique
    BY <1>1, <2>2, SameKey DEF NewKey
  <2> QED
    BY <2>1, <2>2, Zenon
<1>8. /\ \A k \in Index : k # kid \/ kid \notin share.unique => sk_buffer'[k] = sk_buffer[k]
      /\ kid \in share.unique => /\ Range(sk_buffer'[kid]) = Range(sk_buffer[kid]) \cup {NewKey}
                                 /\ Len(sk_buffer'[kid]) = Len(sk_buffer[kid]) + 1
  <2>1. CASE kid \in share.unique
    BY <1>1, <1>3, <2>1, BufferGrows, Zenon
  <2>2. CASE kid \notin share.unique
    BY <1>1, <2>2, Zenon DEF Buffer
  <2> QED
    BY <2>1, <2>2, Zenon
<1>9. Arguments'
  BY <1>1, <1>2, <1>3, Zenon DEF Arguments
<1>10. Calls' /\ StoreIndexed' /\ ViewIndexed'
  BY <1>1, <1>2, <1>3, StoreKept, Zenon DEF Rest, Calls, ViewIndexed
<1>11. WritesIndexed'
  <2>1. \A k \in Index, key \in IndexKey : windex'[k][key] # NoPk
    BY <1>2, <1>3, <1>5, TableAssumption
  <2>2. ASSUME NEW k \in Index, NEW key \in IndexKey, NEW p \in Pk
        PROVE  windex'[k][key] = p <=> RowOfTx(k, key, p)' \/ RowOfCall(k, key, p)'
    <3>1. RowOfTx(k, key, p)' <=> RowOfTx(k, key, p)
      BY <1>1, Zenon DEF RowOfTx, SecondaryKey, PackRecord
    <3>2. RowOfCall(k, key, p)' <=> k < kid + 1 /\ p = new_pk /\ key = SecondaryKey(k, new_pk, new_data)
      BY <1>1, Zenon DEF RowOfCall, SecondaryKey, PackRecord
    <3>3. RowOfCall(k, key, p) <=> k < kid /\ p = new_pk /\ key = SecondaryKey(k, new_pk, new_data)
      BY <1>1, Zenon DEF RowOfCall
    <3>4. windex[k][key] = p <=> RowOfTx(k, key, p) \/ RowOfCall(k, key, p)
      BY <1>3, Zenon
    <3>5. CASE k # kid
      BY <1>4, <1>5, <3>1, <3>2, <3>3, <3>4, <3>5 DEF Index
    <3>6. CASE k = kid /\ key # NewKey
      BY <1>4, <1>5, <3>1, <3>2, <3>3, <3>4, <3>6, Zenon DEF NewKey
    <3>7. CASE k = kid /\ key = NewKey
      <4>1. RowOfTx(k, key, p) => p = new_pk
        BY <1>7, <3>7, Zenon DEF RowOfTx
      <4> QED
        BY <1>4, <1>5, <3>1, <3>2, <3>7, <4>1 DEF NewKey
    <3> QED
      BY <3>5, <3>6, <3>7, Zenon
  <2>3. ASSUME NEW k \in share.unique, NEW key \in IndexKey, windex'[k][key] \in Pk
        PROVE  key \in Range(sk_buffer'[k]) \/ index[k][key] = NoPk
    <3>1. CASE k = kid /\ key = NewKey
      BY <1>8, <3>1, Zenon
    <3>2. CASE ~ (k = kid /\ key = NewKey)
      BY <1>3, <1>5, <1>8, <2>3, <3>2, ZenonT(40)
    <3> QED
      BY <3>1, <3>2, Zenon
  <2> QED
    BY <1>1, <1>2, <1>3, <2>1, <2>2, <2>3, ZenonT(40) DEF WritesIndexed
<1>12. Lengths'
  <2>1. \A k \in share.unique : Len(sk_buffer'[k]) = Len(pk_buffer) + (IF k < kid + 1 THEN 1 ELSE 0)
    <3> SUFFICES ASSUME NEW k \in share.unique
                 PROVE  Len(sk_buffer'[k]) = Len(pk_buffer) + (IF k < kid + 1 THEN 1 ELSE 0)
      BY Zenon
    <3>1. /\ Len(sk_buffer[k]) = Len(pk_buffer) + (IF k < kid THEN 1 ELSE 0) /\ k \in Nat
          /\ Len(pk_buffer) \in Nat
      BY <1>1, <1>2, <1>3, SMTT(60) DEF Rest, Lengths, Index, TypeOK
    <3>2. CASE k = kid
      BY <1>4, <1>8, <3>1, <3>2, SMTT(60)
    <3>3. CASE k # kid
      BY <1>3, <1>4, <1>8, <3>1, <3>3, SMTT(60)
    <3> QED
      BY <3>2, <3>3, Zenon
  <2>2. \A k \in Index : k \notin share.unique => sk_buffer'[k] = << >>
    BY <1>3, <1>8 DEF Rest, Lengths
  <2>3. Len(pk_buffer) < Batch
    BY <1>1, <1>2, <1>3, Zenon DEF Rest, Lengths
  <2> QED
    BY <1>1, <1>2, <2>1, <2>2, <2>3, Zenon DEF Lengths
<1>13. Buffered'
  <2>1. /\ \A p \in Range(pk_buffer) : wbase[p] \in Row
        /\ \A k \in share.unique : \A key \in Range(sk_buffer[k]) : windex[k][key] \in Pk
        /\ \A k \in share.unique :
             k < kid => SecondaryKey(k, new_pk, new_data) \in Range(sk_buffer[k])
        /\ \A p \in Pk, k \in share.unique :
             wbase[p] \in Row =>
               (p \in Range(pk_buffer) <=> SecondaryKey(k, p, wbase[p]) \in Range(sk_buffer[k]))
    BY <1>1, <1>2, <1>3, ZenonT(40) DEF Rest, Buffered
  <2>2. \A k \in share.unique : Range(sk_buffer[k]) \subseteq IndexKey
    BY <1>3 DEF TypeOK, Range
  <2>3. ASSUME NEW k \in share.unique, NEW key \in Range(sk_buffer'[k])  PROVE windex'[k][key] \in Pk
    <3>1. CASE k = kid
      BY <1>1, <1>2, <1>4, <1>5, <1>8, <2>1, <2>2, <2>3, <3>1, SMTT(60)
    <3>2. CASE k # kid
      BY <1>3, <1>5, <1>8, <2>1, <2>2, <2>3, <3>2
    <3> QED
      BY <3>1, <3>2, Zenon
  <2>4. ASSUME NEW k \in share.unique, k < kid + 1
        PROVE  SecondaryKey(k, new_pk, new_data) \in Range(sk_buffer'[k])
    <3>1. CASE k = kid
      BY <1>8, <3>1, ZenonT(40) DEF NewKey
    <3>2. CASE k # kid
      BY <1>3, <1>4, <1>8, <2>1, <2>4, <3>2 DEF Index
    <3> QED
      BY <3>1, <3>2, Zenon
  <2>5. ASSUME NEW p \in Pk, NEW k \in share.unique, wbase[p] \in Row
        PROVE  p \in Range(pk_buffer) <=> SecondaryKey(k, p, wbase[p]) \in Range(sk_buffer'[k])
    <3>1. CASE k = kid
      BY <1>7, <1>8, <2>1, <2>5, <3>1, Zenon
    <3>2. CASE k # kid
      BY <1>3, <1>8, <2>1, <2>5, <3>2, Zenon
    <3> QED
      BY <3>1, <3>2, Zenon
  <2> QED
    BY <1>1, <1>2, <2>1, <2>3, <2>4, <2>5, Zenon DEF Buffered, SecondaryKey, PackRecord
<1> QED
  BY <1>9, <1>10, <1>11, <1>12, <1>13, Zenon DEF Rest

\* A row of the bulk insert writes its record.
LEMMA BulkBaseKeeps == ASSUME IInv, BulkBase PROVE Rest'
<1> USE DEF store, wset, args
<1>1. /\ pc = "bulk" /\ kid = N + 1 /\ ~ Written /\ Buffer
      /\ wbase' = [wbase EXCEPT ![new_pk] = new_data]
      /\ UNCHANGED << share, store, args, windex >>
      /\ IF Len(pk_buffer') >= Batch THEN pc' = "verify_pk" /\ rc' = rc ELSE pc' = "return" /\ rc' = "ok"
  BY Zenon DEF BulkBase, TxUpsertBase, ToIndex, ReturnCode
<1>2. /\ ~ Failed /\ ~ Failed' /\ bulk = "rows" /\ bulk' = "rows" /\ rc' = "ok"
      /\ new_pk \in Pk /\ new_data \in Row
  BY <1>1, Zenon DEF IInv, Failed, Rest, Arguments, Calls, Buffer
<1>3. /\ TypeOK /\ Rest /\ Arguments /\ share.calls = {"write_row"} /\ share.unique \subseteq Index
      /\ \A p \in Pk : wbase[p] # NoRow
      /\ \A k \in Index, key \in IndexKey : windex[k][key] # NoPk
      /\ \A k \in Index, key \in IndexKey, p \in Pk :
           windex[k][key] = p <=> RowOfTx(k, key, p) \/ RowOfCall(k, key, p)
      /\ \A p \in Pk : wbase[p] \in Row => p \in Range(pk_buffer) \/ base[p] = NoRow
      /\ \A k \in share.unique, key \in IndexKey :
           windex[k][key] \in Pk => key \in Range(sk_buffer[k]) \/ index[k][key] = NoPk
  BY <1>2, BulkFacts, Zenon DEF Rest
<1>4. kid \notin Index /\ \A k \in Index : k < kid
  BY <1>1, TableAssumption DEF Index
<1>5. \A p \in Pk : wbase'[p] = IF p = new_pk THEN new_data ELSE wbase[p]
  BY <1>1, <1>2, <1>3, ZenonT(40) DEF TypeOK
<1>6. wbase[new_pk] = Untouched
  BY <1>1, <1>2, <1>3, <1>4, Zenon DEF Written
<1>7. /\ sk_buffer' = sk_buffer /\ pk_buffer' = Append(pk_buffer, new_pk)
      /\ Range(pk_buffer') = Range(pk_buffer) \cup {new_pk}
      /\ Len(pk_buffer') = Len(pk_buffer) + 1 /\ Len(pk_buffer) \in Nat
  BY <1>1, <1>2, <1>3, <1>4, RangeAppend DEF Buffer, TypeOK
<1>8. Arguments' /\ Calls' /\ StoreIndexed' /\ ViewIndexed'
  BY <1>1, <1>2, <1>3, StoreKept, Zenon DEF Rest, Arguments, Calls, ViewIndexed
<1>9. WritesIndexed'
  <2>1. \A p \in Pk : wbase'[p] # NoRow
    BY <1>2, <1>3, <1>5, TableAssumption, Zenon
  <2>2. ASSUME NEW k \in Index, NEW key \in IndexKey, NEW p \in Pk
        PROVE  windex'[k][key] = p <=> RowOfTx(k, key, p)' \/ RowOfCall(k, key, p)'
    <3>1. RowOfTx(k, key, p)' <=> \/ p # new_pk /\ RowOfTx(k, key, p)
                                  \/ p = new_pk /\ key = SecondaryKey(k, new_pk, new_data)
      BY <1>1, <1>2, <1>5, Zenon DEF RowOfTx, SecondaryKey, PackRecord
    <3>2. ~ RowOfCall(k, key, p)'
      BY <1>1, Zenon DEF RowOfCall
    <3>3. RowOfCall(k, key, p) <=> p = new_pk /\ key = SecondaryKey(k, new_pk, new_data)
      BY <1>1, <1>4, Zenon DEF RowOfCall
    <3>4. RowOfTx(k, key, p) => p # new_pk
      BY <1>6, TableAssumption, Zenon DEF RowOfTx
    <3> QED
      BY <1>1, <1>3, <3>1, <3>2, <3>3, <3>4, ZenonT(40)
  <2>3. \A p \in Pk : wbase'[p] \in Row => p \in Range(pk_buffer') \/ base[p] = NoRow
    BY <1>3, <1>5, <1>7, ZenonT(40)
  <2> QED
    BY <1>1, <1>3, <1>7, <2>1, <2>2, <2>3, ZenonT(40) DEF WritesIndexed
<1>10. Lengths'
  <2>1. \A k \in share.unique : Len(sk_buffer[k]) = Len(pk_buffer) + 1
    BY <1>1, <1>2, <1>3, <1>4, Zenon DEF Rest, Lengths
  <2>2. \A k \in Index : k \notin share.unique => sk_buffer[k] = << >>
    BY <1>3, Zenon DEF Rest, Lengths
  <2>3. pc' \in {"verify_pk", "return"} /\ (pc' = "return" => Len(pk_buffer') < Batch)
    BY <1>1, <1>7, TableAssumption
  <2> QED
    BY <1>1, <1>2, <1>7, <2>1, <2>2, <2>3 DEF Lengths
<1>11. Buffered'
  <2>1. /\ \A p \in Range(pk_buffer) : wbase[p] \in Row
        /\ \A k \in share.unique : \A key \in Range(sk_buffer[k]) : windex[k][key] \in Pk
        /\ \A k \in share.unique : SecondaryKey(k, new_pk, new_data) \in Range(sk_buffer[k])
        /\ \A p \in Pk, k \in share.unique :
             wbase[p] \in Row =>
               (p \in Range(pk_buffer) <=> SecondaryKey(k, p, wbase[p]) \in Range(sk_buffer[k]))
    BY <1>1, <1>2, <1>3, <1>4, ZenonT(40) DEF Rest, Buffered
  <2>2. Range(pk_buffer) \subseteq Pk
    BY <1>3 DEF TypeOK, Range
  <2>3. \A p \in Range(pk_buffer') : wbase'[p] \in Row
    BY <1>2, <1>5, <1>7, <2>1, <2>2, Zenon
  <2>4. ASSUME NEW p \in Pk, NEW k \in share.unique, wbase'[p] \in Row
        PROVE  p \in Range(pk_buffer') <=> SecondaryKey(k, p, wbase'[p]) \in Range(sk_buffer[k])
    BY <1>5, <1>7, <2>1, <2>4, Zenon
  <2>5. pc' \in {"verify_pk", "return"}
    BY <1>1, Zenon
  <2> QED
    BY <1>1, <1>2, <1>7, <2>1, <2>3, <2>4, <2>5, Zenon DEF Buffered, SecondaryKey, PackRecord
<1> QED
  BY <1>8, <1>9, <1>10, <1>11, Zenon DEF Rest

\* A bulk insert that fails.
LEMMA BulkFailure ==
  ASSUME IInv, bulk # "none", ~ Failed, bulk' = bulk, pc' = "return", rc' \in {"dup", "error"},
         UNCHANGED << share, store >>,
         \A k \in Index : k \notin share.unique => sk_buffer'[k] = sk_buffer[k] \/ sk_buffer'[k] = << >>
  PROVE  Rest' /\ Failed'
<1>1. ~ share.ignore /\ Rest
  BY BulkFacts, Zenon
<1>2. Failed'
  BY <1>1, Zenon DEF Failed
<1>3. \A k \in Index : k \notin share.unique => sk_buffer'[k] = << >>
  BY <1>1 DEF Rest, Lengths
<1> QED
  BY <1>2, <1>3, FailureKeeps, Zenon

\* TxUpsert() reports a key that the transaction has written before, or fails.
LEMMA BulkReturnKeeps == ASSUME IInv, BulkDuplicate \/ BulkError PROVE Rest' /\ Failed'
<1>1. /\ pc = "bulk" /\ pc' = "return" /\ rc' \in {"dup", "error"} /\ bulk' = bulk
      /\ UNCHANGED << share, store >>
  BY Zenon DEF BulkDuplicate, BulkError, ReturnCode, Buffer
<1>2. bulk # "none" /\ ~ Failed /\ TypeOK
  BY <1>1, Zenon DEF IInv, Rest, Calls, Failed
<1>3. \A k \in Index : k \notin share.unique => sk_buffer'[k] = sk_buffer[k] \/ sk_buffer'[k] = << >>
  BY <1>2, Zenon DEF BulkDuplicate, BulkError, Buffer, TypeOK
<1> QED
  BY <1>1, <1>2, <1>3, BulkFailure, Zenon

\* The batch read of the primary keys.
LEMMA CheckBaseKeeps == ASSUME IInv, CheckBase PROVE Rest'
<1> USE DEF store, wset, args
<1>1. /\ pc = "verify_pk" /\ pk_buffer' = << >> /\ UNCHANGED << bulk, sk_buffer, wset, share, store, args >>
      /\ \/ pc' = "return" /\ rc' \in {"dup", "error"}
         \/ ~ PkTaken /\ pc' = "verify" /\ kid' = 1 /\ rc' = rc
  BY Zenon DEF CheckBase, ReturnCode, ToIndex
<1>2. ~ Failed /\ bulk # "none" /\ rc = "ok"
  BY <1>1, Zenon DEF IInv, Failed, Rest, Arguments, Calls
<1>3. CASE pc' = "return"
  BY <1>1, <1>2, <1>3, BulkFailure, Zenon
<1>4. CASE ~ PkTaken /\ pc' = "verify" /\ kid' = 1 /\ rc' = rc
  <2>1. /\ TypeOK /\ Rest /\ share.unique \subseteq Index
        /\ \A p \in Pk : wbase[p] \in Row => p \in Range(pk_buffer) \/ base[p] = NoRow
        /\ share.calls = {"write_row"}
    BY <1>2, BulkFacts, Zenon
  <2>2. ~ Failed'
    BY <1>4, Zenon DEF Failed
  <2>3. Arguments' /\ Calls' /\ StoreIndexed' /\ ViewIndexed'
    BY <1>1, <1>2, <1>4, <2>1, StoreKept, ZenonT(40) DEF Rest, Arguments, Calls, ViewIndexed
  <2>4. WritesIndexed'
    <3>1. \A p \in Pk : wbase[p] \in Row => base[p] = NoRow
      BY <1>4, <2>1, Zenon DEF PkTaken
    <3>2. \A k, key, p : (RowOfTx(k, key, p)' <=> RowOfTx(k, key, p)) /\ ~ RowOfCall(k, key, p)'
                         /\ ~ RowOfCall(k, key, p)
      BY <1>1, <1>4, Zenon DEF RowOfTx, RowOfCall, SecondaryKey, PackRecord
    <3> QED
      BY <1>1, <1>2, <2>1, <3>1, <3>2 DEF Rest, WritesIndexed
  <2>5. Lengths'
    <3>1. \A k \in Index : ~ (k < kid')
      BY <1>4 DEF Index
    <3> QED
      BY <1>1, <1>2, <1>4, <2>1, <2>2, <3>1, Zenon DEF Rest, Lengths
  <2>6. Buffered'
    BY <1>1, <1>2, <1>4, <2>1, RangeEmpty, Zenon DEF Rest, Buffered, SecondaryKey, PackRecord
  <2> QED
    BY <2>3, <2>4, <2>5, <2>6, Zenon DEF Rest
<1> QED
  BY <1>1, <1>3, <1>4, Zenon

\* The batch read of one index.
LEMMA CheckIndexKeeps == ASSUME IInv, CheckIndex PROVE Rest'
<1> USE DEF store, wset, args
<1>1. /\ pc = "verify" /\ kid \in share.unique /\ UNCHANGED << bulk, pk_buffer, wset, share, store, args >>
      /\ sk_buffer' = [sk_buffer EXCEPT ![kid] = << >>]
      /\ \/ pc' = "return" /\ rc' \in {"dup", "error"}
         \/ ~ SkTaken(kid) /\ pc' = "verify" /\ kid' = kid + 1 /\ rc' = rc
  BY Zenon DEF CheckIndex, ReturnCode, ToIndex
<1>2. ~ Failed /\ bulk # "none" /\ rc = "ok"
  BY <1>1, Zenon DEF IInv, Failed, Rest, Arguments, Calls
<1>3. /\ TypeOK /\ Rest /\ share.unique \subseteq Index /\ share.calls = {"write_row"}
      /\ \A k \in share.unique, key \in IndexKey :
           windex[k][key] \in Pk => key \in Range(sk_buffer[k]) \/ index[k][key] = NoPk
  BY <1>2, BulkFacts, Zenon
<1>4. \A k \in Index : sk_buffer'[k] = IF k = kid THEN << >> ELSE sk_buffer[k]
  BY <1>1, <1>3, Zenon DEF TypeOK
<1>5. CASE pc' = "return"
  BY <1>1, <1>2, <1>4, <1>5, BulkFailure, Zenon
<1>6. CASE ~ SkTaken(kid) /\ pc' = "verify" /\ kid' = kid + 1 /\ rc' = rc
  <2>2. ~ Failed'
    BY <1>6, Zenon DEF Failed
  <2>3. Arguments' /\ Calls' /\ StoreIndexed' /\ ViewIndexed'
    BY <1>1, <1>2, <1>3, <1>6, StoreKept, Zenon DEF Rest, Arguments, Calls, ViewIndexed
  <2>4. WritesIndexed'
    <3>1. \A k \in share.unique, key \in IndexKey :
            windex[k][key] \in Pk => key \in Range(sk_buffer'[k]) \/ index[k][key] = NoPk
      BY <1>3, <1>4, <1>6, Zenon DEF SkTaken
    <3>2. \A k, key, p : (RowOfTx(k, key, p)' <=> RowOfTx(k, key, p)) /\ ~ RowOfCall(k, key, p)'
                         /\ ~ RowOfCall(k, key, p)
      BY <1>1, <1>6, Zenon DEF RowOfTx, RowOfCall, SecondaryKey, PackRecord
    <3> QED
      BY <1>1, <1>2, <1>3, <3>1, <3>2, ZenonT(40) DEF Rest, WritesIndexed
  <2>5. Lengths'
    <3>1. \A k \in Index : k < kid' => k < kid \/ k = kid
      BY <1>1, <1>3, <1>6 DEF Index
    <3> QED
      BY <1>1, <1>2, <1>3, <1>4, <1>6, <2>2, <3>1, ZenonT(40) DEF Rest, Lengths
  <2>6. Buffered'
    <3>1. \A k \in share.unique : k >= kid' => k >= kid /\ sk_buffer'[k] = sk_buffer[k]
      BY <1>1, <1>3, <1>4, <1>6 DEF Index
    <3>2. \A k \in share.unique : Range(sk_buffer'[k]) \subseteq Range(sk_buffer[k])
      BY <1>3, <1>4, RangeEmpty, Zenon
    <3>3. /\ pk_buffer = << >> /\ Range(pk_buffer') = {}
          /\ \A k \in share.unique : \A key \in Range(sk_buffer[k]) : windex[k][key] \in Pk
          /\ \A p \in Pk, k, l \in share.unique :
               wbase[p] \in Row /\ k >= kid /\ l >= kid =>
                 (SecondaryKey(k, p, wbase[p]) \in Range(sk_buffer[k])
                    <=> SecondaryKey(l, p, wbase[p]) \in Range(sk_buffer[l]))
      BY <1>1, <1>2, <1>3, RangeEmpty, Zenon DEF Rest, Buffered, Lengths
    <3>4. \A k \in share.unique : \A key \in Range(sk_buffer'[k]) : windex[k][key] \in Pk
      BY <3>2, <3>3, Zenon
    <3>5. \A p \in Pk, k, l \in share.unique :
            wbase[p] \in Row /\ k >= kid' /\ l >= kid' =>
              (SecondaryKey(k, p, wbase[p]) \in Range(sk_buffer'[k])
                 <=> SecondaryKey(l, p, wbase[p]) \in Range(sk_buffer'[l]))
      BY <3>1, <3>3, Zenon
    <3> QED
      BY <1>1, <1>2, <1>6, <3>3, <3>4, <3>5, ZenonT(40) DEF Buffered, SecondaryKey, PackRecord
  <2> QED
    BY <2>3, <2>4, <2>5, <2>6, Zenon DEF Rest
<1> QED
  BY <1>1, <1>5, <1>6, Zenon

\* The last unique index has been checked.
LEMMA CheckDoneKeeps == ASSUME IInv, CheckDone PROVE Rest'
<1> USE DEF store, wset, args, buffers
<1>1. /\ pc = "verify" /\ kid \notin share.unique /\ pc' = "return" /\ rc' = "ok"
      /\ UNCHANGED << share, store, wset, args, buffers >>
  BY Zenon DEF CheckDone, Return, ReturnCode
<1>2. ~ Failed /\ bulk # "none" /\ ~ Failed'
  BY <1>1, Zenon DEF IInv, Failed, Rest, Calls
<1>3. /\ TypeOK /\ Rest /\ share.unique \subseteq Index /\ share.calls = {"write_row"}
      /\ \A k \in share.unique, l \in Index : l <= k => l \in share.unique
  BY <1>2, BulkFacts, Zenon
<1>4. \A k \in share.unique : k < kid
  BY <1>1, <1>3, TableAssumption DEF TypeOK, Index
<1>5. /\ pk_buffer = << >> /\ Range(pk_buffer) = {}
      /\ \A k \in Index : sk_buffer[k] = << >> /\ Range(sk_buffer[k]) = {}
  BY <1>1, <1>3, <1>4, RangeEmpty, Zenon DEF Rest, Lengths
<1>6. Arguments' /\ Calls' /\ StoreIndexed' /\ ViewIndexed'
  BY <1>1, <1>2, <1>3, StoreKept, ZenonT(40) DEF Rest, Arguments, Calls, ViewIndexed
<1>7. WritesIndexed'
  <2>1. \A k, key, p : (RowOfTx(k, key, p)' <=> RowOfTx(k, key, p)) /\ ~ RowOfCall(k, key, p)'
                       /\ ~ RowOfCall(k, key, p)
    BY <1>1, ZenonT(40) DEF RowOfTx, RowOfCall, SecondaryKey, PackRecord
  <2>2. WritesIndexed
    BY <1>3, Zenon DEF Rest
  <2>3. /\ \A p \in Pk : wbase[p] # NoRow
        /\ \A k \in Index, key \in IndexKey : windex[k][key] # NoPk
        /\ \A k \in Index, key \in IndexKey, p \in Pk : windex[k][key] = p <=> RowOfTx(k, key, p)
        /\ \A p \in Pk : wbase[p] \in Row => p \in Range(pk_buffer) \/ base[p] = NoRow
        /\ \A k \in share.unique, key \in IndexKey :
             windex[k][key] \in Pk => key \in Range(sk_buffer[k]) \/ index[k][key] = NoPk
    BY <1>2, <1>3, <2>1, <2>2, Zenon DEF WritesIndexed
  <2> QED
    BY <1>1, <2>1, <2>3, Zenon DEF WritesIndexed
<1>8. Lengths' /\ Buffered'
  BY <1>1, <1>2, <1>3, <1>5, TableAssumption DEF Lengths, Buffered
<1> QED
  BY <1>6, <1>7, <1>8, Zenon DEF Rest

\* end_bulk_insert() checks what is left, unless the statement has failed.
LEMMA EndInsertKeeps == ASSUME IInv, end_bulk_insert PROVE Rest'
<1> USE DEF store, wset, args
<1>1. /\ bulk = "rows" /\ bulk' = "end" /\ (pc = "idle" \/ Failed)
      /\ pc' = (IF pc = "idle" /\ pk_buffer # << >> THEN "verify_pk" ELSE pc)
      /\ UNCHANGED << share, store, wset, kid, args, pk_buffer, sk_buffer, rc >>
  BY Zenon DEF end_bulk_insert
<1>2. Rest /\ TypeOK
  BY Zenon DEF IInv
<1>3. CASE Failed
  <2>1. Failed'
    BY <1>1, <1>3, Zenon DEF Failed
  <2> QED
    BY <1>1, <1>2, <2>1, FailureKeeps, Zenon DEF Rest, Lengths
<1>4. CASE pc = "idle"
  <2>1. ~ Failed /\ ~ Failed' /\ pc' \in {"idle", "verify_pk"}
    BY <1>1, <1>4, Zenon DEF Failed
  <2>2. /\ share.calls = {"write_row"} /\ share.unique \subseteq Index
    BY <1>1, <2>1, BulkFacts, Zenon
  <2>3. pc' = "verify_pk" => rc = "ok"
    BY <1>1, <1>2, <1>4, <2>1, Zenon DEF Rest, Buffered
  <2>4. Arguments' /\ Calls' /\ StoreIndexed' /\ ViewIndexed'
    BY <1>1, <1>2, <1>4, <2>1, <2>3, StoreKept, Zenon DEF Rest, Arguments, Calls, ViewIndexed
  <2>5. WritesIndexed'
    <3>1. \A k, key, p : (RowOfTx(k, key, p)' <=> RowOfTx(k, key, p)) /\ ~ RowOfCall(k, key, p)'
                         /\ ~ RowOfCall(k, key, p)
      BY <1>1, <1>4, <2>1, Zenon DEF RowOfTx, RowOfCall, SecondaryKey, PackRecord
    <3> QED
      BY <1>1, <1>2, <2>1, <2>2, <3>1, ZenonT(40) DEF Rest, WritesIndexed
  <2>6. Lengths'
    BY <1>1, <1>2, <1>4, <2>1, Zenon DEF Rest, Lengths
  <2>7. Buffered'
    BY <1>1, <1>2, <1>4, <2>1, ZenonT(40) DEF Rest, Buffered, SecondaryKey, PackRecord
  <2> QED
    BY <2>4, <2>5, <2>6, <2>7, Zenon DEF Rest
<1> QED
  BY <1>1, <1>3, <1>4, Zenon

\* A transaction that only inserts, all of whose keys have been checked against
\* the committed table, sees an indexed table.
LEMMA CheckedView ==
  ASSUME IInv, bulk # "none", ~ Failed, pc \in {"idle", "return"},
         Range(pk_buffer) = {}, \A k \in Index : Range(sk_buffer[k]) = {},
         NEW k \in Index, NEW key \in IndexKey, NEW p \in Pk
  PROVE  IndexRead(k, key) = p <=> BaseRead(p) # NoRow /\ key = SecondaryKey(k, p, BaseRead(p))
<1>1. /\ TypeOK /\ Rest /\ share.unique \subseteq Index
      /\ \A q \in Pk : wbase[q] # NoRow
      /\ windex[k][key] # NoPk
      /\ \A q \in Pk : windex[k][key] = q <=> RowOfTx(k, key, q) \/ RowOfCall(k, key, q)
      /\ \A q \in Pk : wbase[q] \in Row => base[q] = NoRow
      /\ k \in share.unique /\ windex[k][key] \in Pk => index[k][key] = NoPk
  BY BulkFacts, ZenonT(40)
<1>2. \A q \in Pk : windex[k][key] = q <=> RowOfTx(k, key, q)
  BY <1>1, Zenon DEF RowOfCall
<1>3. index[k][key] = p <=> base[p] # NoRow /\ key = SecondaryKey(k, p, base[p])
  BY <1>1 DEF Rest, StoreIndexed
<1>4. CASE windex[k][key] = Untouched
  <2>1. IndexRead(k, key) = index[k][key]
    BY <1>4, Zenon DEF IndexRead, Over
  <2>2. CASE wbase[p] = Untouched
    BY <1>3, <2>1, <2>2, Zenon DEF BaseRead, Over
  <2>3. CASE wbase[p] \in Row
    <3>1. BaseRead(p) = wbase[p] /\ base[p] = NoRow
      BY <1>1, <2>3, TableAssumption, Zenon DEF BaseRead, Over
    <3>2. key # SecondaryKey(k, p, wbase[p])
      BY <1>2, <1>4, <2>3, TableAssumption, Zenon DEF RowOfTx
    <3> QED
      BY <1>3, <2>1, <3>1, <3>2, Zenon
  <2> QED
    BY <1>1, <2>2, <2>3, Zenon DEF TypeOK
<1>5. ASSUME NEW q \in Pk, windex[k][key] = q
      PROVE  IndexRead(k, key) = p <=> BaseRead(p) # NoRow /\ key = SecondaryKey(k, p, BaseRead(p))
  <2>1. IndexRead(k, key) = q
    BY <1>5, TableAssumption, Zenon DEF IndexRead, Over
  <2>2. wbase[q] \in Row /\ key = SecondaryKey(k, q, wbase[q])
    BY <1>2, <1>5, Zenon DEF RowOfTx
  <2>3. CASE p = q
    BY <2>1, <2>2, <2>3, TableAssumption, Zenon DEF BaseRead, Over
  <2>4. CASE p # q /\ wbase[p] \in Row
    <3>1. BaseRead(p) = wbase[p] /\ ~ RowOfTx(k, key, p)
      BY <1>2, <1>5, <2>4, TableAssumption, Zenon DEF BaseRead, Over
    <3> QED
      BY <2>1, <2>4, <3>1, Zenon DEF RowOfTx
  <2>5. CASE p # q /\ wbase[p] = Untouched
    <3>1. BaseRead(p) = base[p]
      BY <2>5, Zenon DEF BaseRead, Over
    <3>2. CASE k \in share.unique
      BY <1>1, <1>3, <1>5, <2>1, <2>5, <3>1, <3>2, TableAssumption, ZenonT(40)
    <3>3. CASE k \notin share.unique
      BY <2>1, <2>2, <2>5, <3>3, SameKey
    <3> QED
      BY <3>2, <3>3, Zenon
  <2> QED
    BY <1>1, <2>3, <2>4, <2>5, Zenon DEF TypeOK
<1> QED
  BY <1>1, <1>4, <1>5 DEF TypeOK

\* The bulk insert is over.
LEMMA EndBulkKeeps == ASSUME IInv, EndBulk PROVE Rest'
<1> USE DEF store, wset, args
<1>1. /\ bulk = "end" /\ bulk' = "none" /\ pc \in {"idle", "return"} /\ pk_buffer' = << >>
      /\ \A k \in Index : sk_buffer'[k] = << >>
      /\ UNCHANGED << share, store, wset, pc, kid, args, rc >>
  BY Zenon DEF EndBulk
<1>2. Rest /\ TypeOK /\ (Failed' <=> Failed)
  BY <1>1, Zenon DEF IInv, Failed
<1>3. CASE Failed
  BY <1>1, <1>2, <1>3, FailureKeeps, Zenon
<1>4. CASE ~ Failed
  <2>1. pk_buffer = << >> /\ \A k \in share.unique : Len(sk_buffer[k]) = 0
    BY <1>1, <1>2, <1>4 DEF Rest, Lengths
  <2>2. share.calls = {"write_row"} /\ share.unique \subseteq Index
    BY <1>1, <1>4, BulkFacts, Zenon
  <2>3. \A k \in Index : sk_buffer[k] = << >>
    <3> SUFFICES ASSUME NEW k \in Index  PROVE sk_buffer[k] = << >>
      BY Zenon
    <3>1. CASE k \in share.unique
      <4>1. sk_buffer[k] \in Seq(IndexKey) /\ Len(sk_buffer[k]) = 0
        BY <1>2, <2>1, <3>1, Zenon DEF TypeOK
      <4> QED
        BY <4>1
    <3>2. CASE k \notin share.unique
      BY <1>2, <3>2, Zenon DEF Rest, Lengths
    <3> QED
      BY <3>1, <3>2, Zenon
  <2>4. Range(pk_buffer) = {} /\ \A k \in Index : Range(sk_buffer[k]) = {}
    BY <2>1, <2>3, RangeEmpty, Zenon
  <2>5. Range(pk_buffer') = {} /\ \A k \in Index : Range(sk_buffer'[k]) = {}
    BY <1>1, RangeEmpty, Zenon
  <2>6. Arguments' /\ Calls' /\ StoreIndexed'
    BY <1>1, <1>2, StoreKept, Zenon DEF Rest, Arguments, Calls
  <2>7. ViewIndexed'
    <3> SUFFICES ASSUME NEW k \in Index, NEW key \in IndexKey, NEW p \in Pk
        PROVE (IndexRead(k, key) = p <=> Seen(k, p) # NoRow /\ key = SecondaryKey(k, p, Seen(k, p)))'
      BY Zenon DEF ViewIndexed
    <3>1. Seen(k, p)' = BaseRead(p) /\ IndexRead(k, key)' = IndexRead(k, key)
      BY <1>1, Zenon DEF Seen, BaseRead, IndexRead
    <3>2. SecondaryKey(k, p, Seen(k, p))' = SecondaryKey(k, p, BaseRead(p))
      BY <1>1, <3>1, Zenon DEF SecondaryKey, PackRecord
    <3>3. IndexRead(k, key) = p <=> BaseRead(p) # NoRow /\ key = SecondaryKey(k, p, BaseRead(p))
      BY <1>1, <1>4, <2>4, CheckedView, ZenonT(40)
    <3> QED
      BY <3>1, <3>2, <3>3, Zenon
  <2>8. WritesIndexed'
    <3>1. \A k, key, p : (RowOfTx(k, key, p)' <=> RowOfTx(k, key, p)) /\ ~ RowOfCall(k, key, p)'
                         /\ ~ RowOfCall(k, key, p)
      BY <1>1, ZenonT(40) DEF RowOfTx, RowOfCall, SecondaryKey, PackRecord
    <3>2. \A k \in share.unique : Range(sk_buffer'[k]) = Range(sk_buffer[k])
      BY <2>2, <2>4, <2>5, Zenon
    <3> QED
      <4>1. WritesIndexed
        BY <1>2, Zenon DEF Rest
      <4>2. /\ \A p \in Pk : wbase[p] # NoRow
            /\ \A k \in Index, key \in IndexKey : windex[k][key] # NoPk
            /\ \A k \in Index, key \in IndexKey, p \in Pk : windex[k][key] = p <=> RowOfTx(k, key, p)
            /\ \A p \in Pk : wbase[p] \in Row => p \in Range(pk_buffer) \/ base[p] = NoRow
            /\ \A k \in share.unique, key \in IndexKey :
                 windex[k][key] \in Pk => key \in Range(sk_buffer[k]) \/ index[k][key] = NoPk
        BY <1>4, <2>2, <3>1, <4>1, Zenon DEF WritesIndexed
      <4>3. \A p \in Pk : wbase[p] \in Row => p \in Range(pk_buffer') \/ base[p] = NoRow
        BY <2>4, <2>5, <4>2, Zenon
      <4>4. \A k \in share.unique, key \in IndexKey :
              windex[k][key] \in Pk => key \in Range(sk_buffer'[k]) \/ index[k][key] = NoPk
        BY <3>2, <4>2, Zenon
      <4>5. share' = share /\ base' = base /\ index' = index /\ wbase' = wbase /\ windex' = windex
        BY <1>1, Zenon
      <4> QED
        BY <3>1, <4>2, <4>3, <4>4, <4>5, ZenonT(40) DEF WritesIndexed
  <2>9. Lengths' /\ Buffered'
    BY <1>1, <2>2, <2>5, TableAssumption DEF Lengths, Buffered
  <2> QED
    BY <2>6, <2>7, <2>8, <2>9, Zenon DEF Rest
<1> QED
  BY <1>3, <1>4, Zenon

-----------------------------------------------------------------------------
(* The statement and the end of the transaction.                           *)

\* The statement goes on.
LEMMA ContinueKeeps == ASSUME IInv, Continue PROVE Rest'
<1> USE DEF store, wset, args, buffers
<1>1. /\ pc = "return" /\ ~ Failed /\ bulk # "end" /\ pc' = "idle"
      /\ UNCHANGED << share, store, wset, kid, args, buffers, rc >>
  BY Zenon DEF Continue
<1>2. Rest /\ TypeOK /\ ~ Failed'
  BY <1>1, Zenon DEF IInv, Failed
<1>3. Arguments' /\ Calls' /\ StoreIndexed'
  BY <1>1, <1>2, StoreKept, Zenon DEF Rest, Arguments, Calls
<1>4. ViewIndexed'
  <2>1. CASE bulk = "none"
    <3>1. \A k \in Index, p \in Pk : Seen(k, p)' = Seen(k, p)
      BY <1>1, Zenon DEF Seen, BaseRead
    <3> QED
      BY <1>1, <1>2, <2>1, <3>1, ViewKept, Zenon DEF IndexRead
  <2>2. CASE bulk # "none"
    BY <1>1, <2>2, Zenon DEF ViewIndexed
  <2> QED
    BY <2>1, <2>2, Zenon
<1>5. WritesIndexed'
  <2>1. \A k, key, p : (RowOfTx(k, key, p)' <=> RowOfTx(k, key, p)) /\ ~ RowOfCall(k, key, p)'
                       /\ ~ RowOfCall(k, key, p)
    BY <1>1, Zenon DEF RowOfTx, RowOfCall, SecondaryKey, PackRecord
  <2> QED
    BY <1>1, <1>2, <2>1, Zenon DEF Rest, WritesIndexed
<1>6. Lengths'
  BY <1>1, <1>2, Zenon DEF Rest, Lengths
<1>7. Buffered'
  BY <1>1, <1>2, Zenon DEF Rest, Buffered, SecondaryKey, PackRecord
<1> QED
  BY <1>3, <1>4, <1>5, <1>6, <1>7, Zenon DEF Rest

\* With an empty write set between two statements, the transaction sees the
\* committed table.
LEMMA EmptyKeeps ==
  ASSUME TypeOK, TypeOK', share' = share, bulk' = "none", pc' = "idle", StoreIndexed', EmptyWriteSet,
         pk_buffer' = << >>, \A k \in Index : sk_buffer'[k] = << >>
  PROVE  Rest'
<1>1. ~ Failed' /\ share.unique \subseteq Index
  BY TableAssumption, Zenon DEF Failed, TypeOK
<1>2. /\ \A p \in Pk : wbase'[p] = Untouched
      /\ \A k \in Index, key \in IndexKey : windex'[k][key] = Untouched
  BY Zenon DEF EmptyWriteSet
<1>3. Range(pk_buffer') = {} /\ \A k \in Index : Range(sk_buffer'[k]) = {}
  BY RangeEmpty, Zenon
<1>4. Arguments' /\ Calls'
  BY Zenon DEF Arguments, Calls
<1>5. ViewIndexed'
  <2> SUFFICES ASSUME NEW k \in Index, NEW key \in IndexKey, NEW p \in Pk
      PROVE (IndexRead(k, key) = p <=> Seen(k, p) # NoRow /\ key = SecondaryKey(k, p, Seen(k, p)))'
    BY Zenon DEF ViewIndexed
  <2>1. Seen(k, p)' = base'[p] /\ IndexRead(k, key)' = index'[k][key]
    BY <1>2, Zenon DEF Seen, BaseRead, IndexRead, Over
  <2>2. SecondaryKey(k, p, Seen(k, p))' = SecondaryKey(k, p, base[p])'
    BY <2>1, Zenon DEF SecondaryKey, PackRecord
  <2> QED
    BY <2>1, <2>2 DEF StoreIndexed
<1>6. WritesIndexed'
  BY <1>1, <1>2, TableAssumption, ZenonT(40) DEF WritesIndexed, RowOfTx, RowOfCall
<1>7. Lengths' /\ Buffered'
  BY <1>1, <1>3, TableAssumption DEF Lengths, Buffered
<1> QED
  BY <1>4, <1>5, <1>6, <1>7, Zenon DEF Rest

\* The buffers outside a bulk insert.
LEMMA EmptyBuffers ==
  ASSUME IInv, bulk = "none", UNCHANGED buffers
  PROVE  bulk' = "none" /\ pk_buffer' = << >> /\ \A k \in Index : sk_buffer'[k] = << >>
BY Zenon DEF IInv, Rest, Lengths, buffers

\* A rollback forgets the write set.
LEMMA RollbackKeeps == ASSUME IInv, eloq_rollback, TypeOK' PROVE Rest'
<1>1. bulk = "none" /\ EmptyWriteSet /\ pc' = "idle" /\ UNCHANGED << share, store, buffers >>
  BY Zenon DEF eloq_rollback
<1>2. TypeOK /\ StoreIndexed'
  BY <1>1, StoreKept, Zenon DEF IInv, Rest
<1> QED
  BY <1>1, <1>2, EmptyKeeps, EmptyBuffers, Zenon

\* A commit installs what the transaction sees.
LEMMA CommitKeeps == ASSUME IInv, eloq_commit, TypeOK' PROVE Rest'
<1>1. /\ pc = "idle" /\ bulk = "none" /\ EmptyWriteSet /\ pc' = "idle" /\ UNCHANGED << share, buffers >>
      /\ base' = [p \in Pk |-> BaseRead(p)]
      /\ index' = [k \in Index |-> [key \in IndexKey |-> IndexRead(k, key)]]
  BY Zenon DEF eloq_commit
<1>2. TypeOK /\ Rest /\ ~ Failed
  BY <1>1, Zenon DEF IInv, Failed
<1>3. StoreIndexed'
  <2> SUFFICES ASSUME NEW k \in Index, NEW key \in IndexKey, NEW p \in Pk
      PROVE (index[k][key] = p <=> base[p] # NoRow /\ key = SecondaryKey(k, p, base[p]))'
    BY Zenon DEF StoreIndexed
  <2>1. base'[p] = BaseRead(p) /\ index'[k][key] = IndexRead(k, key) /\ Seen(k, p) = BaseRead(p)
    BY <1>1, Zenon DEF Seen
  <2>2. SecondaryKey(k, p, base[p])' = SecondaryKey(k, p, BaseRead(p))
    BY <1>1, <2>1, Zenon DEF SecondaryKey, PackRecord
  <2> QED
    BY <1>1, <1>2, <2>1, <2>2 DEF Rest, ViewIndexed
<1> QED
  BY <1>1, <1>2, <1>3, EmptyKeeps, EmptyBuffers, Zenon

\* The empty table is indexed.
LEMMA InitIInv == Init /\ CleanSkips => IInv
<1> SUFFICES ASSUME Init, CleanSkips  PROVE Rest
  BY TypeInit, Zenon DEF IInv
<1>1. /\ pc = "idle" /\ bulk = "none" /\ pk_buffer = << >> /\ share \in Tables
      /\ \A k \in Index : sk_buffer[k] = << >>
      /\ \A p \in Pk : wbase[p] = Untouched /\ base[p] = NoRow
      /\ \A k \in Index, key \in IndexKey : windex[k][key] = Untouched /\ index[k][key] = NoPk
  BY Zenon DEF Init
<1>2. ~ Failed /\ share.unique \subseteq Index
  BY <1>1, TableAssumption, Zenon DEF Failed
<1>3. Range(pk_buffer) = {} /\ \A k \in Index : Range(sk_buffer[k]) = {}
  BY <1>1, RangeEmpty, Zenon
<1>4. Arguments /\ Calls
  BY <1>1, Zenon DEF Arguments, Calls
<1>5. StoreIndexed
  BY <1>1, TableAssumption, Zenon DEF StoreIndexed
<1>6. ViewIndexed
  BY <1>1, TableAssumption, ZenonT(40) DEF ViewIndexed, Seen, BaseRead, IndexRead, Over
<1>7. WritesIndexed
  BY <1>1, <1>2, TableAssumption, Zenon DEF WritesIndexed, RowOfTx, RowOfCall
<1>8. Lengths /\ Buffered
  BY <1>1, <1>2, <1>3, TableAssumption DEF Lengths, Buffered
<1> QED
  BY <1>4, <1>5, <1>6, <1>7, <1>8, Zenon DEF Rest

\* A step that changes nothing.
LEMMA StutterKeeps == ASSUME IInv, UNCHANGED vars PROVE Rest'
<1> USE DEF vars, store, wset, args, buffers
<1>1. Rest
  BY Zenon DEF IInv
<1>2. Arguments' /\ Calls' /\ StoreIndexed'
  BY <1>1, StoreKept, ZenonT(40) DEF Rest, Arguments, Calls, BaseRead
<1>3. ViewIndexed'
  <2>1. CASE bulk = "none" /\ ~ Failed
    <3>1. /\ \A k \in Index, key \in IndexKey : IndexRead(k, key)' = IndexRead(k, key)
          /\ \A k \in Index, p \in Pk : Seen(k, p)' = Seen(k, p)
      BY ZenonT(40) DEF IndexRead, Seen, BaseRead
    <3> QED
      BY <1>1, <2>1, <3>1, ViewKept, Zenon
  <2>2. CASE ~ (bulk = "none" /\ ~ Failed)
    BY <2>2, Zenon DEF ViewIndexed, Failed
  <2> QED
    BY <2>1, <2>2, Zenon
<1>4. WritesIndexed'
  BY <1>1 DEF Rest, WritesIndexed, Failed, RowOfTx, RowOfCall, SecondaryKey, PackRecord
<1>5. Lengths' /\ Buffered'
  BY <1>1, ZenonT(40) DEF Rest, Lengths, Failed, Buffered, SecondaryKey, PackRecord
<1> QED
  BY <1>2, <1>3, <1>4, <1>5, Zenon DEF Rest

\* Every step keeps the invariant.
LEMMA NextIInv == IInv /\ [Next]_vars => IInv'
<1> SUFFICES ASSUME IInv, [Next]_vars  PROVE IInv'
  BY Zenon
<1>1. TypeOK'
  BY TypeNext, Zenon
<1>2. share' = share
  BY Zenon DEF Next, vars, write_row, update_row, delete_row, Enter, InsertCheck, InsertIndex,
     InsertDuplicate, InsertBase, UpdateSame, UpdateIndex, UpdateDuplicate, UpdateBase, DeleteIndex,
     DeleteBase, TxError, start_bulk_insert, BulkIndex, BulkBase, BulkDuplicate, BulkError, CheckBase,
     CheckIndex, CheckDone, end_bulk_insert, EndBulk, Continue, eloq_rollback, eloq_commit, Return,
     ReturnCode, NextIndex, ToIndex
<1>3. CleanSkips'
  BY <1>2, Zenon DEF IInv, CleanSkips
<1>4. Rest'
  <2>1. CASE \/ \E p \in Pk, new \in Row : write_row(p, new)
             \/ \E p, q \in Pk, new \in Row : update_row(p, q, new)
             \/ \E p \in Pk : delete_row(p)
    BY <2>1, CallsKeep, Zenon
  <2>2. CASE InsertCheck \/ InsertIndex \/ InsertDuplicate \/ InsertBase
    BY <2>2, InsertCheckKeeps, InsertIndexKeeps, InsertDuplicateKeeps, InsertBaseKeeps, Zenon
  <2>3. CASE UpdateSame \/ UpdateIndex \/ UpdateDuplicate \/ UpdateBase \/ DeleteIndex \/ DeleteBase \/ TxError
    BY <2>3, UpdateSameKeeps, UpdateIndexKeeps, UpdateDuplicateKeeps, UpdateBaseKeeps, DeleteIndexKeeps,
       DeleteBaseKeeps, TxErrorKeeps, Zenon
  <2>4. CASE \/ start_bulk_insert \/ BulkIndex \/ BulkBase \/ BulkDuplicate \/ BulkError
             \/ CheckBase \/ CheckIndex \/ CheckDone \/ end_bulk_insert \/ EndBulk
    BY <2>4, StartKeeps, BulkIndexKeeps, BulkBaseKeeps, BulkReturnKeeps, CheckBaseKeeps, CheckIndexKeeps,
       CheckDoneKeeps, EndInsertKeeps, EndBulkKeeps, Zenon
  <2>5. CASE Continue \/ eloq_rollback \/ eloq_commit \/ UNCHANGED vars
    BY <1>1, <2>5, ContinueKeeps, RollbackKeeps, CommitKeeps, StutterKeeps, Zenon
  <2> QED
    BY <2>1, <2>2, <2>3, <2>4, <2>5, Zenon DEF Next
<1> QED
  BY <1>1, <1>3, <1>4, Zenon DEF IInv

-----------------------------------------------------------------------------
(* What follows.                                                           *)

\* The invariant holds in every behaviour of a table whose statements skip
\* duplicates cleanly.
LEMMA Invariance == Spec /\ CleanSkips => []IInv
BY InitIInv, NextIInv, PTL DEF Spec

\* The variables of the handler and the write set keep their types, and no
\* buffer of unchecked keys outgrows the batch, whatever write_row(),
\* update_row(), delete_row() and the bulk insert are called for.
THEOREM TypesHold == Spec /\ CleanSkips => []TypeOK
<1>1. IInv => TypeOK
  BY Zenon DEF IInv
<1> QED
  BY <1>1, Invariance, PTL

\* Between two calls every index entry leads to a row with that key and every
\* row has its entry in every index, through inserts, updates that change the
\* primary key, deletes, skipped duplicates, failures, batches whose keys are
\* checked later, rollbacks and commits.
THEOREM IndexesFollowRows == Spec /\ CleanSkips => []ViewConsistent
<1>1. IInv => ViewConsistent
  <2> SUFFICES ASSUME IInv, pc = "idle", bulk = "none", NEW k \in Index, NEW key \in IndexKey, NEW p \in Pk
      PROVE IndexRead(k, key) = p <=> BaseRead(p) # NoRow /\ key = SecondaryKey(k, p, BaseRead(p))
    BY Zenon DEF ViewConsistent
  <2>1. Seen(k, p) = BaseRead(p) /\ ~ Failed
    BY Zenon DEF Seen, Failed
  <2> QED
    BY <2>1 DEF IInv, Rest, ViewIndexed
<1> QED
  BY <1>1, Invariance, PTL

\* What makes a batch not yet part of the table: before the batch is checked,
\* that its primary key is buffered.
LEMMA UncheckedPk ==
  IInv /\ bulk # "none" /\ ~ Failed /\ pc \in {"idle", "return", "bulk", "verify_pk"} =>
    \A p \in Pk : Unchecked(p) <=> p \in Range(pk_buffer)
BY Zenon DEF Unchecked, IInv, Rest, Buffered

\* The same in the next state.
LEMMA UncheckedPkNext ==
  (IInv /\ bulk # "none" /\ ~ Failed /\ pc \in {"idle", "return", "bulk", "verify_pk"} =>
    \A p \in Pk : Unchecked(p) <=> p \in Range(pk_buffer))'
BY UncheckedPk, PTL

\* A duplicate is reported for a row that is there: by the check of the primary
\* key, by the unique indexes through which Insert() and Update() look for the
\* key, by the write set of a bulk insert and by the batch reads of
\* BulkUniqueCheck().
THEOREM DuplicatesAreReal == Spec /\ CleanSkips => DuplicateIsReal
<1>1. ASSUME IInv, Next, rc = "ok", rc' = "dup"  PROVE Duplicate
  <2>1. /\ TypeOK /\ Rest /\ ~ Failed /\ Arguments
    BY <1>1, Zenon DEF IInv, Rest, Failed
  <2>2. ASSUME pc \in {"check", "insert", "update"}, NEW q \in Pk, q # old_pk \/ new_pk # old_pk,
               BaseRead(q) # NoRow, Meets(new_pk, new_data, q, BaseRead(q))
        PROVE  Duplicate
    BY <2>2, Zenon DEF Duplicate
  <2>3. ASSUME pc \in {"insert", "update"}, kid \in Index, Taken
        PROVE  \E q \in Pk : /\ BaseRead(q) # NoRow /\ NewKey = SecondaryKey(kid, q, BaseRead(q))
                             /\ Meets(new_pk, new_data, q, BaseRead(q))
    <3>1. NewKey \in IndexKey /\ bulk = "none"
      BY <2>1, <2>3, KeyType, Zenon DEF NewKey, Arguments, Rest, Calls
    <3>2. PICK q \in Pk : IndexRead(kid, NewKey) = q
      BY <2>1, <2>3, <3>1, ReadType, Zenon DEF Taken
    <3>3. Seen(kid, q) = BaseRead(q)
      BY <2>3 DEF Seen, Index
    <3>4. BaseRead(q) # NoRow /\ NewKey = SecondaryKey(kid, q, BaseRead(q))
      BY <2>1, <2>3, <3>1, <3>2, <3>3 DEF Rest, ViewIndexed
    <3> QED
      BY <2>3, <3>4, SameKey DEF Taken, NewKey, Meets
  <2>4. CASE InsertCheck
    <3>1. pc = "check" /\ BaseRead(new_pk) # NoRow /\ new_pk \in Pk /\ new_pk # old_pk
      BY <1>1, <2>1, <2>4, Zenon DEF InsertCheck, Return, ReturnCode, ToIndex, Arguments
    <3> QED
      BY <2>2, <3>1, Zenon DEF Meets
  <2>5. CASE InsertDuplicate
    <3>1. pc = "insert" /\ kid \in Index /\ Taken /\ new_pk # old_pk
      BY <2>1, <2>5, Zenon DEF InsertDuplicate, Arguments
    <3> QED
      BY <2>2, <2>3, <3>1, Zenon
  <2>6. CASE UpdateDuplicate
    <3>1. /\ pc = "update" /\ kid \in Index /\ Taken /\ NewKey # OldKey
          /\ old_pk = new_pk /\ old_data = BaseRead(old_pk)
      BY <2>1, <2>6, TableAssumption, Zenon DEF UpdateDuplicate, Arguments
    <3>2. PICK q \in Pk : /\ BaseRead(q) # NoRow /\ NewKey = SecondaryKey(kid, q, BaseRead(q))
                          /\ Meets(new_pk, new_data, q, BaseRead(q))
      BY <2>3, <3>1, Zenon
    <3>3. q # old_pk
      BY <3>1, <3>2, Zenon DEF OldKey
    <3> QED
      BY <2>2, <3>1, <3>2, <3>3, Zenon
  <2>7. CASE BulkDuplicate
    <3>1. /\ pc = "bulk" /\ Written /\ bulk # "none" /\ old_pk # new_pk /\ new_pk \in Pk /\ new_data \in Row
      BY <2>1, <2>7, Zenon DEF BulkDuplicate, Arguments, Rest, Calls
    <3>2. SUFFICES \E q \in Pk : wbase[q] \in Row /\ Meets(new_pk, new_data, q, wbase[q])
      BY <3>1, TableAssumption, Zenon DEF Duplicate, BaseRead, Over
    <3>3. CASE kid \in Index
      <4>1. NewKey \in IndexKey /\ kid \in share.unique
        BY <3>1, <3>3, KeyType, Zenon DEF NewKey, Written
      <4>2. PICK q \in Pk : windex[kid][NewKey] = q
        BY <2>1, <3>1, <3>3, <4>1, ZenonT(40) DEF Written, TypeOK
      <4>3. RowOfTx(kid, NewKey, q)
        BY <1>1, <2>1, <3>1, <3>3, <4>1, <4>2, BulkFacts, SMTT(60) DEF RowOfCall, Index
      <4> QED
        BY <3>3, <4>1, <4>3, SameKey DEF RowOfTx, NewKey, Meets
    <3>4. CASE kid \notin Index
      BY <2>1, <3>1, <3>4, Zenon DEF Written, Meets, TypeOK
    <3> QED
      BY <3>3, <3>4, Zenon
  <2>8. CASE CheckBase
    <3>1. pc = "verify_pk" /\ PkTaken
      BY <1>1, <2>8, Zenon DEF CheckBase, ReturnCode, ToIndex
    <3>2. PICK p \in Range(pk_buffer) : base[p] # NoRow
      BY <3>1, ZenonT(40) DEF PkTaken
    <3>3. p \in Pk /\ wbase[p] \in Row
      BY <2>1, <3>2 DEF TypeOK, Range, Rest, Buffered
    <3> QED
      BY <3>1, <3>2, <3>3, Zenon DEF Duplicate, Meets
  <2>9. CASE CheckIndex
    <3>1. pc = "verify" /\ kid \in share.unique /\ SkTaken(kid) /\ bulk # "none"
      BY <1>1, <2>1, <2>9, Zenon DEF CheckIndex, ReturnCode, ToIndex, Rest, Calls
    <3>2. kid \in Index
      BY <1>1, <2>1, <3>1, BulkFacts, Zenon
    <3>3. PICK key \in Range(sk_buffer[kid]) : index[kid][key] # NoPk
      BY <3>1, ZenonT(40) DEF SkTaken
    <3>4. key \in IndexKey /\ windex[kid][key] \in Pk
      BY <2>1, <3>1, <3>2, <3>3, SMTT(60) DEF TypeOK, Range, Rest, Buffered
    <3>5. PICK p \in Pk : windex[kid][key] = p
      BY <3>4, ZenonT(40)
    <3>6. wbase[p] \in Row /\ key = SecondaryKey(kid, p, wbase[p])
      BY <1>1, <2>1, <3>1, <3>2, <3>4, <3>5, BulkFacts, SMTT(60) DEF RowOfTx, RowOfCall
    <3>7. PICK q \in Pk : index[kid][key] = q
      BY <2>1, <3>2, <3>3, <3>4, SMTT(60) DEF TypeOK
    <3>8. base[q] # NoRow /\ key = SecondaryKey(kid, q, base[q])
      BY <2>1, <3>2, <3>4, <3>7, SMTT(60) DEF Rest, StoreIndexed
    <3>9. wbase[p][kid] = base[q][kid]
      BY <3>6, <3>8 DEF SecondaryKey, PackRecord
    <3> QED
      BY <3>1, <3>6, <3>8, <3>9, Zenon DEF Duplicate, Meets
  <2> QED
    BY <1>1, <2>4, <2>5, <2>6, <2>7, <2>8, <2>9, ZenonT(40) DEF Next, write_row, update_row, delete_row, Enter,
       InsertIndex, InsertBase, UpdateSame, UpdateIndex, UpdateBase, DeleteIndex, DeleteBase, TxError,
       start_bulk_insert, BulkIndex, BulkBase, BulkError, CheckDone, end_bulk_insert, EndBulk, Continue,
       eloq_rollback, eloq_commit, Return, ReturnCode, NextIndex, ToIndex
<1>2. IInv /\ [Next]_vars => [rc = "ok" /\ rc' = "dup" => Duplicate]_vars
  BY <1>1, Zenon
<1> QED
  BY <1>2, Invariance, PTL DEF Spec, DuplicateIsReal

-----------------------------------------------------------------------------
(* The table of unique keys that the handler implements.                   *)

\* An insert or update that has found all its unique keys free clashes with no
\* other row.
LEMMA NoClash ==
  ASSUME IInv, pc \in {"insert", "update"}, kid = N + 1, NEW q \in Pk, q # new_pk, BaseRead(q) # NoRow,
         NEW k \in share.unique
  PROVE  BaseRead(q)[k] # new_data[k]
<1>1. /\ TypeOK /\ Rest /\ ~ Failed /\ bulk = "none" /\ k \in Index /\ k < kid
      /\ new_pk \in Pk /\ new_data \in Row /\ new_data # NoRow
  BY TableAssumption, SMTT(60) DEF IInv, Rest, Failed, Calls, Arguments, TypeOK, Index
<1>2. SecondaryKey(k, new_pk, new_data) \in IndexKey
  BY <1>1, KeyType, Zenon
<1>3. Seen(k, new_pk) = new_data /\ Seen(k, q) = BaseRead(q)
  BY <1>1, Zenon DEF Seen
<1>4. IndexRead(k, SecondaryKey(k, new_pk, new_data)) = new_pk
  BY <1>1, <1>2, <1>3, ZenonT(40) DEF Rest, ViewIndexed
<1>5. SecondaryKey(k, new_pk, new_data) # SecondaryKey(k, q, BaseRead(q))
  BY <1>1, <1>2, <1>3, <1>4 DEF Rest, ViewIndexed
<1> QED
  BY <1>5, ZenonT(40) DEF SecondaryKey, PackRecord

\* A statement that fails, or a rollback, takes the rows back.
LEMMA RefineFailure ==
  ASSUME Failed', UNCHANGED << share, base >>
  PROVE  T!Rollback
BY Zenon DEF T!Rollback, ViewOfRows

\* A step that changes no row of the table.
LEMMA RefineStutter ==
  ASSUME ~ Failed, ~ Failed', UNCHANGED << share, base >>, pc # "delete", pc' # "delete",
         \A p \in Pk : BaseRead(p)' = BaseRead(p), bulk = "none", bulk' = "none"
  PROVE  UNCHANGED << share.unique, base, ViewOfRows >>
<1>1. ViewOfRows = [p \in Pk |-> BaseRead(p)] /\ ViewOfRows' = [p \in Pk |-> BaseRead(p)']
  BY Zenon DEF ViewOfRows
<1> QED
  BY <1>1, Zenon

\* A call starts: a row to be deleted leaves the table.
LEMMA RefineCalls ==
  ASSUME IInv, IInv',
         \/ \E p \in Pk, new \in Row : write_row(p, new)
         \/ \E p, q \in Pk, new \in Row : update_row(p, q, new)
         \/ \E p \in Pk : delete_row(p)
  PROVE  T!Next \/ UNCHANGED << share.unique, base, ViewOfRows >>
<1> USE DEF store, wset, buffers
<1>1. UNCHANGED << share, store, wset, buffers >> /\ pc = "idle" /\ pc' \in {"check", "bulk", "update", "delete"}
  BY Zenon DEF write_row, update_row, delete_row, Enter
<1>2. ~ Failed /\ ~ Failed'
  BY <1>1, Zenon DEF Failed
<1>3. \A p \in Pk : BaseRead(p)' = BaseRead(p) /\ (Unchecked(p)' <=> Unchecked(p))
  BY <1>1, Zenon DEF BaseRead, Unchecked, SecondaryKey, PackRecord
<1>4. CASE pc' # "delete"
  <2>1. /\ ViewOfRows = [p \in Pk |-> IF bulk # "none" /\ Unchecked(p) THEN base[p] ELSE BaseRead(p)]
        /\ ViewOfRows' = [p \in Pk |-> IF bulk' # "none" /\ Unchecked(p)' THEN base'[p] ELSE BaseRead(p)']
    BY <1>1, <1>2, <1>4, Zenon DEF ViewOfRows
  <2>2. bulk' = bulk /\ base' = base
    BY <1>1, Zenon
  <2>3. ViewOfRows' = ViewOfRows
    BY <1>3, <2>1, <2>2, Zenon
  <2> QED
    BY <1>1, <2>3, Zenon
<1>5. CASE pc' = "delete"
  <2>1. PICK p \in Pk : delete_row(p)
    BY <1>5, Zenon DEF write_row, update_row, delete_row, Enter
  <2>2. BaseRead(p) # NoRow /\ old_pk' = p /\ "delete_row" \in share.calls
    BY <2>1, ZenonT(40) DEF delete_row, Enter
  <2>3. bulk = "none" /\ bulk' = "none"
    BY <1>1, <2>2 DEF IInv, Rest, Calls
  <2>4. /\ ViewOfRows = [q \in Pk |-> BaseRead(q)]
        /\ ViewOfRows' = [q \in Pk |-> IF q = p THEN NoRow ELSE BaseRead(q)']
    BY <1>1, <1>2, <1>5, <2>2, <2>3, Zenon DEF ViewOfRows
  <2>5. T!Delete(p)
    BY <1>1, <1>3, <2>2, <2>4, Zenon DEF T!Delete
  <2> QED
    BY <2>5, Zenon DEF T!Next
<1> QED
  BY <1>4, <1>5, Zenon

\* Insert() and Update() change the table when they write the record, Delete()
\* has changed it before.
LEMMA RefineRows ==
  ASSUME IInv, IInv',
         \/ InsertCheck \/ InsertIndex \/ InsertDuplicate \/ UpdateSame \/ UpdateIndex \/ UpdateDuplicate
         \/ DeleteIndex \/ DeleteBase \/ TxError
  PROVE  T!Next \/ UNCHANGED << share.unique, base, ViewOfRows >>
<1> USE DEF Return, ReturnCode, NextIndex, ToIndex, store, wset, args, buffers
<1>1. /\ UNCHANGED << share, base, bulk, old_pk >> /\ pc \in {"check", "insert", "update", "delete"}
  BY Zenon DEF InsertCheck, InsertIndex, InsertDuplicate, UpdateSame, UpdateIndex, UpdateDuplicate,
     DeleteIndex, DeleteBase, TxError, TxUpsert
<1>2. ~ Failed /\ bulk = "none" /\ bulk' = "none" /\ TypeOK /\ Rest
  BY <1>1, Zenon DEF Failed, IInv, Rest, Calls
<1>3. CASE Failed'
  BY <1>1, <1>3, RefineFailure, Zenon DEF T!Next
<1>4. CASE ~ Failed' /\ ~ DeleteBase /\ ~ DeleteIndex
  <2>1. UNCHANGED << base, wbase >> /\ pc # "delete" /\ pc' # "delete"
    BY <1>4, Zenon DEF InsertCheck, InsertIndex, InsertDuplicate, UpdateSame, UpdateIndex, UpdateDuplicate,
       TxError, TxUpsert, Failed
  <2> QED
    BY <1>1, <1>2, <1>4, <2>1, RefineStutter, Zenon DEF BaseRead
<1>5. CASE ~ Failed' /\ DeleteIndex
  <2>1. UNCHANGED << base, wbase >> /\ pc = "delete" /\ pc' = "delete"
    BY <1>5, Zenon DEF DeleteIndex, TxUpsert
  <2>2. /\ ViewOfRows = [q \in Pk |-> IF q = old_pk THEN NoRow ELSE BaseRead(q)]
        /\ ViewOfRows' = [q \in Pk |-> IF q = old_pk' THEN NoRow ELSE BaseRead(q)']
    BY <1>2, <1>5, <2>1, Zenon DEF ViewOfRows
  <2>3. \A q \in Pk : BaseRead(q)' = BaseRead(q)
    BY <2>1, Zenon DEF BaseRead
  <2> QED
    BY <1>1, <2>2, <2>3, Zenon
<1>6. CASE ~ Failed' /\ DeleteBase
  <2>1. wbase' = [wbase EXCEPT ![old_pk] = NoRow] /\ pc = "delete" /\ pc' = "return" /\ old_pk \in Pk
    BY <1>2, <1>6, Zenon DEF DeleteBase, TxUpsertBase, Rest, Arguments
  <2>2. \A q \in Pk : BaseRead(q)' = IF q = old_pk THEN NoRow ELSE BaseRead(q)
    BY <1>1, <1>2, <2>1, TableAssumption, Zenon DEF BaseRead, Over, TypeOK
  <2>3. /\ ViewOfRows = [q \in Pk |-> IF q = old_pk THEN NoRow ELSE BaseRead(q)]
        /\ ViewOfRows' = [q \in Pk |-> BaseRead(q)']
    BY <1>2, <1>6, <2>1, Zenon DEF ViewOfRows
  <2> QED
    BY <1>1, <2>2, <2>3, Zenon
<1> QED
  BY <1>3, <1>4, <1>5, <1>6, Zenon

\* The record is written.
LEMMA RefineRecord ==
  ASSUME IInv, IInv', InsertBase \/ UpdateBase
  PROVE  T!Next
<1> USE DEF store, wset, args, buffers
<1>1. /\ UNCHANGED << share, base, bulk, old_pk >> /\ pc \in {"insert", "update"} /\ kid = N + 1
      /\ wbase' = [wbase EXCEPT ![new_pk] = new_data]
  BY Zenon DEF InsertBase, UpdateBase, TxUpsertBase, Return, ReturnCode, ToIndex
<1>2. /\ ~ Failed /\ bulk = "none" /\ bulk' = "none" /\ TypeOK /\ Rest
      /\ new_pk \in Pk /\ new_data \in Row
  BY <1>1, Zenon DEF Failed, IInv, Rest, Calls, Arguments
<1>3. \A q \in Pk : BaseRead(q)' = IF q = new_pk THEN new_data ELSE BaseRead(q)
  BY <1>1, <1>2, TableAssumption, Zenon DEF BaseRead, Over, TypeOK
<1>4. ViewOfRows = [q \in Pk |-> BaseRead(q)]
  BY <1>1, <1>2, Zenon DEF ViewOfRows
<1>5. \A q \in Pk : q # new_pk => ~ T!Clashes(q, new_data)
  BY <1>1, <1>4, NoClash, Zenon DEF T!Clashes
<1>6. CASE pc = "insert"
  <2>1. InsertBase /\ BaseRead(new_pk) = NoRow /\ old_pk # new_pk
    BY <1>2, <1>6, Zenon DEF InsertBase, UpdateBase, Rest, Arguments
  <2>2. ~ T!Clashes(new_pk, new_data)
    BY <1>2, <1>4, <2>1, Zenon DEF T!Clashes
  <2>3. CASE old_pk = NoPk
    <3>1. pc' = "return" /\ rc' = "ok" /\ ~ Failed'
      BY <2>1, <2>3, Zenon DEF InsertBase, Return, ReturnCode, Failed
    <3>2. ViewOfRows' = [q \in Pk |-> IF q = new_pk THEN new_data ELSE BaseRead(q)]
      BY <1>2, <1>3, <3>1, Zenon DEF ViewOfRows
    <3> DEFINE row == [q \in {new_pk} |-> new_data]
    <3>3. row \in [{new_pk} -> Row] /\ row[new_pk] = new_data /\ {new_pk} \in SUBSET Pk
      BY <1>2, Zenon
    <3> HIDE DEF row
    <3>4. T!Insert({new_pk}, row)
      BY <1>1, <1>2, <1>4, <1>5, <2>1, <2>2, <3>2, <3>3, Zenon DEF T!Insert
    <3> QED
      BY <3>3, <3>4, Zenon DEF T!Next
  <2>4. CASE old_pk # NoPk
    <3>1. pc' = "delete" /\ ~ Failed'
      BY <2>1, <2>4, Zenon DEF InsertBase, ToIndex, Failed
    <3>2. old_pk \in Pk /\ BaseRead(old_pk) # NoRow
      BY <1>2, <1>6, <2>4, TableAssumption, Zenon DEF Rest, Arguments, TypeOK
    <3>3. ViewOfRows' = [q \in Pk |-> IF q = old_pk THEN NoRow
                                      ELSE IF q = new_pk THEN new_data ELSE BaseRead(q)]
      BY <1>1, <1>2, <1>3, <3>1, Zenon DEF ViewOfRows
    <3>4. ViewOfRows' = [ViewOfRows EXCEPT ![old_pk] = NoRow, ![new_pk] = new_data]
      BY <1>2, <1>4, <2>1, <3>2, <3>3, Zenon
    <3>5. T!Update(old_pk, new_pk, new_data)
      BY <1>1, <1>2, <1>4, <1>5, <2>1, <2>2, <3>2, <3>4, Zenon DEF T!Update
    <3> QED
      BY <1>2, <3>2, <3>5, Zenon DEF T!Next
  <2> QED
    BY <2>3, <2>4, Zenon
<1>7. CASE pc = "update"
  <2>1. UpdateBase /\ old_pk = new_pk /\ BaseRead(new_pk) # NoRow
    BY <1>2, <1>7, TableAssumption, Zenon DEF InsertBase, UpdateBase, Rest, Arguments
  <2>2. pc' = "return" /\ rc' = "ok" /\ ~ Failed'
    BY <2>1, Zenon DEF UpdateBase, Return, ReturnCode, Failed
  <2>3. ViewOfRows' = [q \in Pk |-> IF q = new_pk THEN new_data ELSE BaseRead(q)]
    BY <1>2, <1>3, <2>2, Zenon DEF ViewOfRows
  <2>4. ViewOfRows' = [ViewOfRows EXCEPT ![new_pk] = NoRow, ![new_pk] = new_data]
    BY <1>2, <1>4, <2>3, Zenon
  <2>5. T!Update(new_pk, new_pk, new_data)
    BY <1>1, <1>2, <1>4, <1>5, <2>1, <2>4, Zenon DEF T!Update
  <2> QED
    BY <1>2, <2>5, Zenon DEF T!Next
<1> QED
  BY <1>1, <1>6, <1>7, Zenon

\* The table in a bulk insert that has not failed: rows written and not all
\* checked are not in it.
LEMMA BulkView ==
  ASSUME ~ Failed, bulk # "none", pc # "delete"
  PROVE  ViewOfRows = [p \in Pk |-> IF Unchecked(p) THEN base[p] ELSE BaseRead(p)]
BY Zenon DEF ViewOfRows

\* Rows that a bulk insert writes do not enter the table.
LEMMA RefineBulk ==
  ASSUME IInv, IInv',
         \/ start_bulk_insert \/ BulkIndex \/ BulkBase \/ BulkDuplicate \/ BulkError
         \/ CheckDone \/ end_bulk_insert \/ EndBulk
  PROVE  T!Next \/ UNCHANGED << share.unique, base, ViewOfRows >>
<1> USE DEF Return, ReturnCode, ToIndex, store, wset, args, buffers
<1>1. UNCHANGED << share, base >>
  BY Zenon DEF start_bulk_insert, BulkIndex, BulkBase, BulkDuplicate, BulkError, CheckDone, end_bulk_insert,
     EndBulk
<1>2. CASE Failed'
  BY <1>1, <1>2, RefineFailure, Zenon DEF T!Next
<1>3. CASE ~ Failed'
  <2>1. SUFFICES ViewOfRows' = ViewOfRows
    BY <1>1, Zenon
  <2>2. CASE start_bulk_insert
    <3>1. /\ pc = "idle" /\ pc' = "idle" /\ bulk = "none" /\ bulk' = "rows" /\ ~ Failed
          /\ UNCHANGED << wbase, pk_buffer, sk_buffer, base >>
      BY <2>2, Zenon DEF start_bulk_insert, Failed
    <3>2. pk_buffer' = << >>
      BY <3>1, Zenon DEF IInv, Rest, Lengths
    <3>3. \A p \in Pk : ~ Unchecked(p)'
      BY <1>3, <3>1, <3>2, RangeEmpty, UncheckedPkNext, Zenon
    <3>4. ViewOfRows = [p \in Pk |-> BaseRead(p)] /\ ViewOfRows' = [p \in Pk |-> BaseRead(p)']
      BY <1>3, <3>1, <3>3, Zenon DEF ViewOfRows
    <3> QED
      BY <3>1, <3>4, Zenon DEF BaseRead
  <2>3. CASE BulkIndex
    <3>1. /\ pc = "bulk" /\ pc' = "bulk" /\ bulk # "none" /\ bulk' # "none" /\ ~ Failed
          /\ UNCHANGED << wbase, base, pk_buffer >>
      BY <2>3, Zenon DEF BulkIndex, TxUpsert, Buffer, Failed, IInv, Rest, Calls
    <3>2. \A p \in Pk : Unchecked(p) <=> p \in Range(pk_buffer)
      BY <3>1, UncheckedPk, Zenon
    <3>3. \A p \in Pk : Unchecked(p)' <=> p \in Range(pk_buffer)
      BY <1>3, <3>1, UncheckedPkNext, Zenon
    <3>4. ViewOfRows = [p \in Pk |-> IF Unchecked(p) THEN base[p] ELSE BaseRead(p)]
      BY <3>1, BulkView, Zenon
    <3>5. ViewOfRows' = [p \in Pk |-> IF Unchecked(p)' THEN base'[p] ELSE BaseRead(p)']
      BY <1>3, <3>1, Zenon DEF ViewOfRows
    <3>6. \A p \in Pk : BaseRead(p)' = BaseRead(p)
      BY <3>1, Zenon DEF BaseRead
    <3> QED
      BY <3>1, <3>2, <3>3, <3>4, <3>5, <3>6, Zenon
  <2>4. CASE BulkBase
    <3>1. /\ pc = "bulk" /\ kid = N + 1 /\ ~ Written /\ pc' \in {"verify_pk", "return"} /\ Buffer
          /\ base' = base /\ bulk' = bulk
          /\ wbase' = [wbase EXCEPT ![new_pk] = new_data]
      BY <2>4, ZenonT(40) DEF BulkBase, TxUpsertBase, Buffer
    <3>2. /\ bulk # "none" /\ bulk' # "none" /\ ~ Failed /\ TypeOK /\ new_pk \in Pk /\ kid \notin Index
          /\ \A p \in Range(pk_buffer) : wbase[p] \in Row
      <4>1. kid \notin Index
        BY <3>1, TableAssumption DEF Index
      <4>2. bulk # "none" /\ bulk' # "none" /\ ~ Failed
        BY <3>1, Zenon DEF Failed, IInv, Rest, Calls
      <4>3. TypeOK /\ new_pk \in Pk
        BY <3>1, Zenon DEF IInv, Rest, Arguments
      <4>4. \A p \in Range(pk_buffer) : wbase[p] \in Row
        BY <4>2, Zenon DEF IInv, Rest, Buffered
      <4> QED
        BY <4>1, <4>2, <4>3, <4>4, Zenon
    <3>3. wbase[new_pk] = Untouched
      BY <3>1, <3>2, BulkFacts, Zenon DEF Written
    <3>4. pk_buffer' = Append(pk_buffer, new_pk) /\ Range(pk_buffer') = Range(pk_buffer) \cup {new_pk}
      <4>1. pk_buffer \in Seq(Pk) /\ pk_buffer' = Append(pk_buffer, new_pk)
        BY <3>1, <3>2, Zenon DEF Buffer, TypeOK
      <4> QED
        BY <3>2, <4>1, RangeAppend, ZenonT(40)
    <3>5. \A p \in Pk : Unchecked(p) <=> p \in Range(pk_buffer)
      BY <3>1, <3>2, UncheckedPk, Zenon
    <3>6. \A p \in Pk : Unchecked(p)' <=> p \in Range(pk_buffer')
      BY <1>3, <3>1, <3>2, UncheckedPkNext, Zenon
    <3>7. ViewOfRows = [p \in Pk |-> IF Unchecked(p) THEN base[p] ELSE BaseRead(p)]
      BY <3>1, <3>2, BulkView, Zenon
    <3>8. ViewOfRows' = [p \in Pk |-> IF Unchecked(p)' THEN base'[p] ELSE BaseRead(p)']
      BY <1>3, <3>1, <3>2, Zenon DEF ViewOfRows
    <3>9. \A p \in Pk : p # new_pk => BaseRead(p)' = BaseRead(p)
      BY <3>1, <3>2, Zenon DEF BaseRead, TypeOK
    <3>10. BaseRead(new_pk) = base[new_pk]
      BY <3>3, Zenon DEF BaseRead, Over
    <3> QED
      BY <3>1, <3>4, <3>5, <3>6, <3>7, <3>8, <3>9, <3>10, Zenon
  <2>5. CASE BulkDuplicate \/ BulkError
    BY <1>3, <2>5, BulkReturnKeeps, Zenon
  <2>6. CASE CheckDone
    <3>1. /\ pc = "verify" /\ pc' = "return" /\ ~ Failed /\ bulk # "none" /\ bulk' # "none"
          /\ UNCHANGED << wbase, base, pk_buffer, sk_buffer, share >>
      BY <2>6, Zenon DEF CheckDone, Failed, IInv, Rest, Calls
    <3>2. \A p \in Pk : BaseRead(p)' = BaseRead(p) /\ (Unchecked(p)' <=> Unchecked(p))
      BY <3>1, Zenon DEF BaseRead, Unchecked, SecondaryKey, PackRecord
    <3>3. ViewOfRows = [p \in Pk |-> IF Unchecked(p) THEN base[p] ELSE BaseRead(p)]
      BY <3>1, BulkView, Zenon
    <3>4. ViewOfRows' = [p \in Pk |-> IF Unchecked(p)' THEN base'[p] ELSE BaseRead(p)']
      BY <1>3, <3>1, Zenon DEF ViewOfRows
    <3> QED
      BY <3>1, <3>2, <3>3, <3>4, Zenon
  <2>7. CASE end_bulk_insert
    <3>1. /\ bulk # "none" /\ bulk' # "none" /\ (pc = "idle" \/ Failed) /\ UNCHANGED << wbase, base, pk_buffer, sk_buffer, share, rc >>
          /\ pc' = (IF pc = "idle" /\ pk_buffer # << >> THEN "verify_pk" ELSE pc)
      BY <2>7, Zenon DEF end_bulk_insert
    <3>2. pc = "idle" /\ pc' \in {"idle", "verify_pk"} /\ ~ Failed
      BY <1>3, <3>1, Zenon DEF Failed
    <3>3. \A p \in Pk : BaseRead(p)' = BaseRead(p) /\ (Unchecked(p)' <=> Unchecked(p))
      BY <3>1, Zenon DEF BaseRead, Unchecked, SecondaryKey, PackRecord
    <3>4. ViewOfRows = [p \in Pk |-> IF Unchecked(p) THEN base[p] ELSE BaseRead(p)]
      BY <3>1, <3>2, BulkView, Zenon
    <3>5. ViewOfRows' = [p \in Pk |-> IF Unchecked(p)' THEN base'[p] ELSE BaseRead(p)']
      BY <1>3, <3>1, <3>2, Zenon DEF ViewOfRows
    <3> QED
      BY <3>1, <3>3, <3>4, <3>5, Zenon
  <2>8. CASE EndBulk
    <3>1. /\ bulk = "end" /\ bulk' = "none" /\ pc \in {"idle", "return"} /\ pc' = pc /\ rc' = rc
          /\ UNCHANGED << wbase, base, share >>
      BY <2>8, Zenon DEF EndBulk
    <3>2. ~ Failed
      BY <1>3, <3>1, Zenon DEF Failed
    <3>3. pk_buffer = << >>
      BY <3>1, <3>2, Zenon DEF IInv, Rest, Lengths
    <3>4. \A p \in Pk : ~ Unchecked(p)
      BY <3>1, <3>2, <3>3, RangeEmpty, UncheckedPk, Zenon
    <3>5. ViewOfRows = [p \in Pk |-> BaseRead(p)] /\ ViewOfRows' = [p \in Pk |-> BaseRead(p)']
      BY <1>3, <3>1, <3>2, <3>4, Zenon DEF ViewOfRows
    <3> QED
      BY <3>1, <3>5, Zenon DEF BaseRead
  <2> QED
    BY <2>2, <2>3, <2>4, <2>5, <2>6, <2>7, <2>8, Zenon
<1> QED
  BY <1>2, <1>3, Zenon

\* The primary keys of a batch have been checked: the rows enter the table if
\* there is no unique index.
LEMMA RefineCheckBase ==
  ASSUME IInv, IInv', CheckBase
  PROVE  T!Next \/ UNCHANGED << share.unique, base, ViewOfRows >>
<1> USE DEF store, wset, args
<1>1. /\ pc = "verify_pk" /\ pk_buffer' = << >>
      /\ UNCHANGED << bulk, sk_buffer, wset, share, base >>
      /\ \/ pc' = "return" /\ rc' \in {"dup", "error"}
         \/ ~ PkTaken /\ pc' = "verify" /\ kid' = 1
  BY Zenon DEF CheckBase, ReturnCode, ToIndex
<1>2. /\ ~ Failed /\ bulk # "none" /\ bulk' # "none"
  BY <1>1, ZenonT(40) DEF IInv, Failed, Rest, Calls
<1>3. /\ TypeOK /\ Rest /\ ~ share.ignore /\ share.unique \subseteq Index
      /\ Range(pk_buffer) \subseteq Pk /\ \A p \in Range(pk_buffer) : wbase[p] \in Row
  <2>1. TypeOK /\ Rest /\ ~ share.ignore /\ share.unique \subseteq Index
    BY <1>1, <1>2, BulkFacts, Zenon
  <2>2. \A p \in Range(pk_buffer) : wbase[p] \in Row
    BY <1>2, <2>1, ZenonT(40) DEF Rest, Buffered
  <2>3. Range(pk_buffer) \subseteq Pk
    BY <2>1 DEF TypeOK, Range
  <2> QED
    BY <2>1, <2>2, <2>3, Zenon
<1>4. CASE pc' = "return"
  <2>1. Failed'
    BY <1>1, <1>3, <1>4, Zenon DEF Failed
  <2> QED
    BY <1>1, <2>1, RefineFailure, Zenon DEF T!Next
<1>5. CASE ~ PkTaken /\ pc' = "verify" /\ kid' = 1
  <2>1. \A p \in Pk : Unchecked(p) <=> p \in Range(pk_buffer)
    BY <1>1, <1>2, UncheckedPk, Zenon
  <2>2. \A p \in Pk : Unchecked(p)' <=> /\ wbase[p] \in Row
                                        /\ \E k \in share.unique : SecondaryKey(k, p, wbase[p]) \in Range(sk_buffer[k])
    BY <1>1, RangeEmpty, Zenon DEF Unchecked, SecondaryKey, PackRecord
  <2>3. \A p \in Pk, k \in share.unique :
          wbase[p] \in Row => (p \in Range(pk_buffer) <=> SecondaryKey(k, p, wbase[p]) \in Range(sk_buffer[k]))
    BY <1>1, <1>2, <1>3, Zenon DEF Rest, Buffered
  <2>4. ViewOfRows = [p \in Pk |-> IF Unchecked(p) THEN base[p] ELSE BaseRead(p)]
    BY <1>1, <1>2, BulkView, Zenon
  <2>5. ViewOfRows' = [p \in Pk |-> IF Unchecked(p)' THEN base[p] ELSE BaseRead(p)]
    BY <1>1, <1>2, <1>5, Zenon DEF ViewOfRows, Failed, BaseRead
  <2>6. CASE share.unique # {}
    <3>1. \A p \in Pk : Unchecked(p)' <=> Unchecked(p)
      BY <1>3, <2>1, <2>2, <2>3, <2>6, Zenon
    <3> QED
      BY <1>1, <2>4, <2>5, <3>1, Zenon
  <2>7. CASE share.unique = {}
    <3> DEFINE S == Range(pk_buffer)
               row == [p \in S |-> wbase[p]]
    <3>1. row \in [S -> Row] /\ \A p \in S : row[p] = wbase[p] /\ wbase[p] \in Row /\ p \in Pk /\ base[p] = NoRow
      BY <1>3, <1>5, Zenon DEF PkTaken
    <3>2. \A p \in Pk : ViewOfRows[p] = IF p \in S THEN base[p] ELSE BaseRead(p)
      BY <2>1, <2>4, Zenon
    <3>3. \A p \in S : BaseRead(p) = wbase[p]
      BY <3>1, TableAssumption, Zenon DEF BaseRead, Over
    <3>4. ViewOfRows' = [p \in Pk |-> BaseRead(p)]
      BY <2>2, <2>5, <2>7, Zenon
    <3> HIDE DEF S, row
    <3>5. ViewOfRows' = [p \in Pk |-> IF p \in S THEN row[p] ELSE ViewOfRows[p]]
      BY <3>1, <3>2, <3>3, <3>4, Zenon
    <3>6. T!Insert(S, row)
      BY <1>1, <2>7, <3>1, <3>2, <3>5, Zenon DEF T!Insert, T!Clashes
    <3>7. S \in SUBSET Pk
      BY <3>1, Zenon
    <3> QED
      BY <3>1, <3>6, <3>7, Zenon DEF T!Next
  <2> QED
    BY <2>6, <2>7, Zenon
<1> QED
  BY <1>1, <1>4, <1>5, Zenon

\* The keys of one index have been checked: with the last index, the rows of the
\* batch enter the table.
LEMMA RefineCheckIndex ==
  ASSUME IInv, IInv', CheckIndex
  PROVE  T!Next \/ UNCHANGED << share.unique, base, ViewOfRows >>
<1> USE DEF store, wset, args
<1>1. /\ pc = "verify" /\ kid \in share.unique
      /\ UNCHANGED << bulk, pk_buffer, wset, share, base >>
      /\ sk_buffer' = [sk_buffer EXCEPT ![kid] = << >>]
      /\ \/ pc' = "return" /\ rc' \in {"dup", "error"}
         \/ ~ SkTaken(kid) /\ pc' = "verify" /\ kid' = kid + 1
  BY Zenon DEF CheckIndex, ReturnCode, ToIndex
<1>2. /\ ~ Failed /\ bulk # "none" /\ bulk' # "none"
  BY <1>1, Zenon DEF IInv, Failed, Rest, Calls
<1>3. /\ TypeOK /\ Rest /\ ~ share.ignore /\ share.unique \subseteq Index
      /\ \A k \in share.unique, l \in Index : l <= k => l \in share.unique
      /\ \A p \in Pk : wbase[p] # NoRow
      /\ \A k \in Index, key \in IndexKey, p \in Pk : windex[k][key] = p <=> RowOfTx(k, key, p)
      /\ \A p \in Pk : wbase[p] \in Row => p \in Range(pk_buffer) \/ base[p] = NoRow
      /\ \A k \in share.unique, key \in IndexKey :
           windex[k][key] \in Pk => key \in Range(sk_buffer[k]) \/ index[k][key] = NoPk
  BY <1>1, <1>2, BulkFacts, Zenon DEF RowOfCall
<1>4. CASE pc' = "return"
  <2>1. Failed'
    BY <1>1, <1>3, <1>4, Zenon DEF Failed
  <2> QED
    BY <1>1, <2>1, RefineFailure, Zenon DEF T!Next
<1>5. CASE ~ SkTaken(kid) /\ pc' = "verify" /\ kid' = kid + 1
  <2> DEFINE In(k, p) == SecondaryKey(k, p, wbase[p]) \in Range(sk_buffer[k])
  <2>1. /\ Range(pk_buffer) = {} /\ \A k \in share.unique : k < kid => Range(sk_buffer[k]) = {}
        /\ \A p \in Pk, k, l \in share.unique :
             wbase[p] \in Row /\ k >= kid /\ l >= kid => (In(k, p) <=> In(l, p))
    BY <1>1, <1>2, <1>3, RangeEmpty, Zenon DEF Rest, Lengths, Buffered
  <2>2. \A k \in share.unique : k \in Nat /\ Range(sk_buffer'[k]) = IF k = kid THEN {} ELSE Range(sk_buffer[k])
    <3> SUFFICES ASSUME NEW k \in share.unique
                 PROVE  k \in Nat /\ Range(sk_buffer'[k]) = IF k = kid THEN {} ELSE Range(sk_buffer[k])
      BY ZenonT(40)
    <3>1. k \in Index /\ k \in Nat
      BY <1>3 DEF Index
    <3>2. sk_buffer'[k] = IF k = kid THEN << >> ELSE sk_buffer[k]
      BY <1>1, <1>3, <3>1, ZenonT(40) DEF TypeOK
    <3> QED
      BY <3>1, <3>2, RangeEmpty, Zenon
  <2>3. \A p \in Pk : Unchecked(p) <=> wbase[p] \in Row /\ In(kid, p)
    <3>1. \A p \in Pk : Unchecked(p) <=> wbase[p] \in Row /\ \E k \in share.unique : In(k, p)
      BY <2>1, Zenon DEF Unchecked
    <3> HIDE DEF In
    <3>2. \A p \in Pk, k \in share.unique : wbase[p] \in Row /\ In(k, p) => k >= kid
      <4> SUFFICES ASSUME NEW p \in Pk, NEW k \in share.unique, In(k, p), ~ (k >= kid)  PROVE FALSE
        BY Zenon
      <4>1. k < kid
        BY <1>1, <2>2, SMTT(60)
      <4> QED
        BY <2>1, <4>1, Zenon DEF In
    <3>3. kid \in share.unique /\ kid >= kid
      BY <1>1, <2>2
    <3> QED
      BY <2>1, <3>1, <3>2, <3>3, Zenon
  <2>4. \A p \in Pk : Unchecked(p)' <=> wbase[p] \in Row /\ \E k \in share.unique : k # kid /\ In(k, p)
    <3>1. \A p \in Pk : Unchecked(p)' <=> /\ wbase[p] \in Row
            /\ \E k \in share.unique : SecondaryKey(k, p, wbase[p]) \in Range(sk_buffer'[k])
      BY <1>1, <2>1, Zenon DEF Unchecked, SecondaryKey, PackRecord
    <3> QED
      BY <2>2, <3>1, Zenon
  <2>5. ViewOfRows = [p \in Pk |-> IF Unchecked(p) THEN base[p] ELSE BaseRead(p)]
    BY <1>1, <1>2, BulkView, Zenon
  <2>6. ViewOfRows' = [p \in Pk |-> IF Unchecked(p)' THEN base[p] ELSE BaseRead(p)]
    BY <1>1, <1>2, <1>5, Zenon DEF ViewOfRows, Failed, BaseRead
  <2>7. CASE kid + 1 \in share.unique
    <3>1. \A p \in Pk : wbase[p] \in Row => (In(kid, p) <=> In(kid + 1, p))
      <4> HIDE DEF In
      <4> QED BY <1>1, <2>1, <2>2, <2>7
    <3>2. \A p \in Pk, k \in share.unique : wbase[p] \in Row /\ In(k, p) => k >= kid
      <4> SUFFICES ASSUME NEW p \in Pk, NEW k \in share.unique, In(k, p), ~ (k >= kid)  PROVE FALSE
        BY Zenon
      <4>1. k < kid
        <5>1. k \in Nat /\ kid \in Nat
          BY <1>1, <2>2, ZenonT(40)
        <5> QED
          BY <5>1
      <4> QED
        BY <2>1, <4>1, Zenon
    <3> HIDE DEF In
    <3>3. \A p \in Pk : Unchecked(p)' <=> Unchecked(p)
      BY <1>1, <2>1, <2>2, <2>3, <2>4, <2>7, <3>1, <3>2, SMTT(60)
    <3> QED
      BY <1>1, <2>5, <2>6, <3>3, Zenon
  <2>8. CASE kid + 1 \notin share.unique
    <3>1. \A k \in share.unique : k <= kid
      <4> SUFFICES ASSUME NEW k \in share.unique, ~ (k <= kid)  PROVE FALSE
        BY Zenon
      <4>1. k \in Index /\ kid \in Index
        BY <1>1, <1>3, Zenon
      <4>2. kid + 1 \in Index /\ kid + 1 <= k
        BY <4>1, TableAssumption, SMTT(60) DEF Index
      <4> QED
        BY <1>3, <2>8, <4>2, Zenon
    <3>2. \A p \in Pk : ~ Unchecked(p)'
      <4> SUFFICES ASSUME NEW p \in Pk, NEW k \in share.unique, k # kid, In(k, p)  PROVE FALSE
        BY <2>4, Zenon
      <4>1. k < kid
        <5>1. k \in Nat /\ kid \in Nat
          BY <1>1, <2>2, Zenon
        <5>2. k <= kid
          BY <3>1, ZenonT(40)
        <5> QED
          BY <5>1, <5>2
      <4> QED
        BY <2>1, <4>1, Zenon
    <3> HIDE DEF In
    <3> DEFINE S == { p \in Pk : Unchecked(p) }
               row == [p \in S |-> wbase[p]]
    <3>3. /\ row \in [S -> Row] /\ S \in SUBSET Pk
          /\ \A p \in S : /\ row[p] = wbase[p] /\ wbase[p] \in Row /\ p \in Pk
                          /\ base[p] = NoRow /\ BaseRead(p) = wbase[p] /\ Unchecked(p)
      BY <1>3, <2>1, <2>3, TableAssumption DEF BaseRead, Over
    <3>4. \A p \in Pk : ViewOfRows[p] = IF p \in S THEN NoRow ELSE BaseRead(p)
      BY <2>5, <3>3, Zenon
    <3>5. ViewOfRows' = [p \in Pk |-> BaseRead(p)]
      BY <2>6, <3>2, Zenon
    <3>6. \A p \in Pk : p \in S <=> Unchecked(p)
      BY Zenon
    <3> HIDE DEF S, row
    <3>7. ViewOfRows' = [p \in Pk |-> IF p \in S THEN row[p] ELSE ViewOfRows[p]]
      BY <3>3, <3>4, <3>5, ZenonT(40)
    <3>8. ASSUME NEW p \in S, NEW q \in Pk, NEW k \in share.unique, wbase[q] \in Row,
                 wbase[q][k] = wbase[p][k]
          PROVE  p = q
      <4>1. SecondaryKey(k, p, wbase[p]) \in IndexKey /\ k \in Index
        BY <1>3, <3>3, KeyType, Zenon
      <4>2. SecondaryKey(k, p, wbase[p]) = SecondaryKey(k, q, wbase[q])
        BY <3>8, <4>1, SameKey
      <4> QED
        BY <1>3, <3>3, <3>8, <4>1, <4>2 DEF RowOfTx
    <3>9. ASSUME NEW p \in S, NEW q \in Pk  PROVE ~ T!Clashes(q, row[p])
      <4> SUFFICES ASSUME q \notin S, BaseRead(q) # NoRow, NEW k \in share.unique, BaseRead(q)[k] = wbase[p][k]
                   PROVE  FALSE
        BY <3>3, <3>4, <3>9, Zenon DEF T!Clashes
      <4>1. CASE wbase[q] \in Row
        <5>1. BaseRead(q) = wbase[q]
          BY <4>1, TableAssumption, Zenon DEF BaseRead, Over
        <5> QED
          BY <3>8, <3>9, <4>1, <5>1, Zenon
      <4>2. CASE wbase[q] = Untouched
        <5>1. BaseRead(q) = base[q]
          BY <4>2, Zenon DEF BaseRead, Over
        <5>2. SecondaryKey(k, p, wbase[p]) \in IndexKey /\ k \in Index /\ p \in Pk
          BY <1>3, <3>3, <3>9, KeyType, Zenon
        <5>3. SecondaryKey(k, p, wbase[p]) = SecondaryKey(k, q, base[q])
          <6>1. wbase[p][k] = base[q][k]
            BY <5>1, Zenon
          <6> QED
            BY <6>1, Zenon DEF SecondaryKey, PackRecord
        <5>4. index[k][SecondaryKey(k, p, wbase[p])] = q
          <6>1. base[q] # NoRow
            BY <5>1, ZenonT(40)
          <6>2. \A key \in IndexKey : base[q] # NoRow /\ key = SecondaryKey(k, q, base[q]) => index[k][key] = q
            <7>1. StoreIndexed
              BY <1>3, Zenon DEF Rest
            <7> QED
              BY <5>2, <7>1, SMTT(60) DEF StoreIndexed
          <6> QED
            BY <5>2, <5>3, <6>1, <6>2, Zenon
        <5>5. windex[k][SecondaryKey(k, p, wbase[p])] = p
          <6>1. RowOfTx(k, SecondaryKey(k, p, wbase[p]), p)
            BY <3>3, <3>9, Zenon DEF RowOfTx
          <6>2. \A key \in IndexKey : RowOfTx(k, key, p) => windex[k][key] = p
            BY <1>3, <5>2, Zenon
          <6> QED
            BY <5>2, <6>1, <6>2, Zenon
        <5>6. SecondaryKey(k, p, wbase[p]) \in Range(sk_buffer[k])
          <6>1. windex[k][SecondaryKey(k, p, wbase[p])] \in Pk
            BY <5>2, <5>5, Zenon
          <6>2. index[k][SecondaryKey(k, p, wbase[p])] # NoPk
            BY <5>4, TableAssumption, Zenon
          <6>3. \A key \in IndexKey : windex[k][key] \in Pk => key \in Range(sk_buffer[k]) \/ index[k][key] = NoPk
            BY <1>3, Zenon
          <6> QED
            BY <5>2, <6>1, <6>2, <6>3, Zenon
        <5>7. k = kid
          <6>1. k \in Nat /\ kid \in Nat
            BY <1>1, <2>2, Zenon
          <6>2. ~ (k < kid)
            BY <2>1, <5>6, Zenon
          <6>3. k <= kid
            BY <3>1, Zenon
          <6> QED
            BY <6>1, <6>2, <6>3
        <5> QED
          BY <1>5, <5>4, <5>6, <5>7, TableAssumption, Zenon DEF SkTaken
      <4> QED
        BY <1>3, <4>1, <4>2, ZenonT(40) DEF TypeOK
    <3>10. \A p, q \in S : p # q => \A k \in share.unique : row[p][k] # row[q][k]
      BY <3>3, <3>8, Zenon
    <3>11. T!Insert(S, row)
      BY <1>1, <3>3, <3>4, <3>7, <3>9, <3>10, Zenon DEF T!Insert
    <3> QED
      BY <3>3, <3>11, Zenon DEF T!Next
  <2> QED
    BY <2>7, <2>8, Zenon
<1> QED
  BY <1>1, <1>4, <1>5, Zenon

\* The end of a row, a statement or a transaction.
LEMMA RefineEnd ==
  ASSUME IInv, IInv', Continue \/ eloq_rollback \/ eloq_commit
  PROVE  T!Next \/ UNCHANGED << share.unique, base, ViewOfRows >>
<1> USE DEF store, wset, args, buffers
<1>1. CASE Continue
  <2>1. /\ pc = "return" /\ pc' = "idle" /\ ~ Failed /\ ~ Failed'
        /\ UNCHANGED << share, base, wbase, bulk, pk_buffer, sk_buffer >>
    BY <1>1, Zenon DEF Continue, Failed
  <2>2. \A p \in Pk : BaseRead(p)' = BaseRead(p) /\ (Unchecked(p)' <=> Unchecked(p))
    BY <2>1, Zenon DEF BaseRead, Unchecked, SecondaryKey, PackRecord
  <2>3. /\ ViewOfRows = [p \in Pk |-> IF bulk # "none" /\ Unchecked(p) THEN base[p] ELSE BaseRead(p)]
        /\ ViewOfRows' = [p \in Pk |-> IF bulk' # "none" /\ Unchecked(p)' THEN base'[p] ELSE BaseRead(p)']
    BY <2>1, Zenon DEF ViewOfRows
  <2> QED
    BY <2>1, <2>2, <2>3, Zenon
<1>2. CASE eloq_rollback
  <2>1. /\ pc' = "idle" /\ ~ Failed' /\ bulk' = "none" /\ UNCHANGED << share, base >>
        /\ \A p \in Pk : wbase'[p] = Untouched
    BY <1>2, Zenon DEF eloq_rollback, EmptyWriteSet, Failed
  <2>2. ViewOfRows' = [p \in Pk |-> BaseRead(p)']
    BY <2>1, Zenon DEF ViewOfRows
  <2>3. \A p \in Pk : BaseRead(p)' = base[p]
    BY <2>1, Zenon DEF BaseRead, Over
  <2>4. ViewOfRows' = base
    BY <2>2, <2>3, Zenon DEF IInv, TypeOK
  <2> QED
    BY <2>1, <2>4, Zenon DEF T!Next, T!Rollback
<1>3. CASE eloq_commit
  <2>1. /\ pc = "idle" /\ pc' = "idle" /\ ~ Failed /\ ~ Failed' /\ bulk = "none" /\ bulk' = "none"
        /\ share' = share /\ base' = [p \in Pk |-> BaseRead(p)]
        /\ \A p \in Pk : wbase'[p] = Untouched
    BY <1>3, Zenon DEF eloq_commit, EmptyWriteSet, Failed
  <2>2. ViewOfRows = [p \in Pk |-> BaseRead(p)] /\ ViewOfRows' = [p \in Pk |-> BaseRead(p)']
    BY <2>1, Zenon DEF ViewOfRows
  <2>3. \A p \in Pk : BaseRead(p)' = BaseRead(p)
    BY <2>1, Zenon DEF BaseRead, Over
  <2> QED
    BY <2>1, <2>2, <2>3, Zenon DEF T!Next, T!Commit
<1> QED
  BY <1>1, <1>2, <1>3, Zenon

\* A step of the handler is a step of the table with unique keys, or none.
LEMMA StepRefines ==
  ASSUME IInv, IInv', [Next]_vars
  PROVE  [T!Next]_<< share.unique, base, ViewOfRows >>
<1>1. CASE UNCHANGED vars
  <2>1. UNCHANGED << share, base, wbase, pc, rc, old_pk, bulk, pk_buffer, sk_buffer >>
    BY <1>1, Zenon DEF vars, store, wset, args, buffers
  <2> QED
    BY <2>1, Zenon DEF ViewOfRows, Failed, Unchecked, BaseRead, SecondaryKey, PackRecord
<1> QED
  BY <1>1, RefineCalls, RefineRows, RefineRecord, RefineBulk, RefineCheckBase, RefineCheckIndex, RefineEnd,
     Zenon DEF Next

\* The handler implements a table with unique keys: whatever the indexes, the
\* write set and the batches do, the rows that a transaction sees and commits
\* never hold the value of a unique key twice, and a statement that fails takes
\* them all back.
THEOREM IsTable == Spec /\ CleanSkips => ImplementsTable
<1>1. Init => T!Init
  <2> SUFFICES ASSUME Init  PROVE T!Init
    BY Zenon
  <2>1. /\ pc = "idle" /\ bulk = "none" /\ base = [p \in Pk |-> NoRow] /\ \A p \in Pk : wbase[p] = Untouched
    BY Zenon DEF Init
  <2>2. ViewOfRows = [p \in Pk |-> BaseRead(p)]
    BY <2>1, Zenon DEF ViewOfRows, Failed
  <2> QED
    BY <2>1, <2>2, Zenon DEF T!Init, BaseRead, Over
<1> QED
  BY <1>1, StepRefines, Invariance, PTL DEF Spec, T!Spec, ImplementsTable
=============================================================================
