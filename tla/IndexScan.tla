----------------------------- MODULE IndexScan ------------------------------
(***************************************************************************)
(* Index scans of an Eloq table (index_read_map(), index_first(),          *)
(* index_last(), rnd_next(), index_next(), unlock_row(), index_end() and   *)
(* what they call in storage/eloq/ha_eloq.cc).                             *)
(*                                                                         *)
(* The transaction service delivers a scan in batches of index entries.    *)
(* A primary-key scan and a scan of a covering index return the entries    *)
(* one by one.  Any other scan of a secondary index collects a chunk of    *)
(* entries, reads their records in the order of the primary keys, and      *)
(* returns the records in the order of the index.  Other transactions      *)
(* insert and delete rows in between.                                      *)
(*                                                                         *)
(* A row is named by its key in the scanned index; its second part is the  *)
(* primary key, unless the scanned index is the primary one.               *)
(***************************************************************************)
EXTENDS KeyRange, Functions

CONSTANTS
  Kinds,        \* kinds of scans to look at
  Calls,        \* calls that open a scan, see OpeningCall
  ChunkSize,    \* DEFAULT_SCAN_TUPLE_SIZE
  BatchSize,    \* bound: entries the service delivers at once
  MaxChanges,   \* bound: rows inserted or deleted by other transactions
  NoKey         \* no key

Kind == {"primary", "covering", "lookup"}

\* A call that opens a scan: its search key and flag where it has them, the
\* range that the SQL layer has set, and the rows that satisfy the condition
\* pushed into the index scan.
OpeningCall ==
  [call : {"index_read_map"}, key : SearchKey, flag : ReadFlag,
   range : EndRange \cup StartRange, cond : SUBSET FullKey]
    \cup [call : {"index_first"}, key : {NoKey}, flag : {"none"}, range : EndRange,
          cond : SUBSET FullKey]
    \cup [call : {"index_last", "rnd_next"}, key : {NoKey}, flag : {"none"}, range : {NoRange},
          cond : SUBSET FullKey]

ASSUME ScanAssumption ==
  /\ Kinds \subseteq Kind
  /\ Calls \subseteq OpeningCall
  /\ ChunkSize \in Nat \ {0} /\ BatchSize \in Nat \ {0} /\ MaxChanges \in Nat
  /\ NoKey \notin SearchKey

\* scan_batch_idx_ before the first batch: UINT64_MAX is below no size.
MAX == -1

VARIABLES
  rows, tombs,    \* committed rows; rows deleted so recently that a scan meets them
  changes,
  kind,           \* primary, covering or lookup (is_pk_scan_needed)
  scan,           \* the call that opened the scan and its range
  cursor,         \* entries that the service has delivered
  scan_batch, scan_batch_idx, is_last_scan_batch,
  vct_key_order,  \* rows collected by the call in progress (tmp_scan_batch too)
  batch_order,
  sk_pk_scan_batch,
  pc, call,       \* where the call in progress is, and which it is
  rc,             \* what the last call returned
  killed,
  returned,       \* rows returned by the scan, in order
  released,       \* rows whose locks the last unlock_row() or index_end() gave back
  stable,         \* rows that existed all the time since the scan was opened
  failed          \* a call of the scan failed, or a record could not be read

dataVars == << rows, tombs, changes, stable >>
batchVars == << scan_batch, scan_batch_idx, is_last_scan_batch >>
chunkVars == << vct_key_order, batch_order, sk_pk_scan_batch >>
scanVars == << kind, scan, returned, released >>
vars == << dataVars, batchVars, chunkVars, scanVars, cursor, pc, call, rc, killed, failed >>

\* A batch entry: the row and the status of the entry.
Tuple(k, ok) == [key |-> k, normal |-> ok]

Everything == [low |-> Unbounded, high |-> Unbounded]

NoScan == [open |-> FALSE, range |-> Everything, backward |-> FALSE, cond |-> FullKey,
           wanted |-> {}, exact |-> TRUE]

NoMore == {"KEY_NOT_FOUND", "END_OF_FILE"}

Init ==
  /\ rows = FullKey
  /\ tombs = {}
  /\ changes = 0
  /\ kind \in Kinds
  /\ scan = NoScan
  /\ cursor = {}
  /\ scan_batch = << >>
  /\ scan_batch_idx = MAX
  /\ is_last_scan_batch = FALSE
  /\ vct_key_order = << >>
  /\ batch_order = << >>
  /\ sk_pk_scan_batch = << >>
  /\ pc = "idle"
  /\ call = "none"
  /\ rc = "none"
  /\ killed = FALSE
  /\ returned = << >>
  /\ released = {}
  /\ stable = {}
  /\ failed = FALSE

-----------------------------------------------------------------------------
(* Other transactions, and the client.                                     *)

DeleteRow(k) ==
  /\ changes < MaxChanges /\ k \in rows
  /\ rows' = rows \ {k}
  /\ tombs' = tombs \cup {k}
  /\ stable' = stable \ {k}
  /\ changes' = changes + 1
  /\ UNCHANGED << batchVars, chunkVars, scanVars, cursor, pc, call, rc, killed, failed >>

InsertRow(k) ==
  /\ changes < MaxChanges /\ k \in tombs
  /\ rows' = rows \cup {k}
  /\ tombs' = tombs \ {k}
  /\ changes' = changes + 1
  /\ UNCHANGED << stable, batchVars, chunkVars, scanVars, cursor, pc, call, rc, killed, failed >>

Kill ==
  /\ ~ killed
  /\ killed' = TRUE
  /\ UNCHANGED << dataVars, batchVars, chunkVars, scanVars, cursor, pc, call, rc, failed >>

-----------------------------------------------------------------------------
(* Opening a scan.                                                         *)

\* IndexScanClose(): the tuples from the position on were not returned, and
\* their locks go back, the entries' and the records'.
Pending(from) == {scan_batch[i].key : i \in (from + 1) .. Len(scan_batch)}
PendingRecords(from) ==
  {sk_pk_scan_batch[batch_order[i]].key :
     i \in ((from + 1) .. Len(scan_batch)) \cap (1 .. Len(batch_order))}
ToRelease ==
  IF scan_batch_idx = MAX THEN {} ELSE Pending(scan_batch_idx) \cup PendingRecords(scan_batch_idx)

\* Mutant: the order of the chunk is kept.
Mut_ClearBatches ==
  /\ scan_batch' = << >>
  /\ scan_batch_idx' = MAX
  /\ sk_pk_scan_batch' = << >>
  /\ vct_key_order' = << >>
  /\ UNCHANGED batch_order

ClearBatches ==
  /\ scan_batch' = << >>
  /\ scan_batch_idx' = MAX
  /\ sk_pk_scan_batch' = << >>
  /\ batch_order' = << >>
  /\ vct_key_order' = << >>

\* IndexScanClose() forgets start_range_: a backward scan opened while
\* another one is open is not told where it ends.
RangeOf(o) ==
  CASE o.call = "index_read_map" ->
         PrepareScan(o.key, o.flag,
                     IF scan.open /\ Backward(o.flag) THEN NoRange ELSE o.range,
                     kind = "primary")
    [] o.call = "index_first" ->
         [low |-> Unbounded, high |-> PrepareForwardScanEndKey(o.range, kind = "primary")]
    [] OTHER -> Everything

WantedBy(k, o) ==
  CASE o.call = "index_read_map" -> Wanted(k, o.key, o.flag, o.range)
    [] o.call = "index_first"    -> BeforeEnd(k, o.range)
    [] OTHER                     -> TRUE

\* PkIndexScanOpen(), SkIndexScanOpen(), then the first PkIndexScanNext() or
\* SkIndexScanNext() of the same call.  A lookup by a whole primary key is a
\* point read and opens no scan.
OpenScan(o) ==
  /\ pc = "idle" /\ rc \in {"none", "row"} \cup NoMore
  /\ o.call = "rnd_next" => kind = "primary"
  /\ o.flag = "KEY_EXACT" /\ o.key \in FullKey => kind # "primary"
  /\ ClearBatches
  /\ is_last_scan_batch' = FALSE
  /\ scan' = [open |-> TRUE, range |-> RangeOf(o),
              backward |-> o.call = "index_last" \/ Backward(o.flag),
              cond |-> o.cond, wanted |-> {k \in o.cond : WantedBy(k, o)},
              exact |-> ~ (scan.open /\ Backward(o.flag))]
  /\ cursor' = {}
  /\ returned' = << >>
  /\ released' = {}
  /\ stable' = rows
  /\ failed' = FALSE
  /\ call' = o.call
  /\ pc' = IF kind = "lookup" THEN "next" ELSE "loop"
  /\ UNCHANGED << rows, tombs, changes, kind, rc, killed >>

\* index_next(), index_prev() and rnd_next() after a row.
index_next ==
  /\ pc = "idle" /\ scan.open /\ rc = "row"
  /\ call' = "index_next"
  /\ pc' = IF kind = "lookup" THEN "next" ELSE "loop"
  /\ released' = {}
  /\ UNCHANGED << dataVars, batchVars, chunkVars, kind, scan, returned, cursor, rc, killed,
                  failed >>

\* index_end(), rnd_end(), the end of the statement.
index_end ==
  /\ pc = "idle" /\ scan.open
  /\ ClearBatches
  /\ released' = ToRelease
  /\ scan' = [scan EXCEPT !.open = FALSE]
  /\ rc' = "none"
  /\ killed' = FALSE
  /\ UNCHANGED << dataVars, is_last_scan_batch, kind, returned, cursor, pc, call, failed >>

-----------------------------------------------------------------------------
(* PkIndexScanNext() and SkIndexScanNext().                                *)

\* What the caller sees.  index_first() and index_last() report every error
\* but one as an empty index.
Reported(code) ==
  IF \/ call = "index_next" /\ code \in NoMore
     \/ call \in {"index_first", "index_last"} /\ code \notin {"row", "LOCK_WAIT_TIMEOUT"}
  THEN "END_OF_FILE" ELSE code

Return(code) ==
  /\ rc' = Reported(code)
  /\ pc' = "idle"
  /\ vct_key_order' = << >>

ReturnRow(k) == Return("row") /\ returned' = Append(returned, k)

Fail(code) == Return(code) /\ failed' = TRUE /\ UNCHANGED returned

\* Positions after i of the chunk whose record exists.
NormalAfter(i) ==
  {j \in (i + 1) .. Len(scan_batch) : sk_pk_scan_batch[batch_order[j]].normal}

\* i is the first of some positions.
First(i, S) == i \in S /\ \A j \in S : i <= j

\* A record of the chunk is left to return.
ReturnReserved ==
  /\ pc = "next" /\ scan_batch_idx # MAX
  /\ \E i \in NormalAfter(scan_batch_idx) :
       First(i, NormalAfter(scan_batch_idx)) /\ scan_batch_idx' = i
  /\ ReturnRow(sk_pk_scan_batch[batch_order[scan_batch_idx']].key)
  /\ UNCHANGED << dataVars, scan_batch, is_last_scan_batch, batch_order, sk_pk_scan_batch, kind,
                  scan, released, cursor, call, killed, failed >>

NoneReserved ==
  /\ pc = "next" /\ (scan_batch_idx # MAX => NormalAfter(scan_batch_idx) = {})
  /\ IF is_last_scan_batch
     THEN Return("KEY_NOT_FOUND") /\ scan_batch_idx' = Len(scan_batch)
     ELSE scan_batch_idx' = MAX /\ pc' = "loop" /\ UNCHANGED << rc, vct_key_order >>
  /\ UNCHANGED << dataVars, scan_batch, is_last_scan_batch, batch_order, sk_pk_scan_batch,
                  scanVars, cursor, call, killed, failed >>

\* Mutant: the last tuple of a batch is passed over.
Mut_HasTuple == scan_batch_idx # MAX /\ scan_batch_idx + 1 < Len(scan_batch)

HasTuple == scan_batch_idx # MAX /\ scan_batch_idx < Len(scan_batch)

NeedsBatch ==
  \/ scan_batch_idx = MAX
  \/ kind = "lookup" /\ ~ is_last_scan_batch /\ Len(vct_key_order) < ChunkSize
  \/ kind # "lookup" /\ ~ is_last_scan_batch /\ scan_batch # << >>

\* The head of the loop.
Interrupted ==
  /\ pc = "loop" /\ killed
  /\ Fail("QUERY_INTERRUPTED")
  /\ UNCHANGED << dataVars, batchVars, batch_order, sk_pk_scan_batch, kind, scan, released,
                  cursor, call, killed >>

\* Mutant: the pushed condition is not evaluated.
Mut_Consume(b, i) ==
  /\ scan_batch_idx' = i
  /\ IF ~ b[i].normal
     THEN pc' = "loop" /\ UNCHANGED << rc, vct_key_order, returned >>
     ELSE IF kind = "lookup"
     THEN /\ vct_key_order' = Append(vct_key_order, b[i].key)
          /\ pc' = "loop"
          /\ UNCHANGED << rc, returned >>
     ELSE ReturnRow(b[i].key)

\* Mutant: a skipped tuple is met again.
Mut_ConsumeAgain(b, i) ==
  IF ~ b[i].normal \/ (kind # "primary" /\ b[i].key \notin scan.cond)
  THEN /\ scan_batch_idx' = i - 1
       /\ pc' = "loop"
       /\ UNCHANGED << rc, vct_key_order, returned >>
  ELSE Mut_Consume(b, i)

\* Tuple i of batch b: a deleted entry is skipped, and so is one that the
\* pushed condition or the row-id filter rejects.
Consume(b, i) ==
  /\ scan_batch_idx' = i
  /\ IF ~ b[i].normal \/ (kind # "primary" /\ b[i].key \notin scan.cond)
     THEN pc' = "loop" /\ UNCHANGED << rc, vct_key_order, returned >>
     ELSE IF kind = "lookup"
     THEN /\ vct_key_order' = Append(vct_key_order, b[i].key)
          /\ pc' = "loop"
          /\ UNCHANGED << rc, returned >>
     ELSE ReturnRow(b[i].key)

TakeTuple ==
  /\ pc = "loop" /\ ~ killed /\ HasTuple
  /\ Consume(scan_batch, scan_batch_idx + 1)
  /\ UNCHANGED << dataVars, scan_batch, is_last_scan_batch, batch_order, sk_pk_scan_batch, kind,
                  scan, released, cursor, call, killed, failed >>

\* get_primary_key_tuple()
PkOf(k) == Tail(k)

\* Position i of the sorted rows holds the collected row p[i], whose primary key
\* is not above that of a later one.
SortedByPk(p) ==
  /\ \A i \in DOMAIN p : \E j \in DOMAIN p : p[j] = i
  /\ \A i, j \in DOMAIN p :
       i < j => ~ KeyLt(PkOf(vct_key_order[p[j]]), PkOf(vct_key_order[p[i]]))

\* Mutant: the sort is taken for its inverse.
Mut_BatchOrder(p) == p

\* For each collected row, where its record is.
BatchOrder(p) == [i \in DOMAIN p |-> CHOOSE j \in DOMAIN p : p[j] = i]

\* The collected rows become the batch, and their records are read.
ReadChunk ==
  /\ \E p \in [DOMAIN vct_key_order -> DOMAIN vct_key_order] :
       /\ SortedByPk(p)
       /\ batch_order' = BatchOrder(p)
       /\ sk_pk_scan_batch' = [i \in DOMAIN p |-> Tuple(vct_key_order[p[i]], FALSE)]
  /\ scan_batch' = [i \in DOMAIN vct_key_order |-> Tuple(vct_key_order[i], TRUE)]
  /\ pc' = "read"
  /\ UNCHANGED << rc, vct_key_order >>

\* The entries are used up: the scan is at its end, or the chunk is complete.
\* b is what scan_batch_ holds then.
EndOfEntries(b) ==
  \/ /\ kind # "lookup" \/ vct_key_order = << >>
     /\ Return(IF kind = "primary" THEN "END_OF_FILE" ELSE "KEY_NOT_FOUND")
     /\ scan_batch' = b
     /\ UNCHANGED << batch_order, sk_pk_scan_batch >>
  \/ /\ kind = "lookup" /\ vct_key_order # << >>
     /\ ReadChunk

Exhausted ==
  /\ pc = "loop" /\ ~ killed /\ ~ HasTuple /\ ~ NeedsBatch
  /\ EndOfEntries(scan_batch)
  /\ UNCHANGED << dataVars, scan_batch_idx, is_last_scan_batch, scanVars, cursor, call, killed,
                  failed >>

-----------------------------------------------------------------------------
(* Requests to the transaction service.                                    *)

FetchBatch ==
  /\ pc = "loop" /\ ~ killed /\ ~ HasTuple /\ NeedsBatch
  /\ pc' = "fetch"
  /\ scan_batch_idx' = 0
  /\ scan_batch' = << >>
  /\ UNCHANGED << dataVars, is_last_scan_batch, chunkVars, scanVars, cursor, call, rc, killed,
                  failed >>

\* The entries of the range that are not delivered.
Undelivered == {k \in (rows \cup tombs) \ cursor : InRange(k, scan.range)}

\* The order of a scan.
Precedes(backward, a, b) == IF backward THEN KeyLt(b, a) ELSE KeyLt(a, b)

\* The service answers with the next entries, those of the sequence s; a batch
\* that is not the last one has some.
Answer(s, last) ==
  /\ \A i, j \in DOMAIN s : i < j => Precedes(scan.backward, s[i], s[j])
  /\ \A k \in Undelivered \ Range(s) : \A i \in DOMAIN s : Precedes(scan.backward, s[i], k)
  /\ IF last THEN Undelivered \subseteq Range(s) ELSE s # << >>
  /\ is_last_scan_batch' = last
  /\ cursor' = cursor \cup {k \in FullKey :
                           \E i \in DOMAIN s : ~ Precedes(scan.backward, s[i], k)}

Batch(s) == [i \in DOMAIN s |-> Tuple(s[i], s[i] \in rows)]

\* The check of the pushed condition sees that the client was killed while the
\* batch was fetched.
Aborted(s) == killed /\ kind # "primary" /\ scan.cond # FullKey /\ s[1] \in rows

BatchArrives ==
  /\ pc = "fetch"
  /\ \E n \in 1 .. BatchSize, last \in BOOLEAN : \E s \in [1 .. n -> Undelivered] :
       /\ Answer(s, last)
       /\ scan_batch' = Batch(s)
       /\ \/ Aborted(s) /\ Fail("ABORTED_BY_USER") /\ scan_batch_idx' = 1
          \/ ~ Aborted(s) /\ Consume(Batch(s), 1) /\ UNCHANGED failed
  /\ UNCHANGED << dataVars, batch_order, sk_pk_scan_batch, kind, scan, released, call, killed >>

EmptyBatchArrives ==
  /\ pc = "fetch"
  /\ Answer(<< >>, TRUE)
  /\ EndOfEntries(<< >>)
  /\ UNCHANGED << dataVars, scan_batch_idx, scanVars, call, killed, failed >>

\* The records of the chunk.  One that the service does not have is read from
\* the data store; if that fails it counts as deleted.
BatchRead ==
  /\ pc = "read"
  /\ \E unread \in {{}} \cup {{t.key} : t \in Range(sk_pk_scan_batch)} :
       LET recs == [i \in DOMAIN sk_pk_scan_batch |->
                      Tuple(sk_pk_scan_batch[i].key, sk_pk_scan_batch[i].key \in rows \ unread)]
           found == {j \in 1 .. Len(scan_batch) : recs[batch_order[j]].normal}
       IN  /\ sk_pk_scan_batch' = recs
           /\ failed' = (failed \/ unread # {})
           /\ \/ /\ found = {}
                 /\ scan_batch_idx' = Len(scan_batch)
                 /\ Return("KEY_NOT_FOUND")
                 /\ UNCHANGED returned
              \/ \E i \in found :
                 /\ First(i, found)
                 /\ scan_batch_idx' = i
                 /\ ReturnRow(recs[batch_order[i]].key)
  /\ UNCHANGED << dataVars, scan_batch, is_last_scan_batch, batch_order, kind, scan, released,
                  cursor, call, killed >>

RequestFails ==
  /\ pc \in {"fetch", "read"}
  /\ \E code \in {"LOCK_WAIT_TIMEOUT", "TX_ERROR"} : Fail(code)
  /\ UNCHANGED << dataVars, batchVars, batch_order, sk_pk_scan_batch, kind, scan, released,
                  cursor, call, killed >>

-----------------------------------------------------------------------------
\* Mutant: the tuple after the one that was returned.
Mut_unlock_row ==
  /\ pc = "idle" /\ scan.open /\ rc = "row" /\ scan_batch # << >>
  /\ scan_batch_idx < Len(scan_batch)
  /\ released' = {scan_batch[scan_batch_idx + 1].key}
  /\ UNCHANGED << dataVars, batchVars, chunkVars, kind, scan, returned, cursor, pc, call, rc,
                  killed, failed >>

\* unlock_row(): the row that was returned last is not needed.
unlock_row ==
  /\ pc = "idle" /\ scan.open /\ rc = "row" /\ scan_batch # << >>
  /\ released' = {scan_batch[scan_batch_idx].key}
  /\ UNCHANGED << dataVars, batchVars, chunkVars, kind, scan, returned, cursor, pc, call, rc,
                  killed, failed >>

NextStep ==
  \/ ReturnReserved \/ NoneReserved \/ Interrupted \/ TakeTuple \/ Exhausted
  \/ FetchBatch \/ BatchArrives \/ EmptyBatchArrives \/ BatchRead

Next ==
  \/ \E k \in FullKey : DeleteRow(k) \/ InsertRow(k)
  \/ Kill
  \/ \E o \in Calls : OpenScan(o)
  \/ index_next
  \/ index_end
  \/ unlock_row
  \/ NextStep
  \/ RequestFails

Spec == Init /\ [][Next]_vars

\* The service answers, and the session's coroutine is resumed.
FairSpec == Spec /\ WF_vars(NextStep)

-----------------------------------------------------------------------------
\* The variables have their types; the position is one of the batch, also after
\* SkIndexScanNext() has replaced the batch, and the chunk and its order have
\* one length.
TypeOK ==
  /\ rows \subseteq FullKey /\ tombs \subseteq FullKey \ rows /\ stable \subseteq rows
  /\ pc # "read" /\ ~ failed => scan_batch_idx \in {MAX} \cup (0 .. Len(scan_batch))
  /\ Len(batch_order) = Len(sk_pk_scan_batch)
  /\ pc \in {"idle", "next", "loop", "fetch", "read"}
  /\ pc = "next" => kind = "lookup"

\* The range that PrepareScan() makes of a condition holds the keys that
\* satisfy it, whichever parts are given and wherever the key stops, and no
\* others; only a backward scan that replaces an open one may run on past its
\* end, because IndexScanClose() has forgotten start_range_.
RangeExact ==
  \A k \in FullKey :
    /\ k \in scan.wanted => InRange(k, scan.range)
    /\ scan.open /\ scan.exact /\ InRange(k, scan.range) /\ k \in scan.cond => k \in scan.wanted

\* The rows come in the order of the index and none comes twice, although the
\* records were read in the order of the primary keys (batch_order_).
RowsInOrder ==
  \A i \in 1 .. Len(returned) : \A j \in 1 .. (i - 1) :
    Precedes(scan.backward, returned[j], returned[i])

\* At the end of the scan every row that existed throughout and satisfies the
\* condition was returned, however the entries were split into batches and
\* chunks.  Not so when a record could not be read, which SkIndexScanNext()
\* takes for a deleted one, and when every record of a chunk was gone, see
\* EndMeansNoMoreTuples.
ScanComplete ==
  rc \in NoMore /\ pc = "idle" /\ scan.open /\ is_last_scan_batch /\ ~ failed
    => scan.wanted \cap stable \subseteq Range(returned)

\* No row is returned that the condition on the index rejects or that was not
\* in the table since the scan began.
RowsWanted ==
  \A k \in Range(returned) :
    /\ kind # "primary" => k \in scan.cond
    /\ scan.exact /\ kind # "primary" => k \in scan.wanted
    /\ InRange(k, scan.range)

\* Locks are given back for the right rows.  unlock_row() gives back the row
\* that was returned last: scan_batch_idx_ - 1 is its tuple also after skipped
\* tuples and in a chunk (scan_batch_ was replaced by tmp_scan_batch).
\* IndexScanClose() gives back the tuples that were not returned, unless the
\* scan was stopped by an error.
LocksGivenBack ==
  /\ scan.open => \A k \in released : k = returned[Len(returned)]
  /\ ~ scan.open /\ ~ failed => released \cap Range(returned) = {}

\* A call returns: the loops over batches, chunks and skipped tuples end.
EveryCallReturns == (pc # "idle") ~> (pc = "idle")

\* "When all records have been returned, it will call ScanBatchTxRequest to
\* load next batch until no more tuples" (comment in SkIndexScanNext()): the
\* caller is told that there are no more rows only after the last batch.
EndMeansNoMoreTuples ==
  rc \in NoMore /\ pc = "idle" /\ scan.open /\ ~ failed => is_last_scan_batch
=============================================================================
