-------------------------- MODULE IndexScan_proofs --------------------------
(***************************************************************************)
(* Proofs about IndexScan for every set of keys and rows, every maximal key*)
(* length, batch size and number of calls.                                 *)
(*                                                                         *)
(* The range of a scan is the condition it was asked for.  The argument is *)
(* about bytes: a search key c that has only the first parts of a key is   *)
(* compared with full keys, and KeyAssumption says that a full key either  *)
(* differs from c in a byte or has the parts of c.  KeyLt() between a full *)
(* key and c is then decided by the differing byte, and so is KeyLt()      *)
(* between the ceiling of c and a full key, because no byte exceeds the    *)
(* pad.                                                                    *)
(*                                                                         *)
(* What a scan returns follows from ScanInv: the entries in hand are       *)
(* sorted, lie after everything returned and before everything the service *)
(* has still to deliver, and together with it they hold every row that is  *)
(* wanted and was not returned.                                            *)
(***************************************************************************)
EXTENDS IndexScan, TLAPS

\* Two keys that differ are ordered one way only (operator< of EloqKey), and
\* a key that has the parts of c is on neither side of it.
LEMMA LessExcludes ==
  ASSUME NEW c \in Seq(Byte), NEW k \in Seq(Byte)
  PROVE  /\ ~ (Less(c, k) /\ Less(k, c))
         /\ ~ (Less(c, k) /\ Matches(c, k))
         /\ ~ (Less(k, c) /\ Matches(c, k))
<1>0. \A i \in 1 .. Len(c) : c[i] \in Int
  BY KeyAssumption DEF Byte
<1>4. \A i \in 1 .. Len(k) : k[i] \in Int
  BY KeyAssumption DEF Byte
<1>1. ~ (Less(c, k) /\ Less(k, c))
  <2>. SUFFICES ASSUME Less(c, k), Less(k, c) PROVE FALSE
    BY Zenon
  <2>1. PICK i \in 1 .. Len(c) : i <= Len(k) /\ c[i] < k[i] /\ \A j \in 1 .. (i - 1) : c[j] = k[j]
    BY Zenon DEF Less
  <2>2. PICK m \in 1 .. Len(k) : m <= Len(c) /\ k[m] < c[m] /\ \A j \in 1 .. (m - 1) : k[j] = c[j]
    BY Zenon DEF Less
  <2>3. /\ c[i] \in Int /\ k[i] \in Int /\ c[m] \in Int /\ k[m] \in Int
        /\ i \in Int /\ m \in Int /\ i >= 1 /\ m >= 1
    BY <1>0, <1>4, <2>1, <2>2
  <2>4. CASE i < m
    BY <2>1, <2>2, <2>3, <2>4
  <2>5. CASE m < i
    BY <2>1, <2>2, <2>3, <2>5
  <2>6. CASE i = m
    BY <2>1, <2>2, <2>3, <2>6
  <2>. QED  BY <2>3, <2>4, <2>5, <2>6
<1>2. ASSUME Less(c, k), Matches(c, k) PROVE FALSE
  <2>1. PICK i \in 1 .. Len(c) : i <= Len(k) /\ c[i] < k[i]
    BY <1>2, Zenon DEF Less
  <2>2. c[i] = k[i]
    BY <1>2, Zenon DEF Matches
  <2>. QED  BY <1>0, <2>1, <2>2
<1>3. ASSUME Less(k, c), Matches(c, k) PROVE FALSE
  <2>1. PICK i \in 1 .. Len(k) : i <= Len(c) /\ k[i] < c[i]
    BY <1>3, Zenon DEF Less
  <2>2. c[i] = k[i]
    BY <1>3, <2>1 DEF Matches
  <2>. QED  BY <1>4, <2>1, <2>2
<1>. QED  BY <1>1, <1>2, <1>3, Zenon

\* A full key is below a search key exactly when it is smaller in a byte.
LEMMA BelowKey ==
  ASSUME NEW c \in SearchKey, NEW k \in FullKey
  PROVE  KeyLt(k, c) <=> Less(k, c)
<1>1. c \in Seq(Byte) /\ k \in Seq(Byte)
  BY KeyAssumption, Zenon
<1>2. Less(c, k) \/ Less(k, c) \/ Matches(c, k)
  BY KeyAssumption, Zenon
<1>3. ASSUME Len(k) < Len(c), \A i \in 1 .. Len(k) : k[i] = c[i]
      PROVE  Less(k, c)
  <2>1. ~ Matches(c, k)
    BY <1>1, <1>3 DEF Matches
  <2>2. ~ Less(c, k)
    <3>. SUFFICES ASSUME Less(c, k) PROVE FALSE
      BY Zenon
    <3>1. PICK i \in 1 .. Len(c) : i <= Len(k) /\ c[i] < k[i]
      BY Zenon DEF Less
    <3>2. i \in 1 .. Len(k) /\ c[i] \in Int
      BY <1>1, <3>1, KeyAssumption, SMTT(60) DEF Byte
    <3>. QED  BY <1>3, <3>1, <3>2
  <2>. QED  BY <1>2, <2>1, <2>2, Zenon
<1>. QED  BY <1>3, Zenon DEF KeyLt

\* A full key is above the ceiling of a search key, get_ceiling_key(), exactly
\* when it is greater than the search key in a byte.
LEMMA AboveCeiling ==
  ASSUME NEW c \in SearchKey, NEW k \in FullKey
  PROVE  KeyLt(get_ceiling_key(c), k) <=> Less(c, k)
<1>. DEFINE g == get_ceiling_key(c)
<1>1. /\ c \in Seq(Byte) /\ k \in Seq(Byte) /\ Len(c) <= MaxLen /\ Len(k) <= MaxLen
      /\ MaxLen \in Nat /\ Top \in Nat
  BY KeyAssumption, Zenon
<1>2. /\ g \in Seq(Int) /\ Len(g) = MaxLen
      /\ \A i \in 1 .. Len(c) : g[i] = c[i]
      /\ \A i \in 1 .. MaxLen : i > Len(c) => g[i] = Top
  <2>1. \A i \in 1 .. Len(c) : c[i] \in Int
    BY <1>1 DEF Byte
  <2>2. \A i \in 1 .. MaxLen : (IF i <= Len(c) THEN c[i] ELSE Top) \in Int
    BY <1>1, <2>1
  <2>3. g = [i \in 1 .. MaxLen |-> IF i <= Len(c) THEN c[i] ELSE Top]
    BY Zenon DEF get_ceiling_key
  <2>4. g \in [1 .. MaxLen -> Int]
    BY <2>2, <2>3, Zenon
  <2>5. g \in Seq(Int) /\ Len(g) = MaxLen
    BY <1>1, <2>4
  <2>6. \A i \in 1 .. Len(c) : i \in 1 .. MaxLen /\ i <= Len(c)
    BY <1>1
  <2>. HIDE DEF g
  <2>7. \A i \in 1 .. Len(c) : g[i] = c[i]
    BY <2>3, <2>6, Zenon
  <2>8. \A i \in 1 .. MaxLen : i > Len(c) => g[i] = Top
    BY <1>1, <2>3
  <2>. QED  BY <2>5, <2>7, <2>8, Zenon
<1>3. ASSUME Less(c, k) PROVE Less(g, k)
  <2>1. PICK i \in 1 .. Len(c) : i <= Len(k) /\ c[i] < k[i] /\ \A j \in 1 .. (i - 1) : c[j] = k[j]
    BY <1>3, Zenon DEF Less
  <2>2. i \in 1 .. Len(g) /\ g[i] < k[i]
    BY <1>1, <1>2, <2>1
  <2>3. \A j \in 1 .. (i - 1) : g[j] = k[j]
    BY <1>1, <1>2, <2>1
  <2>. QED  BY <2>1, <2>2, <2>3, Zenon DEF Less
<1>4. ASSUME Less(g, k) PROVE Less(c, k)
  <2>1. PICK i \in 1 .. Len(g) : i <= Len(k) /\ g[i] < k[i] /\ \A j \in 1 .. (i - 1) : g[j] = k[j]
    BY <1>4, Zenon DEF Less
  <2>2. k[i] \in 0 .. Top
    BY <1>1, <2>1, SMTT(60) DEF Byte
  <2>3. i <= Len(c)
    BY <1>1, <1>2, <2>1, <2>2, SMTT(60)
  <2>4. c[i] < k[i] /\ \A j \in 1 .. (i - 1) : c[j] = k[j]
    BY <1>1, <1>2, <2>1, <2>3
  <2>. QED  BY <1>1, <2>1, <2>3, <2>4 DEF Less
<1>. HIDE DEF g
<1>5. KeyLt(g, k) <=> Less(g, k)
  BY <1>1, <1>2 DEF KeyLt
<1>. QED  BY <1>3, <1>4, <1>5, Zenon DEF g

\* The same for the key that is used where a whole primary key needs no pad.
LEMMA AboveCeiled ==
  ASSUME NEW c \in SearchKey, NEW k \in FullKey, NEW primary \in BOOLEAN
  PROVE  KeyLt(Ceiled(c, primary), k) <=> Less(c, k)
<1>1. CASE primary /\ c \in FullKey
  <2>1. c \in Seq(Byte) /\ k \in Seq(Byte)
    BY KeyAssumption, Zenon
  <2>2. Matches(c, k) => c = k
    BY <1>1, KeyAssumption, Zenon
  <2>3. ~ (Len(c) < Len(k) /\ \A i \in 1 .. Len(c) : c[i] = k[i])
    BY <2>1, <2>2 DEF Matches
  <2>. QED  BY <1>1, <2>3, Zenon DEF Ceiled, KeyLt
<1>2. CASE ~ (primary /\ c \in FullKey)
  BY <1>2, AboveCeiling, Zenon DEF Ceiled
<1>. QED  BY <1>1, <1>2, Zenon

\* PrepareForwardScanEndKey() makes the end of the range of the end_range
\* that the SQL layer has set.
LEMMA ForwardEnd ==
  ASSUME NEW k \in FullKey, NEW r \in EndRange \cup StartRange, NEW primary \in BOOLEAN
  PROVE  BelowHigh(k, PrepareForwardScanEndKey(r, primary)) <=> BeforeEnd(k, r)
<1>1. CASE r.flag = "BEFORE_KEY"
  <2>1. r.key \in SearchKey
    BY <1>1 DEF EndRange, StartRange, NoRange
  <2>. QED  BY <1>1, <2>1, BelowKey, Zenon DEF PrepareForwardScanEndKey, BeforeEnd, BelowHigh, Bound
<1>2. CASE r.flag = "AFTER_KEY"
  <2>1. r.key \in SearchKey
    BY <1>2 DEF EndRange, StartRange, NoRange
  <2>. QED
    BY <1>2, <2>1, AboveCeiled, Zenon DEF PrepareForwardScanEndKey, BeforeEnd, BelowHigh, Bound, KeyLe
<1>3. CASE r.flag \notin {"BEFORE_KEY", "AFTER_KEY"}
  BY <1>3, Zenon DEF PrepareForwardScanEndKey, BeforeEnd, BelowHigh, Unbounded
<1>. QED  BY <1>1, <1>2, <1>3, Zenon

\* PrepareBackwardScanEndKey() and start_range_.
LEMMA BackwardEnd ==
  ASSUME NEW k \in FullKey, NEW r \in EndRange \cup StartRange, NEW primary \in BOOLEAN
  PROVE  AboveLow(k, PrepareBackwardScanEndKey(r, primary)) <=> AfterStart(k, r)
<1>1. CASE r.flag = "KEY_OR_NEXT"
  <2>1. r.key \in SearchKey
    BY <1>1 DEF EndRange, StartRange, NoRange
  <2>. QED
    BY <1>1, <2>1, BelowKey, Zenon DEF PrepareBackwardScanEndKey, AfterStart, AboveLow, Bound, KeyLe
<1>2. CASE r.flag = "AFTER_KEY"
  <2>1. r.key \in SearchKey
    BY <1>2 DEF EndRange, StartRange, NoRange
  <2>. QED
    BY <1>2, <2>1, AboveCeiled, Zenon DEF PrepareBackwardScanEndKey, AfterStart, AboveLow, Bound
<1>3. CASE r.flag \notin {"KEY_OR_NEXT", "AFTER_KEY"}
  BY <1>3, Zenon DEF PrepareBackwardScanEndKey, AfterStart, AboveLow, Unbounded
<1>. QED  BY <1>1, <1>2, <1>3, Zenon

\* PrepareScan() turns the condition on the first parts of an index into the
\* range of the keys that satisfy it.
LEMMA PrepareScanExact ==
  ASSUME NEW k \in FullKey, NEW c \in SearchKey, NEW flag \in ReadFlag,
         NEW r \in EndRange \cup StartRange, NEW primary \in BOOLEAN
  PROVE  InRange(k, PrepareScan(c, flag, r, primary)) <=> Wanted(k, c, flag, r)
<1>1. CASE PrefixMatch(flag)
  <2>1. Satisfies(k, flag, c) <=> Matches(c, k)
    BY <1>1, Zenon DEF PrefixMatch, Satisfies
  <2>2. InRange(k, PrefixRange(c)) <=> ~ KeyLt(k, c) /\ ~ KeyLt(get_ceiling_key(c), k)
    BY Zenon DEF InRange, PrefixRange, AboveLow, BelowHigh, Bound, KeyLe
  <2>3. Matches(c, k) <=> ~ Less(k, c) /\ ~ Less(c, k)
    <3>1. c \in Seq(Byte) /\ k \in Seq(Byte) /\ (Less(c, k) \/ Less(k, c) \/ Matches(c, k))
      BY KeyAssumption, Zenon
    <3>. QED  BY <3>1, LessExcludes, Zenon
  <2>. QED  BY <1>1, <2>1, <2>2, <2>3, BelowKey, AboveCeiling, Zenon DEF PrepareScan, Wanted
<1>2. CASE ~ PrefixMatch(flag) /\ Backward(flag)
  <2>1. AboveLow(k, BackwardRange(c, flag, r, primary).low) <=> AfterStart(k, r)
    BY BackwardEnd, Zenon DEF BackwardRange
  <2>2. BelowHigh(k, BackwardRange(c, flag, r, primary).high) <=> Satisfies(k, flag, c)
    <3>1. CASE flag = "BEFORE_KEY"
      BY <3>1, BelowKey, Zenon DEF BackwardRange, Satisfies, BelowHigh, Bound, Inclusive
    <3>2. CASE flag = "PREFIX_LAST_OR_PREV"
      BY <3>2, AboveCeiled, Zenon DEF BackwardRange, Satisfies, BelowHigh, Bound, Inclusive, KeyLe
    <3>. QED  BY <1>2, <3>1, <3>2, Zenon DEF PrefixMatch, Backward
  <2>. QED  BY <1>2, <2>1, <2>2, Zenon DEF PrepareScan, Wanted, InRange
<1>3. CASE ~ PrefixMatch(flag) /\ ~ Backward(flag)
  <2>1. BelowHigh(k, ForwardRange(c, flag, r, primary).high) <=> BeforeEnd(k, r)
    BY ForwardEnd, Zenon DEF ForwardRange
  <2>2. AboveLow(k, ForwardRange(c, flag, r, primary).low) <=> Satisfies(k, flag, c)
    <3>1. CASE flag = "AFTER_KEY"
      BY <3>1, AboveCeiled, Zenon DEF ForwardRange, Satisfies, AboveLow, Bound, Inclusive
    <3>2. CASE flag = "KEY_OR_NEXT"
      BY <3>2, BelowKey, Zenon DEF ForwardRange, Satisfies, AboveLow, Bound, Inclusive, KeyLe
    <3>. QED  BY <1>3, <3>1, <3>2, Zenon DEF PrefixMatch, Backward, ReadFlag
  <2>. QED  BY <1>3, <2>1, <2>2, Zenon DEF PrepareScan, Wanted, InRange
<1>. QED  BY <1>1, <1>2, <1>3, Zenon

\* Without the start_range_ that IndexScanClose() forgets, the range of a
\* backward scan is at least what was asked for.
LEMMA ForgottenStart ==
  ASSUME NEW k \in FullKey, NEW c \in SearchKey, NEW flag \in ReadFlag, Backward(flag),
         NEW r \in EndRange \cup StartRange, NEW primary \in BOOLEAN,
         Wanted(k, c, flag, r)
  PROVE  InRange(k, PrepareScan(c, flag, NoRange, primary))
<1>1. NoRange \in EndRange \cup StartRange
  BY Zenon DEF EndRange
<1>2. Wanted(k, c, flag, NoRange)
  BY Zenon DEF Wanted, AfterStart, NoRange
<1>. QED  BY <1>1, <1>2, PrepareScanExact, Zenon

\* Opening a scan establishes RangeExact, whatever was open before.
LEMMA OpenExact ==
  ASSUME NEW o \in Calls, OpenScan(o)
  PROVE  RangeExact'
<1>. DEFINE p == kind = "primary"
            S == {k \in o.cond : WantedBy(k, o)}
<1>1. /\ scan'.open /\ scan'.range = RangeOf(o) /\ scan'.cond = o.cond
      /\ scan'.wanted = S
      /\ scan'.exact = ~ (scan.open /\ Backward(o.flag))
  BY Zenon DEF OpenScan
<1>2. o \in OpeningCall
  BY ScanAssumption, Zenon
<1>3. SUFFICES ASSUME NEW k \in FullKey
               PROVE  /\ WantedBy(k, o) => InRange(k, RangeOf(o))
                      /\ ~ (scan.open /\ Backward(o.flag)) /\ InRange(k, RangeOf(o))
                           => WantedBy(k, o)
  BY <1>1, Zenon DEF RangeExact
<1>4. CASE o.call = "index_read_map"
  <2>1. o.key \in SearchKey /\ o.flag \in ReadFlag /\ o.range \in EndRange \cup StartRange
    BY <1>2, <1>4, Zenon DEF OpeningCall
  <2>2. WantedBy(k, o) <=> Wanted(k, o.key, o.flag, o.range)
    BY <1>4, Zenon DEF WantedBy
  <2>3. CASE scan.open /\ Backward(o.flag)
    <3>1. RangeOf(o) = PrepareScan(o.key, o.flag, NoRange, p)
      BY <1>4, <2>3, Zenon DEF RangeOf
    <3>. QED  BY <2>1, <2>2, <2>3, <3>1, ForgottenStart, Zenon
  <2>4. CASE ~ (scan.open /\ Backward(o.flag))
    <3>1. RangeOf(o) = PrepareScan(o.key, o.flag, o.range, p)
      BY <1>4, <2>4, Zenon DEF RangeOf
    <3>. QED  BY <2>1, <2>2, <3>1, PrepareScanExact, Zenon
  <2>. QED  BY <2>3, <2>4, Zenon
<1>5. CASE o.call = "index_first"
  <2>1. o.range \in EndRange
    BY <1>2, <1>5, Zenon DEF OpeningCall
  <2>2. RangeOf(o) = [low |-> Unbounded, high |-> PrepareForwardScanEndKey(o.range, p)]
    BY <1>5, Zenon DEF RangeOf
  <2>3. InRange(k, RangeOf(o)) <=> BelowHigh(k, PrepareForwardScanEndKey(o.range, p))
    BY <2>2 DEF InRange, AboveLow, Unbounded
  <2>. QED  BY <1>5, <2>1, <2>3, ForwardEnd, Zenon DEF WantedBy
<1>6. CASE o.call \notin {"index_read_map", "index_first"}
  BY <1>6, Zenon DEF WantedBy, RangeOf, InRange, AboveLow, BelowHigh, Everything, Unbounded
<1>. QED  BY <1>4, <1>5, <1>6, Zenon

\* The scan variable always has the fields of an opened scan, which index_end()
\* needs to clear one of them.
ScanRecord ==
  scan = [open |-> scan.open, range |-> scan.range, backward |-> scan.backward,
          cond |-> scan.cond, wanted |-> scan.wanted, exact |-> scan.exact]

\* No step but the opening of a scan changes its range.
LEMMA RangeKept == ScanRecord /\ RangeExact /\ [Next]_vars => ScanRecord' /\ RangeExact'
<1>. SUFFICES ASSUME ScanRecord, RangeExact, [Next]_vars PROVE ScanRecord' /\ RangeExact'
  BY Zenon
<1>1. ASSUME NEW o \in Calls, OpenScan(o) PROVE ScanRecord' /\ RangeExact'
  <2>1. ScanRecord'
    BY <1>1, Zenon DEF OpenScan, ScanRecord
  <2>. QED  BY <1>1, <2>1, OpenExact, Zenon
<1>2. CASE index_end
  <2>1. scan' = [scan EXCEPT !.open = FALSE]
    BY <1>2, Zenon DEF index_end
  <2>2. scan' = [open |-> FALSE, range |-> scan.range, backward |-> scan.backward,
                 cond |-> scan.cond, wanted |-> scan.wanted, exact |-> scan.exact]
    BY <2>1, Zenon DEF ScanRecord
  <2>3. /\ ~ scan'.open /\ scan'.range = scan.range /\ scan'.wanted = scan.wanted
        /\ ScanRecord'
    BY <2>2, Zenon DEF ScanRecord
  <2>. QED  BY <2>3, Zenon DEF RangeExact
<1>3. CASE UNCHANGED scan
  BY <1>3, Zenon DEF ScanRecord, RangeExact
<1>4. CASE \E k \in FullKey : DeleteRow(k) \/ InsertRow(k)
  BY <1>3, <1>4, Zenon DEF DeleteRow, InsertRow, scanVars
<1>5. CASE Kill \/ index_next \/ unlock_row \/ RequestFails
  BY <1>3, <1>5, Zenon DEF Kill, index_next, unlock_row, RequestFails, scanVars
<1>6. CASE NextStep
  BY <1>3, <1>6, Zenon DEF NextStep, ReturnReserved, NoneReserved, Interrupted, TakeTuple, Exhausted,
     FetchBatch, BatchArrives, EmptyBatchArrives, BatchRead, scanVars
<1>7. CASE UNCHANGED vars
  BY <1>3, <1>7, Zenon DEF vars, scanVars
<1>. QED  BY <1>1, <1>2, <1>4, <1>5, <1>6, <1>7, Zenon DEF Next

\* The range of an open scan is the condition that opened it: PrepareScan(),
\* PrepareForwardScanEndKey() and PrepareBackwardScanEndKey() lose no key and
\* add none, for every set of keys, every key length and whatever other
\* transactions, kills and failures do.
THEOREM ScanRangeIsCondition == Spec => []RangeExact
<1>1. Init => ScanRecord /\ RangeExact
  BY DEF Init, NoScan, ScanRecord, RangeExact
<1>. QED  BY <1>1, RangeKept, PTL DEF Spec

-----------------------------------------------------------------------------
(* The inductive invariant of a scan.                                      *)

Entry == [key : FullKey, normal : BOOLEAN]

\* The type invariant that the induction carries: scan_batch_idx_ is an index or
\* UINT64_MAX, whatever has failed.
ScanTypes ==
  /\ rows \subseteq FullKey /\ tombs \subseteq FullKey \ rows /\ stable \subseteq rows
  /\ kind \in Kind
  /\ scan_batch \in Seq(Entry) /\ sk_pk_scan_batch \in Seq(Entry)
  /\ batch_order \in Seq(Nat) /\ Len(batch_order) = Len(sk_pk_scan_batch)
  /\ scan_batch_idx \in {MAX} \cup Nat
  /\ vct_key_order \in Seq(FullKey) /\ returned \in Seq(FullKey)
  /\ pc \in {"idle", "next", "loop", "fetch", "read"}

\* scan_batch_ holds a chunk, whose records were read or are about to be.
Chunk ==
  /\ kind = "lookup"
  /\ pc = "read" \/ (pc \in {"idle", "next"} /\ rc = "row" /\ scan_batch_idx # MAX)

\* Where PkIndexScanNext() and SkIndexScanNext() can be with which batches.
Modes ==
  /\ pc \in {"next", "read"} => kind = "lookup"
  /\ pc # "idle" => scan.open
  /\ pc \in {"idle", "next"} \/ kind # "lookup" => vct_key_order = << >>
  /\ pc = "next" /\ scan_batch_idx # MAX => rc = "row"
  /\ pc = "fetch" => scan_batch_idx = 0 /\ scan_batch = << >>
  /\ pc # "read" /\ ~ failed => scan_batch_idx \in {MAX} \cup (0 .. Len(scan_batch))
  /\ pc = "idle" /\ scan.open /\ rc # "row" /\ ~ failed =>
       scan_batch_idx = MAX \/ scan_batch_idx = Len(scan_batch)
  /\ kind # "lookup" => batch_order = << >>

\* batch_order_ leads from each tuple of a chunk to its record.
Paired ==
  Chunk => /\ Len(batch_order) = Len(scan_batch)
           /\ \A j \in 1 .. Len(scan_batch) :
                /\ batch_order[j] \in 1 .. Len(scan_batch)
                /\ sk_pk_scan_batch[batch_order[j]].key = scan_batch[j].key

\* Positions of scan_batch_ that the scan has not come to.
Ahead ==
  {j \in 1 .. Len(scan_batch) : pc = "read" \/ (scan_batch_idx # MAX /\ scan_batch_idx < j)}

\* What was returned, collected and delivered comes in the order of the scan,
\* in this order, and before what was not delivered.
Ordered ==
  /\ \A i, j \in 1 .. Len(returned) : j < i => Precedes(scan.backward, returned[j], returned[i])
  /\ \A i, j \in 1 .. Len(vct_key_order) : j < i => Precedes(scan.backward, vct_key_order[j], vct_key_order[i])
  /\ \A i, j \in 1 .. Len(scan_batch) : j < i => Precedes(scan.backward, scan_batch[j].key, scan_batch[i].key)
  /\ \A i \in 1 .. Len(returned) :
       /\ \A j \in 1 .. Len(vct_key_order) : Precedes(scan.backward, returned[i], vct_key_order[j])
       /\ \A j \in Ahead : Precedes(scan.backward, returned[i], scan_batch[j].key)
  /\ pc # "read" => \A i \in 1 .. Len(vct_key_order) : \A j \in Ahead :
                      Precedes(scan.backward, vct_key_order[i], scan_batch[j].key)
  /\ \A k \in FullKey \ cursor :
       /\ \A i \in 1 .. Len(returned) : Precedes(scan.backward, returned[i], k)
       /\ \A i \in 1 .. Len(vct_key_order) : Precedes(scan.backward, vct_key_order[i], k)
       /\ \A i \in 1 .. Len(scan_batch) : Precedes(scan.backward, scan_batch[i].key, k)

\* Every entry is of the range, and what was collected or returned satisfies the
\* pushed condition.
InScan ==
  /\ scan.wanted \subseteq scan.cond
  /\ \A i \in 1 .. Len(scan_batch) : InRange(scan_batch[i].key, scan.range)
  /\ \A i \in 1 .. Len(vct_key_order) : InRange(vct_key_order[i], scan.range)
  /\ \A i \in 1 .. Len(returned) : InRange(returned[i], scan.range)
  /\ kind # "primary" =>
       /\ Chunk => \A i \in 1 .. Len(scan_batch) : scan_batch[i].key \in scan.cond
       /\ \A i \in 1 .. Len(vct_key_order) : vct_key_order[i] \in scan.cond
       /\ \A i \in 1 .. Len(returned) : returned[i] \in scan.cond /\ (scan.exact => returned[i] \in scan.wanted)

\* Position j is still to be returned or collected.
Waiting(j) ==
  /\ j \in Ahead
  /\ scan_batch[j].normal
  /\ Chunk /\ pc # "read" => sk_pk_scan_batch[batch_order[j]].normal

\* k was returned or will be without another batch.
Held(k) ==
  \/ \E i \in 1 .. Len(returned) : returned[i] = k
  \/ pc # "read" /\ \E i \in 1 .. Len(vct_key_order) : vct_key_order[i] = k
  \/ \E j \in 1 .. Len(scan_batch) : Waiting(j) /\ scan_batch[j].key = k

\* No wanted row that existed throughout is lost between the service and the
\* caller, and after the last batch the service has none left.
Covered ==
  /\ scan.open /\ ~ failed => \A k \in scan.wanted \cap stable : k \in cursor => Held(k)
  /\ scan.open /\ is_last_scan_batch =>
       \A k \in rows \cup tombs : InRange(k, scan.range) => k \in cursor

\* The row that was returned last is the one at the position, and unlock_row()
\* is the only one to give back a lock of an open scan.
Position ==
  /\ pc = "idle" /\ rc = "row" /\ scan.open =>
       /\ scan_batch_idx \in 1 .. Len(scan_batch)
       /\ Len(returned) > 0 /\ scan_batch[scan_batch_idx].key = returned[Len(returned)]
  /\ scan.open => \A k \in released : pc = "idle" /\ k = returned[Len(returned)]
  /\ ~ scan.open /\ ~ failed => \A i \in 1 .. Len(returned) : returned[i] \notin released

ScanInv ==
  ScanTypes /\ Modes /\ Paired /\ Ordered /\ InScan /\ Covered /\ Position

-----------------------------------------------------------------------------
(* The order of the keys, and what the sequences of a step are.            *)

\* An empty sequence has no positions.
LEMMA NoPosition == \A j : j \notin 1 .. 0
  OBVIOUS

\* No key comes before itself, in either direction (operator< of EloqKey).
LEMMA NotBeforeItself ==
  ASSUME NEW k \in FullKey, NEW back
  PROVE  ~ Precedes(back, k, k)
<1>1. k \in Seq(Byte)
  BY KeyAssumption, Zenon
<1>2. ~ Less(k, k)
  BY <1>1, LessExcludes, Zenon
<1>3. ~ (Len(k) < Len(k))
  BY <1>1
<1>. QED  BY <1>2, <1>3, Zenon DEF Precedes, KeyLt

\* A sequence of n entries, given by its elements.
LEMMA EntriesMake ==
  ASSUME NEW n \in Nat, NEW b, b \in [1 .. n -> Entry]
  PROVE  b \in Seq(Entry) /\ Len(b) = n
OBVIOUS

\* A batch that the service delivers (ScanBatchTxRequest).
LEMMA BatchBuilt ==
  ASSUME ScanTypes, NEW n \in Nat, NEW s \in [1 .. n -> Undelivered]
  PROVE  /\ Batch(s) \in Seq(Entry) /\ Len(Batch(s)) = n
         /\ \A i \in 1 .. n :
              /\ s[i] \in FullKey /\ s[i] \in rows \cup tombs /\ s[i] \notin cursor
              /\ InRange(s[i], scan.range)
              /\ Batch(s)[i].key = s[i]
              /\ s[i] \in rows => Batch(s)[i].normal
<1>1. \A i \in 1 .. n : s[i] \in FullKey /\ s[i] \in rows \cup tombs /\ s[i] \notin cursor
                        /\ InRange(s[i], scan.range)
  BY Zenon DEF Undelivered, ScanTypes
<1>2. DOMAIN s = 1 .. n
  BY Zenon
<1>3. Batch(s) = [i \in 1 .. n |-> [key |-> s[i], normal |-> s[i] \in rows]]
  BY <1>2, Zenon DEF Batch, Tuple
<1>4. \A i \in 1 .. n : [key |-> s[i], normal |-> s[i] \in rows] \in Entry
  BY <1>1 DEF Entry
<1>5. Batch(s) \in [1 .. n -> Entry]
  BY <1>3, <1>4, Zenon
<1>6. ASSUME NEW i \in 1 .. n
      PROVE  Batch(s)[i].key = s[i] /\ (s[i] \in rows => Batch(s)[i].normal)
  <2>1. Batch(s)[i] = [key |-> s[i], normal |-> s[i] \in rows]
    BY <1>3, Zenon
  <2>2. Batch(s)[i].key = s[i]
    BY <2>1
  <2>3. ASSUME s[i] \in rows PROVE Batch(s)[i].normal
    <3>1. Batch(s)[i] = [key |-> s[i], normal |-> TRUE]
      BY <2>1, <2>3, Zenon
    <3>. QED  BY <3>1
  <2>. QED  BY <2>2, <2>3, Zenon
<1>. QED  BY <1>1, <1>5, <1>6, EntriesMake, Zenon

\* The chunk that SkIndexScanNext() makes of the rows it has collected, and how
\* batch_order_ leads from a tuple to its record.
LEMMA ChunkBuilt ==
  ASSUME ScanTypes, ReadChunk
  PROVE  LET n == Len(vct_key_order)
         IN  /\ scan_batch' \in Seq(Entry) /\ Len(scan_batch') = n
             /\ sk_pk_scan_batch' \in Seq(Entry) /\ Len(sk_pk_scan_batch') = n
             /\ batch_order' \in Seq(Nat) /\ Len(batch_order') = n
             /\ \A j \in 1 .. n :
                  /\ scan_batch'[j].key = vct_key_order[j] /\ scan_batch'[j].normal
                  /\ batch_order'[j] \in 1 .. n
                  /\ sk_pk_scan_batch'[batch_order'[j]].key = scan_batch'[j].key
<1>. DEFINE n == Len(vct_key_order)
<1>1. n \in Nat /\ DOMAIN vct_key_order = 1 .. n /\ \A i \in 1 .. n : vct_key_order[i] \in FullKey
  BY DEF ScanTypes
<1>2. PICK p \in [1 .. n -> 1 .. n] :
        /\ SortedByPk(p)
        /\ batch_order' = BatchOrder(p)
        /\ sk_pk_scan_batch' = [i \in DOMAIN p |-> Tuple(vct_key_order[p[i]], FALSE)]
  BY <1>1, Zenon DEF ReadChunk
<1>. HIDE DEF n
<1>3. \A i \in 1 .. n : \E j \in 1 .. n : p[j] = i
  BY <1>2, Zenon DEF SortedByPk
<1>4. batch_order' = [i \in 1 .. n |-> CHOOSE j \in 1 .. n : p[j] = i]
  BY <1>2 DEF BatchOrder
<1>5. \A i \in 1 .. n : batch_order'[i] \in 1 .. n /\ p[batch_order'[i]] = i
  BY <1>3, <1>4, Zenon
<1>6. batch_order' \in [1 .. n -> Nat]
  BY <1>1, <1>4, <1>5, SMTT(60)
<1>7. batch_order' \in Seq(Nat) /\ Len(batch_order') = n
  BY <1>1, <1>6
<1>8. scan_batch' = [i \in 1 .. n |-> [key |-> vct_key_order[i], normal |-> TRUE]]
  BY <1>1, Zenon DEF ReadChunk, Tuple
<1>9. /\ scan_batch' \in [1 .. n -> Entry]
      /\ \A j \in 1 .. n : scan_batch'[j].key = vct_key_order[j] /\ scan_batch'[j].normal
  BY <1>1, <1>8, Zenon DEF Entry
<1>10. sk_pk_scan_batch' = [i \in 1 .. n |-> [key |-> vct_key_order[p[i]], normal |-> FALSE]]
  BY <1>2, Zenon DEF Tuple
<1>11. /\ sk_pk_scan_batch' \in [1 .. n -> Entry]
       /\ \A i \in 1 .. n : sk_pk_scan_batch'[i].key = vct_key_order[p[i]]
  BY <1>1, <1>10, Zenon DEF Entry
<1>12. \A j \in 1 .. n : sk_pk_scan_batch'[batch_order'[j]].key = scan_batch'[j].key
  BY <1>5, <1>9, <1>11
<1>. QED  BY <1>1, <1>5, <1>7, <1>9, <1>11, <1>12, EntriesMake, Zenon DEF n

-----------------------------------------------------------------------------
(* A batch on its way: b becomes scan_batch_, the scan has come to position *)
(* m of it, and c and last are what the service then has delivered.        *)

\* The batch continues what was returned.
Lined(b, m, c, last) ==
  /\ b \in Seq(Entry)
  /\ \A i, j \in 1 .. Len(b) : j < i => Precedes(scan.backward, b[j].key, b[i].key)
  /\ \A i \in 1 .. Len(returned) : \A j \in 1 .. Len(b) :
       m < j => Precedes(scan.backward, returned[i], b[j].key)
  /\ \A k \in FullKey \ c :
       /\ \A i \in 1 .. Len(returned) : Precedes(scan.backward, returned[i], k)
       /\ \A i \in 1 .. Len(b) : Precedes(scan.backward, b[i].key, k)
  /\ \A i \in 1 .. Len(b) : InRange(b[i].key, scan.range)
  /\ last => \A k \in rows \cup tombs : InRange(k, scan.range) => k \in c

\* The batch continues what was collected, and nothing is lost between them.
Gathered(b, m, c) ==
  /\ \A i \in 1 .. Len(vct_key_order) :
       /\ \A j \in 1 .. Len(b) : m < j => Precedes(scan.backward, vct_key_order[i], b[j].key)
       /\ \A k \in FullKey \ c : Precedes(scan.backward, vct_key_order[i], k)
  /\ ~ failed => \A k \in scan.wanted \cap stable : k \in c =>
       \/ \E i \in 1 .. Len(returned) : returned[i] = k
       \/ \E i \in 1 .. Len(vct_key_order) : vct_key_order[i] = k
       \/ \E j \in 1 .. Len(b) : m < j /\ b[j].normal /\ b[j].key = k

\* The steps of a call change neither the rows nor the scan.
Frame == UNCHANGED << rows, tombs, stable, kind, scan, released >>

\* A row is appended to what was collected or returned.
LEMMA Appended ==
  ASSUME NEW s \in Seq(FullKey), NEW k \in FullKey
  PROVE  /\ Append(s, k) \in Seq(FullKey) /\ Len(s) \in Nat /\ Len(Append(s, k)) = Len(s) + 1
         /\ \A j \in 1 .. Len(s) : Append(s, k)[j] = s[j]
         /\ Append(s, k)[Len(s) + 1] = k
OBVIOUS

\* The batch in hand is one on its way, in the loop and when a call fails.
LEMMA BatchInHand ==
  ASSUME ScanInv, NEW m \in Int, \A j \in 1 .. Len(scan_batch) : m < j => j \in Ahead, pc # "idle"
  PROVE  Lined(scan_batch, m, cursor, is_last_scan_batch)
<1>1. scan.open
  BY Zenon DEF ScanInv, Modes
<1>2. /\ scan_batch \in Seq(Entry)
      /\ \A i \in 1 .. Len(scan_batch) : InRange(scan_batch[i].key, scan.range)
  BY Zenon DEF ScanInv, ScanTypes, InScan
<1>3. is_last_scan_batch => \A k \in rows \cup tombs : InRange(k, scan.range) => k \in cursor
  BY <1>1, Zenon DEF ScanInv, Covered
<1>. QED  BY <1>2, <1>3, Zenon DEF ScanInv, Ordered, Lined

\* In the loop nothing is left of a chunk but what was collected since.
LEMMA LoopInHand ==
  ASSUME ScanInv, NEW m \in Int, pc \in {"loop", "fetch"},
         \A j \in 1 .. Len(scan_batch) : m < j <=> j \in Ahead
  PROVE  Gathered(scan_batch, m, cursor)
<1>1. scan.open /\ ~ Chunk
  BY Zenon DEF ScanInv, Modes, Chunk
<1>2. \A i \in 1 .. Len(vct_key_order) :
        /\ \A j \in 1 .. Len(scan_batch) :
             m < j => Precedes(scan.backward, vct_key_order[i], scan_batch[j].key)
        /\ \A k \in FullKey \ cursor : Precedes(scan.backward, vct_key_order[i], k)
  BY Zenon DEF ScanInv, Ordered
<1>3. ~ failed => \A k \in scan.wanted \cap stable : k \in cursor => Held(k)
  BY <1>1, Zenon DEF ScanInv, Covered
<1>4. \A j \in 1 .. Len(scan_batch) : Waiting(j) <=> m < j /\ scan_batch[j].normal
  BY <1>1, Zenon DEF Waiting
<1>. QED  BY <1>2, <1>3, <1>4, Zenon DEF Held, Gathered

\* What the service answers continues what it has delivered before: its order
\* is that of the scan and it passes over no entry (ScanBatchTxRequest).
LEMMA Delivered ==
  ASSUME ScanInv, RangeExact, pc = "fetch", NEW n \in Nat, NEW s \in [1 .. n -> Undelivered],
         NEW last, Answer(s, last)
  PROVE  Lined(Batch(s), 0, cursor', is_last_scan_batch') /\ Gathered(Batch(s), 0, cursor')
<1>. DEFINE b == Batch(s)
<1>1. /\ b \in Seq(Entry) /\ Len(b) = n
      /\ \A i \in 1 .. n :
           /\ s[i] \in FullKey /\ s[i] \in rows \cup tombs /\ s[i] \notin cursor
           /\ InRange(s[i], scan.range)
           /\ b[i].key = s[i]
           /\ s[i] \in rows => b[i].normal
  BY BatchBuilt, Zenon DEF ScanInv
<1>. HIDE DEF b
<1>2. DOMAIN s = 1 .. n
  BY Zenon
<1>3. /\ \A i, j \in 1 .. n : i < j => Precedes(scan.backward, s[i], s[j])
      /\ \A k \in Undelivered \ Range(s) : \A i \in 1 .. n : Precedes(scan.backward, s[i], k)
      /\ last => Undelivered \subseteq Range(s)
      /\ is_last_scan_batch' = last
      /\ cursor' = cursor \cup {k \in FullKey : \E i \in 1 .. n : ~ Precedes(scan.backward, s[i], k)}
  BY <1>2, Zenon DEF Answer
<1>4. /\ rows \subseteq FullKey /\ tombs \subseteq FullKey /\ stable \subseteq rows
      /\ scan.open /\ scan_batch = << >> /\ scan_batch_idx = 0
  BY Zenon DEF ScanInv, ScanTypes, Modes
<1>5. \A i \in 1 .. n : s[i] \in cursor'
  BY <1>1, <1>3, NotBeforeItself, Zenon
<1>6. \A i \in 1 .. n : s[i] \in FullKey \ cursor
  BY <1>1, Zenon
<1>7. \A k \in Undelivered : k \in cursor' => \E i \in 1 .. n : s[i] = k
  <2>. SUFFICES ASSUME NEW k \in Undelivered, k \in cursor', ~ \E i \in 1 .. n : s[i] = k PROVE FALSE
    BY Zenon
  <2>1. k \notin Range(s)
    BY <1>2, Zenon DEF Range
  <2>2. k \notin cursor
    BY Zenon DEF Undelivered
  <2>. QED  BY <1>3, <2>1, <2>2, Zenon
<1>8. Lined(b, 0, cursor', is_last_scan_batch')
  <2>1. \A i, j \in 1 .. Len(b) : j < i => Precedes(scan.backward, b[j].key, b[i].key)
    BY <1>1, <1>3, Zenon
  <2>2. \A i \in 1 .. Len(returned) : \A j \in 1 .. Len(b) : Precedes(scan.backward, returned[i], b[j].key)
    BY <1>1, <1>6, Zenon DEF ScanInv, Ordered
  <2>3. \A k \in FullKey \ cursor' :
          /\ \A i \in 1 .. Len(returned) : Precedes(scan.backward, returned[i], k)
          /\ \A i \in 1 .. Len(b) : Precedes(scan.backward, b[i].key, k)
    BY <1>1, <1>3, Zenon DEF ScanInv, Ordered
  <2>4. \A i \in 1 .. Len(b) : InRange(b[i].key, scan.range)
    BY <1>1, Zenon
  <2>5. ASSUME is_last_scan_batch', NEW k \in rows \cup tombs, InRange(k, scan.range)
        PROVE  k \in cursor'
    <3>1. CASE k \in cursor
      BY <1>3, <3>1, Zenon
    <3>2. CASE k \notin cursor
      <4>1. k \in Undelivered
        BY <2>5, <3>2, Zenon DEF Undelivered
      <4>2. k \in Range(s)
        BY <1>3, <2>5, <4>1, Zenon
      <4>3. \E i \in 1 .. n : s[i] = k
        BY <1>2, <4>2, Zenon DEF Range
      <4>. QED  BY <1>5, <4>3, Zenon
    <3>. QED  BY <3>1, <3>2, Zenon
  <2>. QED  BY <1>1, <2>1, <2>2, <2>3, <2>4, <2>5, Zenon DEF Lined
<1>9. Gathered(b, 0, cursor')
  <2>1. \A i \in 1 .. Len(vct_key_order) : \A k \in FullKey \ cursor :
          Precedes(scan.backward, vct_key_order[i], k)
    BY Zenon DEF ScanInv, Ordered
  <2>2. \A i \in 1 .. Len(vct_key_order) :
          /\ \A j \in 1 .. Len(b) : Precedes(scan.backward, vct_key_order[i], b[j].key)
          /\ \A k \in FullKey \ cursor' : Precedes(scan.backward, vct_key_order[i], k)
    BY <1>1, <1>3, <2>1, Zenon
  <2>3. ASSUME ~ failed, NEW k \in scan.wanted \cap stable, k \in cursor'
        PROVE  \/ \E i \in 1 .. Len(returned) : returned[i] = k
               \/ \E i \in 1 .. Len(vct_key_order) : vct_key_order[i] = k
               \/ \E j \in 1 .. Len(b) : 0 < j /\ b[j].normal /\ b[j].key = k
    <3>1. k \in rows /\ k \in FullKey /\ InRange(k, scan.range)
      BY <1>4, <2>3, Zenon DEF RangeExact
    <3>2. CASE k \in cursor
      <4>1. Held(k)
        BY <1>4, <2>3, <3>2, Zenon DEF ScanInv, Covered
      <4>. QED  BY <1>4, <4>1 DEF Held
    <3>3. CASE k \notin cursor
      <4>1. k \in Undelivered
        BY <3>1, <3>3, Zenon DEF Undelivered
      <4>2. PICK i \in 1 .. n : s[i] = k
        BY <1>7, <2>3, <4>1, Zenon
      <4>. QED  BY <1>1, <3>1, <4>2
    <3>. QED  BY <3>2, <3>3, Zenon
  <2>. QED  BY <2>2, <2>3, Zenon DEF Gathered
<1>. QED  BY <1>8, <1>9, Zenon DEF b

\* A tuple of the loop is skipped, collected or returned, whether its batch was
\* there or has just arrived.
LEMMA ConsumeKeeps ==
  ASSUME ScanInv, RangeExact, pc \in {"loop", "fetch"}, NEW b, NEW i \in 1 .. Len(b),
         Lined(b, i - 1, cursor', is_last_scan_batch'), Gathered(b, i - 1, cursor'),
         Consume(b, i), scan_batch' = b, Frame, UNCHANGED << batch_order, sk_pk_scan_batch, failed >>
  PROVE  ScanInv'
<1>. DEFINE x == b[i].key
<1>0. /\ b \in Seq(Entry) /\ Len(b) \in Nat /\ i \in Nat /\ i > 0 /\ i <= Len(b) /\ i # MAX
      /\ x \in FullKey /\ scan.open /\ InRange(x, scan.range)
  <2>1. b \in Seq(Entry) /\ InRange(x, scan.range)
    BY Zenon DEF Lined
  <2>2. b[i] \in Entry /\ Len(b) \in Nat
    BY <2>1
  <2>3. x \in FullKey
    BY <2>2, Zenon DEF Entry
  <2>4. scan.open
    BY Zenon DEF ScanInv, Modes
  <2>. QED  BY <2>1, <2>2, <2>3, <2>4 DEF MAX
<1>1. /\ rows' = rows /\ tombs' = tombs /\ stable' = stable /\ kind' = kind /\ scan' = scan
      /\ released' = released
  BY Zenon DEF Frame
<1>2. /\ scan_batch' = b /\ scan_batch_idx' = i
      /\ batch_order' = batch_order /\ sk_pk_scan_batch' = sk_pk_scan_batch /\ failed' = failed
  BY Zenon DEF Consume
<1>3. \A j \in 1 .. Len(b) : \A l \in 1 .. Len(b) : j < l => Precedes(scan.backward, b[j].key, b[l].key)
  BY Zenon DEF Lined
<1>4. released = {}
  BY <1>0, Zenon DEF ScanInv, Position
<1>5. CASE ~ b[i].normal \/ (kind # "primary" /\ x \notin scan.cond)
  <2>1. pc' = "loop" /\ rc' = rc /\ vct_key_order' = vct_key_order /\ returned' = returned
    BY <1>5, Zenon DEF Consume
  <2>2. ScanTypes'
    BY <1>0, <1>1, <1>2, <2>1, Zenon DEF ScanInv, ScanTypes
  <2>3. Modes' /\ Paired' /\ ~ Chunk'
    BY <1>0, <1>1, <1>2, <2>1 DEF ScanInv, Modes, Paired, Chunk
  <2>4. \A j \in 1 .. Len(b) : j \in Ahead' <=> i < j
    BY <1>0, <1>2, <2>1, ZenonT(40) DEF Ahead
  <2>5. Ordered'
    BY <1>0, <1>1, <1>2, <1>3, <2>1, <2>4, SMTT(60) DEF ScanInv, Ordered, Lined, Gathered, Ahead
  <2>6. InScan'
    BY <1>1, <1>2, <2>1, <2>3, Zenon DEF ScanInv, InScan, Lined
  <2>7. Covered'
    <3>1. ASSUME ~ failed, NEW k \in scan.wanted \cap stable, k \in cursor'
          PROVE  Held(k)'
      <4>1. \A j \in 1 .. Len(b) : i < j /\ b[j].normal => Waiting(j)'
        BY <1>2, <2>3, <2>4, Zenon DEF Waiting
      <4>2. k \in scan.cond
        BY Zenon DEF ScanInv, InScan
      <4>3. CASE \E j \in 1 .. Len(b) : i - 1 < j /\ b[j].normal /\ b[j].key = k
        <5>1. PICK j \in 1 .. Len(b) : i - 1 < j /\ b[j].normal /\ b[j].key = k
          BY <4>3, Zenon
        <5>2. CASE j = i
          <6>1. kind = "primary" \/ kind # "primary"
            BY ZenonT(40)
          <6>. QED  BY <1>5, <4>2, <5>1, <5>2, Zenon
        <5>3. CASE j # i
          BY <1>0, <1>2, <4>1, <5>1, <5>3 DEF Held
        <5>. QED  BY <5>2, <5>3, Zenon
      <4>4. CASE ~ \E j \in 1 .. Len(b) : i - 1 < j /\ b[j].normal /\ b[j].key = k
        BY <2>1, <3>1, <4>4, Zenon DEF Gathered, Held
      <4>. QED  BY <4>3, <4>4, Zenon
    <3>. QED  BY <1>1, <1>2, <3>1 DEF Covered, Lined
  <2>8. Position'
    BY <1>0, <1>1, <1>4, <2>1, Zenon DEF Position
  <2>. QED  BY <2>2, <2>3, <2>5, <2>6, <2>7, <2>8, Zenon DEF ScanInv
<1>6. CASE ~ (~ b[i].normal \/ (kind # "primary" /\ x \notin scan.cond)) /\ kind = "lookup"
  <2>1. pc' = "loop" /\ rc' = rc /\ vct_key_order' = Append(vct_key_order, x) /\ returned' = returned
    BY <1>6, Zenon DEF Consume
  <2>. DEFINE n == Len(vct_key_order)
              v == vct_key_order'
  <2>2. /\ v \in Seq(FullKey) /\ n \in Nat /\ Len(v) = n + 1 /\ v[n + 1] = x
        /\ \A j \in 1 .. n : v[j] = vct_key_order[j]
    BY <1>0, <2>1, Appended, SMTT(60) DEF ScanInv, ScanTypes
  <2>. HIDE DEF n, v
  <2>3. ScanTypes'
    BY <1>0, <1>1, <1>2, <2>1, <2>2, Zenon DEF ScanInv, ScanTypes, v
  <2>4. Modes' /\ Paired' /\ ~ Chunk'
    BY <1>0, <1>1, <1>2, <1>6, <2>1 DEF ScanInv, Modes, Paired, Chunk
  <2>5. \A j \in 1 .. Len(b) : j \in Ahead' <=> i < j
    BY <1>0, <1>2, <2>1, Zenon DEF Ahead
  <2>6. \A j \in 1 .. Len(v) : (j \in 1 .. n /\ v[j] = vct_key_order[j]) \/ (j = n + 1 /\ v[j] = x)
    BY <2>2
  <2>7. Ordered'
    <3>1. \A j, l \in 1 .. Len(v) : l < j => Precedes(scan.backward, v[l], v[j])
      <4>. SUFFICES ASSUME NEW j \in 1 .. Len(v), NEW l \in 1 .. Len(v), l < j
                    PROVE  Precedes(scan.backward, v[l], v[j])
        BY Zenon
      <4>1. l \in 1 .. n /\ v[l] = vct_key_order[l]
        BY <2>2, <2>6
      <4>2. CASE j \in 1 .. n /\ v[j] = vct_key_order[j]
        BY <4>1, <4>2, Zenon DEF ScanInv, Ordered, n
      <4>3. CASE j = n + 1 /\ v[j] = x
        <5>1. i - 1 < i
          BY <1>0
        <5>. QED  BY <4>1, <4>3, <5>1, Zenon DEF Gathered, n
      <4>. QED  BY <2>6, <4>2, <4>3, Zenon
    <3>2. \A l \in 1 .. Len(returned) : \A j \in 1 .. Len(v) : Precedes(scan.backward, returned[l], v[j])
      <4>. SUFFICES ASSUME NEW l \in 1 .. Len(returned), NEW j \in 1 .. Len(v)
                    PROVE  Precedes(scan.backward, returned[l], v[j])
        BY Zenon
      <4>1. CASE j \in 1 .. n /\ v[j] = vct_key_order[j]
        BY <4>1, Zenon DEF ScanInv, Ordered, n
      <4>2. CASE j = n + 1 /\ v[j] = x
        <5>1. i - 1 < i
          BY <1>0, SMTT(60)
        <5>. QED  BY <4>2, <5>1, Zenon DEF Lined
      <4>. QED  BY <2>6, <4>1, <4>2, Zenon
    <3>3. \A l \in 1 .. Len(v) : \A j \in 1 .. Len(b) : i < j => Precedes(scan.backward, v[l], b[j].key)
      BY <1>0, <1>3, <2>6, SMTT(60) DEF Gathered, n
    <3>4. \A k \in FullKey \ cursor' :
            /\ \A l \in 1 .. Len(returned) : Precedes(scan.backward, returned[l], k)
            /\ \A l \in 1 .. Len(v) : Precedes(scan.backward, v[l], k)
            /\ \A l \in 1 .. Len(b) : Precedes(scan.backward, b[l].key, k)
      BY <1>0, <2>6, Zenon DEF Lined, Gathered, n
    <3>5. \A l \in 1 .. Len(returned) : \A j \in 1 .. Len(b) : i < j => Precedes(scan.backward, returned[l], b[j].key)
      BY <1>0 DEF Lined
    <3>6. \A l, j \in 1 .. Len(returned) : j < l => Precedes(scan.backward, returned[j], returned[l])
      BY Zenon DEF ScanInv, Ordered
    <3>7. Ahead' \subseteq 1 .. Len(b)
      BY <1>2, Zenon DEF Ahead
    <3>. QED  BY <1>1, <1>2, <1>3, <2>1, <2>5, <3>1, <3>2, <3>3, <3>4, <3>5, <3>6, <3>7, Zenon DEF Ordered,
                 v
  <2>8. InScan'
    <3>1. \A j \in 1 .. Len(v) : InRange(v[j], scan.range) /\ v[j] \in scan.cond
      BY <1>0, <1>6, <2>6, Zenon DEF ScanInv, InScan, n
    <3>. QED  BY <1>1, <1>2, <2>1, <2>4, <3>1, Zenon DEF ScanInv, InScan, Lined, v
  <2>9. Covered'
    <3>1. ASSUME ~ failed, NEW k \in scan.wanted \cap stable, k \in cursor'
          PROVE  Held(k)'
      <4>1. \A j \in 1 .. Len(b) : i < j /\ b[j].normal => Waiting(j)'
        BY <1>2, <2>4, <2>5, Zenon DEF Waiting
      <4>2. CASE \E j \in 1 .. Len(b) : i - 1 < j /\ b[j].normal /\ b[j].key = k
        <5>1. PICK j \in 1 .. Len(b) : i - 1 < j /\ b[j].normal /\ b[j].key = k
          BY <4>2, Zenon
        <5>2. CASE j = i
          <6>1. n + 1 \in 1 .. Len(v) /\ v[n + 1] = k
            BY <2>2, <5>1, <5>2
          <6>. QED  BY <2>1, <6>1, Zenon DEF Held, v
        <5>3. CASE j # i
          BY <1>0, <1>2, <4>1, <5>1, <5>3 DEF Held
        <5>. QED  BY <5>2, <5>3, Zenon
      <4>3. CASE \E j \in 1 .. n : vct_key_order[j] = k
        <5>1. \E j \in 1 .. Len(v) : v[j] = k
          BY <2>2, <4>3
        <5>. QED  BY <2>1, <5>1, Zenon DEF Held, v
      <4>4. CASE \E j \in 1 .. Len(returned) : returned[j] = k
        BY <2>1, <4>4, Zenon DEF Held
      <4>. QED  BY <3>1, <4>2, <4>3, <4>4, Zenon DEF Gathered, n
    <3>. QED  BY <1>1, <1>2, <3>1 DEF Covered, Lined
  <2>10. Position'
    BY <1>0, <1>1, <1>4, <2>1, Zenon DEF Position
  <2>. QED  BY <2>3, <2>4, <2>7, <2>8, <2>9, <2>10, Zenon DEF ScanInv
<1>7. CASE ~ (~ b[i].normal \/ (kind # "primary" /\ x \notin scan.cond)) /\ kind # "lookup"
  <2>1. pc' = "idle" /\ rc' = "row" /\ vct_key_order' = << >> /\ returned' = Append(returned, x)
    <3>1. ReturnRow(x)
      BY <1>7, Zenon DEF Consume
    <3>2. Reported("row") = "row"
      BY Zenon DEF Reported, NoMore
    <3>. QED  BY <3>1, <3>2, Zenon DEF ReturnRow, Return
  <2>. DEFINE n == Len(returned)
              r == returned'
  <2>2. /\ r \in Seq(FullKey) /\ n \in Nat /\ Len(r) = n + 1 /\ r[n + 1] = x
        /\ \A j \in 1 .. n : r[j] = returned[j]
    BY <1>0, <2>1, Appended, SMTT(60) DEF ScanInv, ScanTypes
  <2>0. vct_key_order = << >>
    BY <1>7, Zenon DEF ScanInv, Modes
  <2>. HIDE DEF n, r
  <2>3. ScanTypes'
    BY <1>0, <1>1, <1>2, <2>1, <2>2, SMTT(60) DEF ScanInv, ScanTypes, r
  <2>4. Modes' /\ Paired' /\ ~ Chunk'
    BY <1>0, <1>1, <1>2, <1>7, <2>1 DEF ScanInv, Modes, Paired, Chunk
  <2>5. \A j \in 1 .. Len(b) : j \in Ahead' <=> i < j
    BY <1>0, <1>2, <2>1, Zenon DEF Ahead
  <2>6. \A j \in 1 .. Len(r) : (j \in 1 .. n /\ r[j] = returned[j]) \/ (j = n + 1 /\ r[j] = x)
    BY <2>2
  <2>7. Ordered'
    <3>1. \A j, l \in 1 .. Len(r) : l < j => Precedes(scan.backward, r[l], r[j])
      <4>. SUFFICES ASSUME NEW j \in 1 .. Len(r), NEW l \in 1 .. Len(r), l < j
                    PROVE  Precedes(scan.backward, r[l], r[j])
        BY Zenon
      <4>1. l \in 1 .. n /\ r[l] = returned[l]
        BY <2>2, <2>6
      <4>2. CASE j \in 1 .. n /\ r[j] = returned[j]
        BY <4>1, <4>2, Zenon DEF ScanInv, Ordered, n
      <4>3. CASE j = n + 1 /\ r[j] = x
        BY <1>0, <4>1, <4>3, SMTT(60) DEF Lined, n
      <4>. QED  BY <2>6, <4>2, <4>3, Zenon
    <3>2. \A l \in 1 .. Len(r) : \A j \in 1 .. Len(b) : i < j => Precedes(scan.backward, r[l], b[j].key)
      BY <1>0, <1>3, <2>6 DEF Lined, n
    <3>3. \A k \in FullKey \ cursor' :
            /\ \A l \in 1 .. Len(r) : Precedes(scan.backward, r[l], k)
            /\ \A l \in 1 .. Len(b) : Precedes(scan.backward, b[l].key, k)
      BY <1>0, <2>6, Zenon DEF Lined, n
    <3>4. Ahead' \subseteq 1 .. Len(b) /\ Len(vct_key_order') = 0
      BY <1>2, <2>1, ZenonT(40) DEF Ahead
    <3>5. \A l \in 1 .. Len(r) : \A j \in Ahead' : Precedes(scan.backward, r[l], b[j].key)
      BY <2>5, <3>2, <3>4, Zenon
    <3>6. scan' = scan /\ scan_batch' = b /\ r = returned'
      BY <1>1, <1>2, ZenonT(40) DEF r
    <3>. QED  BY <1>3, <3>1, <3>3, <3>4, <3>5, <3>6, NoPosition, Zenon DEF Ordered
  <2>8. InScan'
    <3>1. \A j \in 1 .. Len(r) :
            /\ InRange(r[j], scan.range)
            /\ kind # "primary" => r[j] \in scan.cond /\ (scan.exact => r[j] \in scan.wanted)
      BY <1>0, <1>7, <2>6, Zenon DEF ScanInv, InScan, RangeExact, n
    <3>2. Len(vct_key_order') = 0
      BY <2>1, ZenonT(40)
    <3>. QED  BY <1>1, <1>2, <2>4, <3>1, <3>2 DEF ScanInv, InScan, Lined, r
  <2>9. Covered'
    <3>1. ASSUME ~ failed, NEW k \in scan.wanted \cap stable, k \in cursor'
          PROVE  Held(k)'
      <4>1. \A j \in 1 .. Len(b) : i < j /\ b[j].normal => Waiting(j)'
        BY <1>2, <2>4, <2>5, Zenon DEF Waiting
      <4>2. CASE \E j \in 1 .. Len(b) : i - 1 < j /\ b[j].normal /\ b[j].key = k
        <5>1. PICK j \in 1 .. Len(b) : i - 1 < j /\ b[j].normal /\ b[j].key = k
          BY <4>2, Zenon
        <5>2. CASE j = i
          <6>1. n + 1 \in 1 .. Len(r) /\ r[n + 1] = k
            BY <2>2, <5>1, <5>2
          <6>. QED  BY <6>1, Zenon DEF Held, r
        <5>3. CASE j # i
          BY <1>0, <1>2, <4>1, <5>1, <5>3 DEF Held
        <5>. QED  BY <5>2, <5>3, Zenon
      <4>3. CASE \E j \in 1 .. n : returned[j] = k
        <5>1. \E j \in 1 .. Len(r) : r[j] = k
          BY <2>2, <4>3
        <5>. QED  BY <5>1, Zenon DEF Held, r
      <4>. QED  BY <2>0, <3>1, <4>2, <4>3, SMTT(60) DEF Gathered, n
    <3>. QED  BY <1>1, <1>2, <3>1 DEF Covered, Lined
  <2>10. Position'
    BY <1>0, <1>1, <1>2, <1>4, <2>1, <2>2 DEF Position, r
  <2>. QED  BY <2>3, <2>4, <2>7, <2>8, <2>9, <2>10, Zenon DEF ScanInv
<1>. QED  BY <1>5, <1>6, <1>7, Zenon

\* A call that fails leaves the scan as it is; the call after it is index_end()
\* or opens another scan.
LEMMA FailKeeps ==
  ASSUME ScanInv, pc # "idle", NEW b, NEW m \in Int, Lined(b, m, cursor', is_last_scan_batch'),
         NEW code, code # "row", Fail(code), scan_batch' = b, scan_batch_idx' \in {MAX} \cup Nat,
         scan_batch_idx' # MAX => m <= scan_batch_idx',
         Frame, UNCHANGED << batch_order, sk_pk_scan_batch >>
  PROVE  ScanInv'
<1>1. /\ rows' = rows /\ tombs' = tombs /\ stable' = stable /\ kind' = kind /\ scan' = scan
      /\ released' = released
  BY Zenon DEF Frame
<1>2. Reported(code) # "row"
  BY Zenon DEF Reported
<1>3. /\ rc' # "row" /\ pc' = "idle" /\ vct_key_order' = << >> /\ failed' /\ returned' = returned
  BY <1>2, Zenon DEF Fail, Return
<1>4. scan.open /\ released = {}
  BY Zenon DEF ScanInv, Modes, Position
<1>5. b \in Seq(Entry) /\ Len(b) \in Nat /\ Len(vct_key_order') = 0
  BY <1>3 DEF Lined
<1>6. ScanTypes'
  BY <1>1, <1>3, <1>5 DEF ScanInv, ScanTypes
<1>7. Modes' /\ Paired' /\ ~ Chunk'
  BY <1>1, <1>3, <1>4, ZenonT(40) DEF ScanInv, Modes, Paired, Chunk
<1>8. Ordered'
  <2>1. Ahead' \subseteq {j \in 1 .. Len(b) : m < j}
    BY <1>3, <1>5, SMTT(60) DEF Ahead, MAX
  <2>2. /\ \A i, j \in 1 .. Len(returned) : j < i => Precedes(scan.backward, returned[j], returned[i])
        /\ \A i \in 1 .. Len(returned) : \A j \in Ahead' : Precedes(scan.backward, returned[i], b[j].key)
    BY <2>1, Zenon DEF ScanInv, Ordered, Lined
  <2>. QED  BY <1>1, <1>3, <1>5, <2>2, NoPosition, Zenon DEF Ordered, Lined
<1>9. InScan'
  BY <1>1, <1>3, <1>5, <1>7, NoPosition, Zenon DEF ScanInv, InScan, Lined
<1>10. Covered'
  BY <1>1, <1>3, Zenon DEF Covered, Lined
<1>11. Position'
  BY <1>1, <1>3, <1>4, Zenon DEF Position
<1>. QED  BY <1>6, <1>7, <1>8, <1>9, <1>10, <1>11, Zenon DEF ScanInv

\* At the end of the entries the scan ends or its chunk is complete, whether the
\* service had no entry left or the batch in hand is used up.
LEMMA EndKeeps ==
  ASSUME ScanInv, pc \in {"loop", "fetch"}, NEW b, scan_batch_idx \in Nat, Len(b) <= scan_batch_idx,
         ~ failed => scan_batch_idx = Len(b),
         Lined(b, scan_batch_idx, cursor', is_last_scan_batch'),
         Gathered(b, scan_batch_idx, cursor'),
         EndOfEntries(b), Frame, UNCHANGED << scan_batch_idx, failed, returned >>
  PROVE  ScanInv'
<1>1. /\ rows' = rows /\ tombs' = tombs /\ stable' = stable /\ kind' = kind /\ scan' = scan
      /\ released' = released /\ scan_batch_idx' = scan_batch_idx /\ failed' = failed
      /\ returned' = returned /\ scan_batch_idx # MAX
  BY DEF Frame, MAX
<1>2. scan.open /\ released = {}
  BY Zenon DEF ScanInv, Modes, Position
<1>3. b \in Seq(Entry) /\ Len(b) \in Nat
  BY DEF Lined
<1>4. CASE /\ kind # "lookup" \/ vct_key_order = << >>
           /\ Return(IF kind = "primary" THEN "END_OF_FILE" ELSE "KEY_NOT_FOUND")
           /\ scan_batch' = b
           /\ UNCHANGED << batch_order, sk_pk_scan_batch >>
  <2>1. rc' # "row" /\ pc' = "idle" /\ vct_key_order' = << >> /\ Len(vct_key_order') = 0
    BY <1>4, Zenon DEF Return, Reported
  <2>2. vct_key_order = << >>
    BY <1>4, Zenon DEF ScanInv, Modes
  <2>3. ScanTypes'
    BY <1>1, <1>3, <1>4, <2>1, SMTT(60) DEF ScanInv, ScanTypes
  <2>4. Modes' /\ Paired' /\ ~ Chunk'
    BY <1>1, <1>2, <1>3, <1>4, <2>1 DEF ScanInv, Modes, Paired, Chunk
  <2>5. \A j \in 1 .. Len(b) : j \notin Ahead'
    BY <1>1, <1>3, <1>4, <2>1 DEF Ahead
  <2>6. Ahead' \subseteq 1 .. Len(b)
    BY <1>4, ZenonT(40) DEF Ahead
  <2>7. Ordered'
    <3>1. /\ \A i, j \in 1 .. Len(returned) : j < i => Precedes(scan.backward, returned[j], returned[i])
          /\ \A i, j \in 1 .. Len(b) : j < i => Precedes(scan.backward, b[j].key, b[i].key)
          /\ \A k \in FullKey \ cursor' :
               /\ \A i \in 1 .. Len(returned) : Precedes(scan.backward, returned[i], k)
               /\ \A i \in 1 .. Len(b) : Precedes(scan.backward, b[i].key, k)
      BY Zenon DEF ScanInv, Ordered, Lined
    <3>2. \A j : j \notin Ahead'
      BY <2>5, <2>6, Zenon
    <3>. QED  BY <1>1, <1>4, <2>1, <3>1, <3>2, NoPosition, Zenon DEF Ordered
  <2>8. InScan'
    BY <1>1, <1>4, <2>1, <2>4, NoPosition, ZenonT(40) DEF ScanInv, InScan, Lined
  <2>9. Covered'
    <3>1. ASSUME ~ failed, NEW k \in scan.wanted \cap stable, k \in cursor'
          PROVE  \E i \in 1 .. Len(returned) : returned[i] = k
      BY <1>3, <2>2, <3>1 DEF Gathered
    <3>. QED  BY <1>1, <3>1, SMTT(60) DEF Covered, Lined, Held
  <2>10. Position'
    BY <1>1, <1>2, <2>1, Zenon DEF Position
  <2>. QED  BY <2>3, <2>4, <2>7, <2>8, <2>9, <2>10, Zenon DEF ScanInv
<1>5. CASE kind = "lookup" /\ vct_key_order # << >> /\ ReadChunk
  <2>. DEFINE n == Len(vct_key_order)
  <2>1. /\ scan_batch' \in Seq(Entry) /\ Len(scan_batch') = n
        /\ sk_pk_scan_batch' \in Seq(Entry) /\ Len(sk_pk_scan_batch') = n
        /\ batch_order' \in Seq(Nat) /\ Len(batch_order') = n
        /\ \A j \in 1 .. n :
             /\ scan_batch'[j].key = vct_key_order[j] /\ scan_batch'[j].normal
             /\ batch_order'[j] \in 1 .. n
             /\ sk_pk_scan_batch'[batch_order'[j]].key = scan_batch'[j].key
    BY <1>5, ChunkBuilt, Zenon DEF ScanInv
  <2>2. pc' = "read" /\ rc' = rc /\ vct_key_order' = vct_key_order
    BY <1>5, Zenon DEF ReadChunk
  <2>. HIDE DEF n
  <2>3. ScanTypes'
    BY <1>1, <2>1, <2>2, Zenon DEF ScanInv, ScanTypes
  <2>4. Modes' /\ Paired' /\ Chunk'
    BY <1>1, <1>2, <1>5, <2>1, <2>2, Zenon DEF ScanInv, Modes, Paired, Chunk
  <2>5. \A j : j \in Ahead' <=> j \in 1 .. n
    BY <2>1, <2>2, Zenon DEF Ahead
  <2>6. Ordered'
    <3>1. \A k \in FullKey \ cursor' : \A i \in 1 .. n : Precedes(scan.backward, vct_key_order[i], k)
      BY Zenon DEF Gathered, n
    <3>2. \A k \in FullKey \ cursor' : \A i \in 1 .. Len(returned) : Precedes(scan.backward, returned[i], k)
      BY Zenon DEF Lined
    <3>3. \A i, j \in 1 .. n : j < i => Precedes(scan.backward, vct_key_order[j], vct_key_order[i])
      BY Zenon DEF ScanInv, Ordered, n
    <3>4. \A i \in 1 .. Len(returned) : \A j \in 1 .. n : Precedes(scan.backward, returned[i], vct_key_order[j])
      BY Zenon DEF ScanInv, Ordered, n
    <3>5. \A i, j \in 1 .. Len(returned) : j < i => Precedes(scan.backward, returned[j], returned[i])
      BY Zenon DEF ScanInv, Ordered
    <3>6. /\ \A i, j \in 1 .. n : j < i => Precedes(scan.backward, scan_batch'[j].key, scan_batch'[i].key)
          /\ \A i \in 1 .. Len(returned) : \A j \in 1 .. n : Precedes(scan.backward, returned[i], scan_batch'[j].key)
          /\ \A k \in FullKey \ cursor' : \A i \in 1 .. n : Precedes(scan.backward, scan_batch'[i].key, k)
      BY <2>1, <3>1, <3>3, <3>4, ZenonT(40)
    <3>7. Len(vct_key_order') = n /\ Len(scan_batch') = n /\ returned' = returned /\ scan' = scan
      BY <1>1, <2>1, <2>2, Zenon DEF n
    <3>. QED  BY <2>2, <2>5, <3>1, <3>2, <3>3, <3>4, <3>5, <3>6, <3>7, Zenon DEF Ordered
  <2>7. InScan'
    BY <1>1, <1>5, <2>1, <2>2, Zenon DEF ScanInv, InScan, n
  <2>8. Covered'
    <3>1. ASSUME ~ failed, NEW k \in scan.wanted \cap stable, k \in cursor'
          PROVE  Held(k)'
      <4>1. ~ \E j \in 1 .. Len(b) : scan_batch_idx < j /\ b[j].normal /\ b[j].key = k
        BY <1>3
      <4>2. CASE \E i \in 1 .. Len(returned) : returned[i] = k
        BY <1>1, <4>2, Zenon DEF Held
      <4>3. CASE \E i \in 1 .. n : vct_key_order[i] = k
        <5>1. PICK j \in 1 .. n : vct_key_order[j] = k
          BY <4>3, Zenon
        <5>2. Waiting(j)'
          BY <2>1, <2>2, <2>5, <5>1, Zenon DEF Waiting
        <5>. QED  BY <2>1, <5>1, <5>2, Zenon DEF Held
      <4>. QED  BY <3>1, <4>1, <4>2, <4>3, Zenon DEF Gathered, n
    <3>. QED  BY <1>1, <3>1 DEF Covered, Lined
  <2>9. Position'
    BY <1>1, <1>2, <2>2, Zenon DEF Position
  <2>. QED  BY <2>3, <2>4, <2>6, <2>7, <2>8, <2>9, Zenon DEF ScanInv
<1>. QED  BY <1>4, <1>5, Zenon DEF EndOfEntries

\* The first record of a chunk that exists is returned, by the call that read
\* the chunk or by a later one.
LEMMA ChunkRowKeeps ==
  ASSUME ScanInv, RangeExact, Chunk, pc \in {"next", "read"}, NEW i \in 1 .. Len(scan_batch), i \in Ahead,
         ReturnRow(scan_batch[i].key), scan_batch_idx' = i,
         sk_pk_scan_batch' \in Seq(Entry), Len(sk_pk_scan_batch') = Len(sk_pk_scan_batch),
         \A j \in 1 .. Len(sk_pk_scan_batch) : sk_pk_scan_batch'[j].key = sk_pk_scan_batch[j].key,
         failed => failed',
         ~ failed' => \A j \in 1 .. Len(scan_batch) :
           Waiting(j) /\ scan_batch[j].key \in stable =>
             i <= j /\ sk_pk_scan_batch'[batch_order[j]].normal,
         Frame, UNCHANGED << scan_batch, is_last_scan_batch, batch_order, cursor >>
  PROVE  ScanInv'
<1>. DEFINE x == scan_batch[i].key
            n == Len(returned)
            r == returned'
            N == Len(scan_batch)
<1>1. /\ rows' = rows /\ tombs' = tombs /\ stable' = stable /\ kind' = kind /\ scan' = scan
      /\ released' = released /\ scan_batch' = scan_batch /\ batch_order' = batch_order
      /\ is_last_scan_batch' = is_last_scan_batch /\ cursor' = cursor
  BY Zenon DEF Frame
<1>2. pc' = "idle" /\ rc' = "row" /\ vct_key_order' = << >> /\ returned' = Append(returned, x)
  <2>1. Reported("row") = "row"
    BY Zenon DEF Reported, NoMore
  <2>. QED  BY <2>1, Zenon DEF ReturnRow, Return
<1>3. scan.open /\ released = {} /\ kind = "lookup" /\ Len(vct_key_order') = 0
  BY <1>2, Zenon DEF ScanInv, Modes, Position, Chunk
<1>4. scan_batch \in Seq(Entry) /\ N \in Nat /\ i \in Nat /\ i # MAX /\ x \in FullKey
  <2>1. scan_batch \in Seq(Entry)
    BY Zenon DEF ScanInv, ScanTypes
  <2>2. N \in Nat /\ scan_batch[i] \in Entry
    BY <2>1
  <2>3. x \in FullKey
    BY <2>2, Zenon DEF Entry
  <2>. QED  BY <2>1, <2>2, <2>3 DEF MAX
<1>5. /\ r \in Seq(FullKey) /\ n \in Nat /\ Len(r) = n + 1 /\ r[n + 1] = x
      /\ \A j \in 1 .. n : r[j] = returned[j]
  BY <1>2, <1>4, Appended, ZenonT(40) DEF ScanInv, ScanTypes
<1>6. Len(sk_pk_scan_batch) = N /\ Len(batch_order) = N /\ \A j \in 1 .. N : batch_order[j] \in 1 .. N
  BY Zenon DEF ScanInv, ScanTypes, Paired
<1>. HIDE DEF n, r
<1>7. \A j \in 1 .. Len(r) : (j \in 1 .. n /\ r[j] = returned[j]) \/ (j = n + 1 /\ r[j] = x)
  BY <1>5, SMTT(60)
<1>8. ScanTypes'
  BY <1>1, <1>2, <1>4, <1>5, SMTT(60) DEF ScanInv, ScanTypes, r
<1>9. Modes' /\ Chunk'
  BY <1>1, <1>2, <1>3, <1>4, SMTT(60) DEF ScanInv, Modes, Chunk
<1>10. Paired'
  BY <1>1, <1>6, SMTT(60) DEF ScanInv, Paired
<1>11. \A j : j \in Ahead' <=> j \in 1 .. N /\ i < j
  BY <1>1, <1>2, <1>4, Zenon DEF Ahead
<1>12. Ordered'
  <2>1. \A j, l \in 1 .. N : j < l => Precedes(scan.backward, scan_batch[j].key, scan_batch[l].key)
    BY Zenon DEF ScanInv, Ordered
  <2>2. \A j, l \in 1 .. Len(r) : l < j => Precedes(scan.backward, r[l], r[j])
    <3>. SUFFICES ASSUME NEW j \in 1 .. Len(r), NEW l \in 1 .. Len(r), l < j
                  PROVE  Precedes(scan.backward, r[l], r[j])
      BY ZenonT(40)
    <3>1. l \in 1 .. n /\ r[l] = returned[l]
      BY <1>5, <1>7
    <3>2. CASE j \in 1 .. n /\ r[j] = returned[j]
      BY <3>1, <3>2, Zenon DEF ScanInv, Ordered, n
    <3>3. CASE j = n + 1 /\ r[j] = x
      BY <3>1, <3>3, Zenon DEF ScanInv, Ordered, n
    <3>. QED  BY <1>7, <3>2, <3>3, Zenon
  <2>3. \A l \in 1 .. Len(r) : \A j \in 1 .. N : i < j => Precedes(scan.backward, r[l], scan_batch[j].key)
    <3>. SUFFICES ASSUME NEW l \in 1 .. Len(r), NEW j \in 1 .. N, i < j
                  PROVE  Precedes(scan.backward, r[l], scan_batch[j].key)
      BY ZenonT(40)
    <3>1. j \in Ahead
      BY <1>4, SMTT(60) DEF Ahead, ScanInv, ScanTypes
    <3>2. CASE l \in 1 .. n /\ r[l] = returned[l]
      BY <3>1, <3>2, Zenon DEF ScanInv, Ordered, n
    <3>3. CASE l = n + 1 /\ r[l] = x
      BY <2>1, <3>3, Zenon
    <3>. QED  BY <1>7, <3>2, <3>3, Zenon
  <2>4. \A k \in FullKey \ cursor :
          /\ \A l \in 1 .. Len(r) : Precedes(scan.backward, r[l], k)
          /\ \A l \in 1 .. N : Precedes(scan.backward, scan_batch[l].key, k)
    BY <1>7, ZenonT(40) DEF ScanInv, Ordered, n
  <2>. QED  BY <1>1, <1>3, <1>11, <2>1, <2>2, <2>3, <2>4, SMTT(60) DEF Ordered, r
<1>13. InScan'
  <2>1. x \in scan.cond /\ InRange(x, scan.range) /\ (scan.exact => x \in scan.wanted)
    BY <1>3, <1>4, Zenon DEF ScanInv, InScan, RangeExact
  <2>2. \A j \in 1 .. Len(r) :
          /\ InRange(r[j], scan.range) /\ r[j] \in scan.cond
          /\ scan.exact => r[j] \in scan.wanted
    BY <1>3, <1>7, <2>1, ZenonT(40) DEF ScanInv, InScan, n
  <2>. QED  BY <1>1, <1>3, <2>2 DEF ScanInv, InScan, r
<1>14. Covered'
  <2>1. ASSUME ~ failed', NEW k \in scan.wanted \cap stable, k \in cursor
        PROVE  Held(k)'
    <3>1. Held(k)
      BY <1>3, <2>1, Zenon DEF ScanInv, Covered
    <3>2. CASE \E j \in 1 .. n : returned[j] = k
      <4>1. \E j \in 1 .. Len(r) : r[j] = k
        BY <1>5, <3>2
      <4>. QED  BY <4>1, ZenonT(40) DEF Held, r
    <3>3. CASE \E j \in 1 .. N : Waiting(j) /\ scan_batch[j].key = k
      <4>1. PICK j \in 1 .. N : Waiting(j) /\ scan_batch[j].key = k
        BY <3>3, Zenon
      <4>2. i <= j /\ sk_pk_scan_batch'[batch_order[j]].normal
        BY <2>1, <4>1, Zenon
      <4>3. CASE j = i
        <5>1. n + 1 \in 1 .. Len(r) /\ r[n + 1] = k
          BY <1>5, <4>1, <4>3
        <5>. QED  BY <5>1, Zenon DEF Held, r
      <4>4. CASE j # i
        <5>1. j \in Ahead'
          BY <1>4, <1>11, <4>2, <4>4
        <5>2. Waiting(j)'
          BY <1>1, <4>1, <4>2, <5>1, Zenon DEF Waiting
        <5>. QED  BY <1>1, <4>1, <5>2, Zenon DEF Held
      <4>. QED  BY <4>3, <4>4, Zenon
    <3>4. CASE pc # "read" /\ \E j \in 1 .. Len(vct_key_order) : vct_key_order[j] = k
      BY <3>4 DEF ScanInv, Modes
    <3>. QED  BY <3>1, <3>2, <3>3, <3>4, Zenon DEF Held, n
  <2>. QED  BY <1>1, <2>1 DEF ScanInv, Covered
<1>15. Position'
  <2>1. /\ scan_batch_idx' \in 1 .. Len(scan_batch') /\ Len(r) > 0
        /\ scan_batch'[scan_batch_idx'].key = r[Len(r)]
    BY <1>1, <1>5
  <2>. QED  BY <1>1, <1>2, <1>3, <2>1, Zenon DEF Position, r
<1>. QED  BY <1>8, <1>9, <1>10, <1>12, <1>13, <1>14, <1>15, Zenon DEF ScanInv

\* A chunk of which no record is left ends the call.
LEMMA ChunkEndKeeps ==
  ASSUME ScanInv, pc \in {"next", "read"}, Return("KEY_NOT_FOUND"), scan_batch_idx' = Len(scan_batch),
         sk_pk_scan_batch' \in Seq(Entry), Len(sk_pk_scan_batch') = Len(sk_pk_scan_batch),
         failed => failed',
         ~ failed' => \A j \in 1 .. Len(scan_batch) : Waiting(j) => scan_batch[j].key \notin stable,
         Frame, UNCHANGED << scan_batch, is_last_scan_batch, batch_order, cursor, returned >>
  PROVE  ScanInv'
<1>1. /\ rows' = rows /\ tombs' = tombs /\ stable' = stable /\ kind' = kind /\ scan' = scan
      /\ released' = released /\ scan_batch' = scan_batch /\ batch_order' = batch_order
      /\ is_last_scan_batch' = is_last_scan_batch /\ cursor' = cursor /\ returned' = returned
  BY Zenon DEF Frame
<1>2. Reported("KEY_NOT_FOUND") # "row"
  BY Zenon DEF Reported
<1>3. pc' = "idle" /\ rc' # "row" /\ vct_key_order' = << >> /\ Len(vct_key_order') = 0
  BY <1>2, Zenon DEF Return
<1>4. scan.open /\ released = {} /\ kind = "lookup" /\ Len(scan_batch) \in Nat
  BY DEF ScanInv, Modes, Position, ScanTypes
<1>5. ScanTypes'
  BY <1>1, <1>3, <1>4, SMTT(60) DEF ScanInv, ScanTypes
<1>6. Modes' /\ Paired' /\ ~ Chunk'
  BY <1>1, <1>3, <1>4 DEF ScanInv, Modes, Paired, Chunk
<1>7. \A j : j \notin Ahead'
  BY <1>1, <1>3, <1>4, SMTT(60) DEF Ahead
<1>8. Ordered'
  <2>1. /\ \A i, j \in 1 .. Len(returned) : j < i => Precedes(scan.backward, returned[j], returned[i])
        /\ \A i, j \in 1 .. Len(scan_batch) : j < i => Precedes(scan.backward, scan_batch[j].key, scan_batch[i].key)
        /\ \A k \in FullKey \ cursor :
             /\ \A i \in 1 .. Len(returned) : Precedes(scan.backward, returned[i], k)
             /\ \A i \in 1 .. Len(scan_batch) : Precedes(scan.backward, scan_batch[i].key, k)
    BY Zenon DEF ScanInv, Ordered
  <2>. QED  BY <1>1, <1>3, <1>7, <2>1, NoPosition, Zenon DEF Ordered
<1>9. InScan'
  BY <1>1, <1>3, <1>6, NoPosition, ZenonT(40) DEF ScanInv, InScan
<1>10. Covered'
  <2>1. ASSUME ~ failed', NEW k \in scan.wanted \cap stable, k \in cursor
        PROVE  \E i \in 1 .. Len(returned) : returned[i] = k
    <3>1. Held(k)
      BY <1>4, <2>1, Zenon DEF ScanInv, Covered
    <3>2. pc # "read" => Len(vct_key_order) = 0
      BY DEF ScanInv, Modes
    <3>. QED  BY <2>1, <3>1, <3>2 DEF Held
  <2>. QED  BY <1>1, <2>1, SMTT(60) DEF ScanInv, Covered, Held
<1>11. Position'
  BY <1>1, <1>3, <1>4, Zenon DEF Position
<1>. QED  BY <1>5, <1>6, <1>8, <1>9, <1>10, <1>11, Zenon DEF ScanInv

-----------------------------------------------------------------------------
(* One lemma for each step.                                                *)

\* What other transactions and the client do.
LEMMA OthersKeep ==
  ASSUME ScanInv, Kill \/ \E k \in FullKey : DeleteRow(k) \/ InsertRow(k)
  PROVE  ScanInv'
<1>1. /\ UNCHANGED << kind, scan, cursor, pc, rc, failed, returned, released >>
      /\ UNCHANGED << scan_batch, scan_batch_idx, is_last_scan_batch >>
      /\ UNCHANGED << vct_key_order, batch_order, sk_pk_scan_batch >>
  BY Zenon DEF Kill, DeleteRow, InsertRow, scanVars, batchVars, chunkVars
<1>2. /\ rows' \subseteq FullKey /\ tombs' \subseteq FullKey \ rows' /\ stable' \subseteq rows'
      /\ stable' \subseteq stable /\ rows' \cup tombs' = rows \cup tombs
  BY Zenon DEF ScanInv, ScanTypes, Kill, DeleteRow, InsertRow, dataVars
<1>3. ScanTypes'
  BY <1>1, <1>2, Zenon DEF ScanInv, ScanTypes
<1>4. Modes' /\ Paired' /\ (Chunk' <=> Chunk)
  BY <1>1, Zenon DEF ScanInv, Modes, Paired, Chunk
<1>5. Ahead' = Ahead
  BY <1>1, Zenon DEF Ahead
<1>6. Ordered'
  BY <1>1, <1>5, Zenon DEF ScanInv, Ordered
<1>7. InScan'
  BY <1>1, <1>4, Zenon DEF ScanInv, InScan
<1>8. Covered'
  <2>1. \A k : Held(k)' <=> Held(k)
    BY <1>1, <1>4, <1>5, Zenon DEF Held, Waiting
  <2>. QED  BY <1>1, <1>2, <2>1, Zenon DEF ScanInv, Covered
<1>9. Position'
  BY <1>1, Zenon DEF ScanInv, Position
<1>. QED  BY <1>3, <1>4, <1>6, <1>7, <1>8, <1>9, Zenon DEF ScanInv

\* PkIndexScanOpen() and SkIndexScanOpen() start from nothing.
LEMMA OpenKeeps ==
  ASSUME ScanInv, NEW o \in Calls, OpenScan(o)
  PROVE  ScanInv'
<1>1. /\ scan'.open /\ scan'.wanted \subseteq scan'.cond
      /\ scan_batch' = << >> /\ scan_batch_idx' = MAX /\ sk_pk_scan_batch' = << >>
      /\ batch_order' = << >> /\ vct_key_order' = << >> /\ returned' = << >>
      /\ cursor' = {} /\ released' = {} /\ stable' = rows /\ rows' = rows /\ tombs' = tombs
      /\ kind' = kind /\ ~ is_last_scan_batch'
  BY Zenon DEF OpenScan, ClearBatches
<1>2. pc' \in {"next", "loop"} /\ (pc' = "next" => kind = "lookup")
  BY Zenon DEF OpenScan
<1>3. /\ Len(scan_batch') = 0 /\ Len(vct_key_order') = 0 /\ Len(returned') = 0
      /\ Len(sk_pk_scan_batch') = 0 /\ Len(batch_order') = 0
      /\ scan_batch' \in Seq(Entry) /\ sk_pk_scan_batch' \in Seq(Entry) /\ batch_order' \in Seq(Nat)
      /\ vct_key_order' \in Seq(FullKey) /\ returned' \in Seq(FullKey)
  BY <1>1
<1>4. ScanTypes'
  BY <1>1, <1>2, <1>3, Zenon DEF ScanInv, ScanTypes
<1>5. Modes' /\ Paired' /\ ~ Chunk'
  BY <1>1, <1>2, Zenon DEF Modes, Paired, Chunk
<1>6. \A j : j \notin Ahead'
  BY <1>3, SMTT(60) DEF Ahead
<1>7. Ordered'
  BY <1>3, <1>6, SMTT(60) DEF Ordered
<1>8. InScan'
  BY <1>1, <1>3, <1>5 DEF InScan
<1>9. Covered'
  BY <1>1, Zenon DEF Covered
<1>10. Position'
  BY <1>1, <1>2, Zenon DEF Position
<1>. QED  BY <1>4, <1>5, <1>7, <1>8, <1>9, <1>10, Zenon DEF ScanInv

\* index_next() goes on where the last call has stopped, and unlock_row() gives
\* back what that call returned.
LEMMA NextKeeps ==
  ASSUME ScanInv, index_next \/ unlock_row
  PROVE  ScanInv'
<1>1. /\ UNCHANGED << rows, tombs, stable, kind, scan, cursor, rc, failed, returned >>
      /\ UNCHANGED << scan_batch, scan_batch_idx, is_last_scan_batch >>
      /\ UNCHANGED << vct_key_order, batch_order, sk_pk_scan_batch >>
      /\ pc = "idle" /\ rc = "row" /\ scan.open
  BY Zenon DEF index_next, unlock_row, dataVars, batchVars, chunkVars
<1>2. /\ pc' \in {"idle", "next", "loop"} /\ (pc' = "next" => kind = "lookup")
      /\ kind = "lookup" => pc' \in {"idle", "next"}
  BY <1>1, Zenon DEF index_next, unlock_row
<1>3. /\ scan_batch_idx \in 1 .. Len(scan_batch)
      /\ scan_batch[scan_batch_idx].key = returned[Len(returned)]
      /\ Len(scan_batch) \in Nat /\ scan_batch_idx # MAX
  BY <1>1 DEF ScanInv, Position, ScanTypes, MAX
<1>4. \A k \in released' : pc' = "idle" /\ k = returned[Len(returned)]
  BY <1>1, <1>3, Zenon DEF index_next, unlock_row
<1>5. ScanTypes'
  BY <1>1, <1>2, Zenon DEF ScanInv, ScanTypes
<1>6. Chunk' <=> Chunk
  BY <1>1, <1>2, Zenon DEF Chunk
<1>7. Modes'
  BY <1>1, <1>2, <1>3, Zenon DEF ScanInv, Modes
<1>8. Paired'
  BY <1>1, <1>6, Zenon DEF ScanInv, Paired
<1>9. Ahead' = Ahead
  BY <1>1, <1>2, Zenon DEF Ahead
<1>10. Ordered'
  BY <1>1, <1>2, <1>9, Zenon DEF ScanInv, Ordered
<1>11. InScan'
  BY <1>1, <1>6, Zenon DEF ScanInv, InScan
<1>12. Covered'
  <2>1. \A k : Held(k)' <=> Held(k)
    BY <1>1, <1>2, <1>6, <1>9, Zenon DEF Held, Waiting
  <2>. QED  BY <1>1, <2>1, Zenon DEF ScanInv, Covered
<1>13. Position'
  BY <1>1, <1>4, Zenon DEF ScanInv, Position
<1>. QED  BY <1>5, <1>7, <1>8, <1>10, <1>11, <1>12, <1>13, Zenon DEF ScanInv

\* IndexScanClose() gives back what comes after the rows that were returned.
LEMMA CloseKeeps ==
  ASSUME ScanInv, ScanRecord, index_end
  PROVE  ScanInv'
<1>1. /\ UNCHANGED << rows, tombs, stable, kind, cursor, failed, returned, pc >>
      /\ pc = "idle" /\ scan.open /\ released' = ToRelease
      /\ scan' = [scan EXCEPT !.open = FALSE]
      /\ scan_batch' = << >> /\ scan_batch_idx' = MAX /\ sk_pk_scan_batch' = << >>
      /\ batch_order' = << >> /\ vct_key_order' = << >>
  BY Zenon DEF index_end, ClearBatches, dataVars
<1>2. /\ ~ scan'.open /\ scan'.range = scan.range /\ scan'.backward = scan.backward
      /\ scan'.cond = scan.cond /\ scan'.wanted = scan.wanted /\ scan'.exact = scan.exact
  <2>1. scan' = [open |-> FALSE, range |-> scan.range, backward |-> scan.backward,
                 cond |-> scan.cond, wanted |-> scan.wanted, exact |-> scan.exact]
    BY <1>1, Zenon DEF ScanRecord
  <2>. QED  BY <2>1, Zenon
<1>3. /\ Len(scan_batch') = 0 /\ Len(vct_key_order') = 0
      /\ Len(sk_pk_scan_batch') = 0 /\ Len(batch_order') = 0
      /\ scan_batch' \in Seq(Entry) /\ sk_pk_scan_batch' \in Seq(Entry) /\ batch_order' \in Seq(Nat)
      /\ vct_key_order' \in Seq(FullKey)
  BY <1>1
<1>4. ScanTypes'
  BY <1>1, <1>3, Zenon DEF ScanInv, ScanTypes
<1>5. Modes' /\ Paired' /\ ~ Chunk'
  BY <1>1, <1>2, Zenon DEF Modes, Paired, Chunk
<1>6. \A j : j \notin Ahead'
  BY <1>3 DEF Ahead
<1>7. Ordered'
  BY <1>1, <1>2, <1>3, <1>6 DEF ScanInv, Ordered
<1>8. InScan'
  BY <1>1, <1>2, <1>3, <1>5 DEF ScanInv, InScan
<1>9. Covered'
  BY <1>2, Zenon DEF Covered
<1>10. ASSUME ~ failed, NEW i \in 1 .. Len(returned), returned[i] \in ToRelease
       PROVE  FALSE
  <2>1. scan_batch_idx # MAX /\ scan_batch_idx \in Nat /\ Len(scan_batch) \in Nat
    BY <1>10 DEF ToRelease, ScanInv, ScanTypes
  <2>2. returned[i] \in FullKey
    BY DEF ScanInv, ScanTypes
  <2>3. \A j \in (scan_batch_idx + 1) .. Len(scan_batch) : j \in 1 .. Len(scan_batch) /\ j \in Ahead
    BY <2>1 DEF Ahead
  <2>4. \A j \in (scan_batch_idx + 1) .. Len(scan_batch) : scan_batch[j].key # returned[i]
    BY <2>2, <2>3, NotBeforeItself, Zenon DEF ScanInv, Ordered
  <2>5. returned[i] \in PendingRecords(scan_batch_idx)
    BY <1>10, <2>1, <2>4, Zenon DEF ToRelease, Pending
  <2>6. PICK j \in ((scan_batch_idx + 1) .. Len(scan_batch)) \cap (1 .. Len(batch_order)) :
          sk_pk_scan_batch[batch_order[j]].key = returned[i]
    BY <2>5, Zenon DEF PendingRecords
  <2>7. kind = "lookup"
    <3>1. kind # "lookup" => Len(batch_order) = 0
      BY DEF ScanInv, Modes
    <3>. QED  BY <2>6, <3>1
  <2>8. rc = "row"
    BY <1>1, <1>10, <2>1, <2>6 DEF ScanInv, Modes
  <2>9. sk_pk_scan_batch[batch_order[j]].key = scan_batch[j].key
    BY <1>1, <2>1, <2>3, <2>6, <2>7, <2>8, Zenon DEF ScanInv, Paired, Chunk
  <2>. QED  BY <2>4, <2>6, <2>9, Zenon
<1>11. Position'
  BY <1>1, <1>2, <1>10, Zenon DEF Position
<1>. QED  BY <1>4, <1>5, <1>7, <1>8, <1>9, <1>11, Zenon DEF ScanInv

\* A record of the chunk in hand is returned.
LEMMA ReservedKeeps ==
  ASSUME ScanInv, RangeExact, ReturnReserved
  PROVE  ScanInv'
<1>1. PICK i \in NormalAfter(scan_batch_idx) : First(i, NormalAfter(scan_batch_idx)) /\ scan_batch_idx' = i
  BY Zenon DEF ReturnReserved
<1>2. /\ pc = "next" /\ scan_batch_idx # MAX /\ scan_batch_idx \in Nat /\ Chunk
      /\ Len(scan_batch) \in Nat
  BY DEF ReturnReserved, ScanInv, ScanTypes, Modes, Chunk
<1>3. /\ i \in 1 .. Len(scan_batch) /\ scan_batch_idx < i
      /\ \A j \in 1 .. Len(scan_batch) :
           scan_batch_idx < j /\ sk_pk_scan_batch[batch_order[j]].normal => i <= j
  BY <1>1, <1>2 DEF NormalAfter, First
<1>4. i \in Ahead
  BY <1>2, <1>3, Zenon DEF Ahead
<1>5. /\ Frame
      /\ UNCHANGED << scan_batch, is_last_scan_batch, batch_order, cursor, sk_pk_scan_batch, failed >>
  BY Zenon DEF ReturnReserved, dataVars, Frame
<1>6. sk_pk_scan_batch[batch_order[i]].key = scan_batch[i].key
  BY <1>2, <1>3, Zenon DEF ScanInv, Paired
<1>7. ReturnRow(scan_batch[i].key)
  BY <1>1, <1>6, Zenon DEF ReturnReserved
<1>8. \A j \in 1 .. Len(scan_batch) :
        Waiting(j) => i <= j /\ sk_pk_scan_batch'[batch_order[j]].normal
  BY <1>2, <1>3, <1>5, Zenon DEF Waiting, Ahead
<1>9. sk_pk_scan_batch \in Seq(Entry)
  BY Zenon DEF ScanInv, ScanTypes
<1>. QED  BY <1>1, <1>2, <1>3, <1>4, <1>5, <1>7, <1>8, <1>9, ChunkRowKeeps, Zenon

\* No record of the chunk in hand is left.
LEMMA NoneReservedKeeps ==
  ASSUME ScanInv, NoneReserved
  PROVE  ScanInv'
<1>1. /\ Frame /\ pc = "next" /\ kind = "lookup"
      /\ UNCHANGED << scan_batch, is_last_scan_batch, batch_order, cursor, sk_pk_scan_batch, failed,
                      returned >>
  BY Zenon DEF NoneReserved, dataVars, scanVars, Frame, ScanInv, Modes
<1>2. \A j \in 1 .. Len(scan_batch) : ~ Waiting(j)
  <2>. SUFFICES ASSUME NEW j \in 1 .. Len(scan_batch), Waiting(j) PROVE FALSE
    BY Zenon
  <2>1. scan_batch_idx # MAX /\ scan_batch_idx \in Nat /\ scan_batch_idx < j
    BY <1>1, Zenon DEF Waiting, Ahead, ScanInv, ScanTypes
  <2>2. Chunk
    BY <1>1, <2>1, Zenon DEF Chunk, ScanInv, Modes
  <2>3. j \in NormalAfter(scan_batch_idx)
    BY <1>1, <2>1, <2>2 DEF Waiting, NormalAfter, ScanInv, ScanTypes
  <2>. QED  BY <2>1, <2>3, Zenon DEF NoneReserved
<1>3. CASE is_last_scan_batch
  <2>1. Return("KEY_NOT_FOUND") /\ scan_batch_idx' = Len(scan_batch)
    BY <1>3, Zenon DEF NoneReserved
  <2>2. sk_pk_scan_batch \in Seq(Entry)
    BY Zenon DEF ScanInv, ScanTypes
  <2>. QED  BY <1>1, <1>2, <2>1, <2>2, ChunkEndKeeps, Zenon
<1>4. CASE ~ is_last_scan_batch
  <2>1. scan_batch_idx' = MAX /\ pc' = "loop" /\ rc' = rc /\ vct_key_order' = vct_key_order
    BY <1>4, Zenon DEF NoneReserved
  <2>2. /\ rows' = rows /\ tombs' = tombs /\ stable' = stable /\ kind' = kind /\ scan' = scan
        /\ released' = released
    BY <1>1, Zenon DEF Frame
  <2>3. vct_key_order = << >> /\ Len(vct_key_order) = 0 /\ scan.open /\ released = {}
    BY <1>1, Zenon DEF ScanInv, Modes, Position
  <2>4. ScanTypes'
    BY <1>1, <2>1, <2>2, Zenon DEF ScanInv, ScanTypes
  <2>5. Modes' /\ Paired' /\ ~ Chunk'
    BY <1>1, <2>1, <2>2, <2>3, Zenon DEF ScanInv, Modes, Paired, Chunk
  <2>6. \A j : j \notin Ahead'
    BY <2>1, Zenon DEF Ahead
  <2>7. Ordered'
    BY <1>1, <2>1, <2>2, <2>6, Zenon DEF ScanInv, Ordered
  <2>8. InScan'
    BY <1>1, <2>1, <2>2, <2>5, Zenon DEF ScanInv, InScan
  <2>9. Covered'
    <3>1. \A k : Held(k) => Held(k)'
      BY <1>1, <1>2, <2>1, Zenon DEF Held
    <3>. QED  BY <1>1, <2>2, <3>1, Zenon DEF ScanInv, Covered
  <2>10. Position'
    BY <2>1, <2>2, <2>3, Zenon DEF Position
  <2>. QED  BY <2>4, <2>5, <2>7, <2>8, <2>9, <2>10, Zenon DEF ScanInv
<1>. QED  BY <1>3, <1>4, Zenon

\* The loop looks at the next tuple of the batch in hand.
LEMMA TakeKeeps ==
  ASSUME ScanInv, RangeExact, TakeTuple
  PROVE  ScanInv'
<1>. DEFINE i == scan_batch_idx + 1
<1>1. /\ pc = "loop" /\ scan_batch_idx # MAX /\ scan_batch_idx < Len(scan_batch)
      /\ scan_batch_idx \in Nat /\ Len(scan_batch) \in Nat
  BY DEF TakeTuple, HasTuple, ScanInv, ScanTypes
<1>2. i \in 1 .. Len(scan_batch) /\ i - 1 = scan_batch_idx /\ i - 1 \in Int
  BY <1>1
<1>3. \A j \in 1 .. Len(scan_batch) : i - 1 < j <=> j \in Ahead
  BY <1>1, <1>2, Zenon DEF Ahead
<1>4. /\ Frame /\ Consume(scan_batch, i)
      /\ UNCHANGED << batch_order, sk_pk_scan_batch, failed, scan_batch, cursor, is_last_scan_batch >>
  BY Zenon DEF TakeTuple, Frame, dataVars
<1>. HIDE DEF i
<1>5. Lined(scan_batch, i - 1, cursor, is_last_scan_batch)
  BY <1>1, <1>2, <1>3, BatchInHand, Zenon
<1>6. Gathered(scan_batch, i - 1, cursor)
  BY <1>1, <1>2, <1>3, LoopInHand, Zenon
<1>. QED  BY <1>1, <1>2, <1>4, <1>5, <1>6, ConsumeKeeps, Zenon

\* The batch in hand is used up and no other is needed.
LEMMA ExhaustedKeeps ==
  ASSUME ScanInv, Exhausted
  PROVE  ScanInv'
<1>1. /\ pc = "loop" /\ scan_batch_idx \in Nat /\ Len(scan_batch) <= scan_batch_idx
      /\ Len(scan_batch) \in Nat /\ scan_batch_idx # MAX
  BY DEF Exhausted, HasTuple, NeedsBatch, ScanInv, ScanTypes, MAX
<1>2. ~ failed => scan_batch_idx = Len(scan_batch)
  BY <1>1 DEF ScanInv, Modes
<1>3. \A j \in 1 .. Len(scan_batch) : scan_batch_idx < j <=> j \in Ahead
  BY <1>1, Zenon DEF Ahead
<1>4. /\ Frame /\ EndOfEntries(scan_batch)
      /\ UNCHANGED << scan_batch_idx, failed, returned, cursor, is_last_scan_batch >>
  BY Zenon DEF Exhausted, Frame, dataVars, scanVars
<1>5. Lined(scan_batch, scan_batch_idx, cursor, is_last_scan_batch)
  BY <1>1, <1>3, BatchInHand
<1>6. Gathered(scan_batch, scan_batch_idx, cursor)
  BY <1>1, <1>3, LoopInHand
<1>. QED  BY <1>1, <1>2, <1>4, <1>5, <1>6, EndKeeps, Zenon

\* Another batch is asked for when nothing of the last one is left.
LEMMA FetchKeeps ==
  ASSUME ScanInv, FetchBatch
  PROVE  ScanInv'
<1>1. /\ UNCHANGED << rows, tombs, stable, kind, scan, released, cursor, rc, failed, returned >>
      /\ UNCHANGED << is_last_scan_batch, vct_key_order, batch_order, sk_pk_scan_batch >>
      /\ pc = "loop" /\ pc' = "fetch" /\ scan_batch_idx' = 0 /\ scan_batch' = << >>
      /\ scan.open /\ released = {} /\ ~ HasTuple
  BY Zenon DEF FetchBatch, dataVars, chunkVars, scanVars, ScanInv, Modes, Position
<1>2. Len(scan_batch') = 0 /\ scan_batch' \in Seq(Entry)
  BY <1>1
<1>3. ScanTypes'
  BY <1>1, <1>2, Zenon DEF ScanInv, ScanTypes
<1>4. Modes' /\ Paired' /\ ~ Chunk'
  BY <1>1, <1>2 DEF ScanInv, Modes, Paired, Chunk
<1>5. \A j : j \notin Ahead'
  BY <1>2, NoPosition, Zenon DEF Ahead
<1>6. Ordered'
  BY <1>1, <1>2, <1>5, NoPosition, Zenon DEF ScanInv, Ordered
<1>7. InScan'
  BY <1>1, <1>2, <1>4, NoPosition, Zenon DEF ScanInv, InScan
<1>8. Covered'
  <2>1. \A j \in 1 .. Len(scan_batch) : ~ Waiting(j)
    BY <1>1 DEF Waiting, Ahead, HasTuple, ScanInv, ScanTypes
  <2>2. \A k : Held(k) => Held(k)'
    BY <1>1, <2>1, Zenon DEF Held
  <2>. QED  BY <1>1, <2>2, ZenonT(40) DEF ScanInv, Covered
<1>9. Position'
  BY <1>1, Zenon DEF Position
<1>. QED  BY <1>3, <1>4, <1>6, <1>7, <1>8, <1>9, Zenon DEF ScanInv

\* A batch arrives and its first tuple is looked at.
LEMMA ArrivalKeeps ==
  ASSUME ScanInv, RangeExact, BatchArrives
  PROVE  ScanInv'
<1>0. PICK n \in 1 .. BatchSize, last \in BOOLEAN : \E s \in [1 .. n -> Undelivered] :
        /\ Answer(s, last)
        /\ scan_batch' = Batch(s)
        /\ \/ Aborted(s) /\ Fail("ABORTED_BY_USER") /\ scan_batch_idx' = 1
           \/ ~ Aborted(s) /\ Consume(Batch(s), 1) /\ UNCHANGED failed
  BY Zenon DEF BatchArrives
<1>1. PICK s \in [1 .. n -> Undelivered] :
        /\ Answer(s, last)
        /\ scan_batch' = Batch(s)
        /\ \/ Aborted(s) /\ Fail("ABORTED_BY_USER") /\ scan_batch_idx' = 1
           \/ ~ Aborted(s) /\ Consume(Batch(s), 1) /\ UNCHANGED failed
  BY <1>0, Zenon
<1>. DEFINE b == Batch(s)
<1>2. /\ pc = "fetch" /\ Frame /\ UNCHANGED << batch_order, sk_pk_scan_batch >>
  BY Zenon DEF BatchArrives, Frame, dataVars
<1>3. n \in Nat /\ n >= 1
  BY ScanAssumption
<1>4. Lined(b, 0, cursor', is_last_scan_batch') /\ Gathered(b, 0, cursor')
  BY <1>1, <1>2, <1>3, Delivered, Zenon
<1>5. Len(b) = n
  BY <1>3, BatchBuilt, Zenon DEF ScanInv
<1>. HIDE DEF b
<1>6. CASE Fail("ABORTED_BY_USER") /\ scan_batch_idx' = 1
  <2>1. scan_batch' = b /\ scan_batch_idx' \in {MAX} \cup Nat /\ 0 <= scan_batch_idx'
    BY <1>1, <1>6 DEF b
  <2>. QED  BY <1>2, <1>4, <1>6, <2>1, FailKeeps
<1>7. CASE Consume(b, 1) /\ UNCHANGED failed
  <2>1. 1 \in 1 .. Len(b) /\ 1 - 1 = 0
    BY <1>3, <1>5
  <2>2. Lined(b, 1 - 1, cursor', is_last_scan_batch') /\ Gathered(b, 1 - 1, cursor')
    BY <1>4, <2>1, Zenon
  <2>3. scan_batch' = b
    BY <1>1, Zenon DEF b
  <2>. QED  BY <1>2, <1>7, <2>1, <2>2, <2>3, ConsumeKeeps, Zenon
<1>. QED  BY <1>1, <1>6, <1>7, Zenon DEF b

\* The service has no entry left.
LEMMA NoArrivalKeeps ==
  ASSUME ScanInv, RangeExact, EmptyBatchArrives
  PROVE  ScanInv'
<1>1. /\ pc = "fetch" /\ Frame /\ Answer(<< >>, TRUE) /\ EndOfEntries(<< >>)
      /\ UNCHANGED << scan_batch_idx, failed, returned >>
  BY Zenon DEF EmptyBatchArrives, Frame, dataVars, scanVars
<1>2. scan_batch_idx = 0
  BY <1>1, Zenon DEF ScanInv, Modes
<1>3. << >> \in [1 .. 0 -> Undelivered] /\ Len(<< >>) = 0 /\ 0 \in Nat
  OBVIOUS
<1>4. Batch(<< >>) = << >>
  BY DEF Batch
<1>5. Lined(<< >>, 0, cursor', is_last_scan_batch') /\ Gathered(<< >>, 0, cursor')
  BY <1>1, <1>3, <1>4, Delivered, Zenon
<1>. QED  BY <1>1, <1>2, <1>3, <1>5, EndKeeps

\* The records of a chunk are read: those that exist throughout are found,
\* unless one could not be read.
LEMMA ReadKeeps ==
  ASSUME ScanInv, RangeExact, BatchRead
  PROVE  ScanInv'
<1>. DEFINE N == Len(scan_batch)
            K == sk_pk_scan_batch
<1>0. /\ pc = "read" /\ Frame
      /\ UNCHANGED << scan_batch, is_last_scan_batch, batch_order, cursor >>
  BY Zenon DEF BatchRead, Frame, dataVars
<1>1. PICK unread \in {{}} \cup {{t.key} : t \in Range(K)} :
       LET recs == [i \in DOMAIN K |-> Tuple(K[i].key, K[i].key \in rows \ unread)]
           found == {j \in 1 .. N : recs[batch_order[j]].normal}
       IN  /\ sk_pk_scan_batch' = recs
           /\ failed' = (failed \/ unread # {})
           /\ \/ /\ found = {}
                 /\ scan_batch_idx' = N
                 /\ Return("KEY_NOT_FOUND")
                 /\ UNCHANGED returned
              \/ \E i \in found :
                 /\ First(i, found)
                 /\ scan_batch_idx' = i
                 /\ ReturnRow(recs[batch_order[i]].key)
  BY Zenon DEF BatchRead
<1>. DEFINE R == sk_pk_scan_batch'
            found == {j \in 1 .. N : R[batch_order[j]].normal}
<1>2. /\ R = [i \in DOMAIN K |-> Tuple(K[i].key, K[i].key \in rows \ unread)]
      /\ failed' = (failed \/ unread # {})
      /\ \/ /\ found = {}
            /\ scan_batch_idx' = N
            /\ Return("KEY_NOT_FOUND")
            /\ UNCHANGED returned
         \/ \E i \in found : /\ First(i, found)
                             /\ scan_batch_idx' = i
                             /\ ReturnRow(R[batch_order[i]].key)
  BY <1>1, Zenon
<1>3. /\ K \in Seq(Entry) /\ Len(K) = N /\ N \in Nat /\ DOMAIN K = 1 .. N /\ Chunk
      /\ \A j \in 1 .. N : K[j].key \in FullKey
      /\ \A j \in 1 .. N : batch_order[j] \in 1 .. N /\ K[batch_order[j]].key = scan_batch[j].key
  <2>1. K \in Seq(Entry) /\ scan_batch \in Seq(Entry) /\ Chunk
    BY <1>0, Zenon DEF ScanInv, ScanTypes, Modes, Chunk
  <2>2. /\ Len(K) = N
        /\ \A j \in 1 .. N : batch_order[j] \in 1 .. N /\ K[batch_order[j]].key = scan_batch[j].key
    BY <2>1, Zenon DEF ScanInv, ScanTypes, Paired
  <2>3. \A j \in 1 .. N : K[j] \in Entry
    BY <2>1, <2>2
  <2>. QED  BY <2>1, <2>2, <2>3 DEF Entry
<1>. HIDE DEF R, N, K
<1>4. \A i \in 1 .. N : R[i] = [key |-> K[i].key, normal |-> K[i].key \in rows \ unread]
  BY <1>2, <1>3, Zenon DEF Tuple
<1>5. ASSUME NEW i \in 1 .. N PROVE R[i].key = K[i].key
  <2>1. R[i] = [key |-> K[i].key, normal |-> K[i].key \in rows \ unread]
    BY <1>4, Zenon
  <2>. QED  BY <2>1
<1>6. ASSUME NEW i \in 1 .. N, K[i].key \in rows, unread = {} PROVE R[i].normal
  <2>1. R[i] = [key |-> K[i].key, normal |-> TRUE]
    BY <1>4, <1>6, Zenon
  <2>. QED  BY <2>1
<1>7. R \in Seq(Entry) /\ Len(R) = N
  <2>1. \A i \in 1 .. N : [key |-> K[i].key, normal |-> K[i].key \in rows \ unread] \in Entry
    BY <1>3 DEF Entry
  <2>2. R = [i \in 1 .. N |-> [key |-> K[i].key, normal |-> K[i].key \in rows \ unread]]
    BY <1>2, <1>3, Zenon DEF Tuple
  <2>3. R \in [1 .. N -> Entry]
    BY <2>1, <2>2, Zenon
  <2>. QED  BY <1>3, <2>3, EntriesMake, Zenon
<1>8. failed => failed'
  BY <1>2, Zenon
<1>9. ~ failed' => \A j \in 1 .. N : scan_batch[j].key \in stable => j \in found
  <2>. SUFFICES ASSUME ~ failed', NEW j \in 1 .. N, scan_batch[j].key \in stable
                PROVE  R[batch_order[j]].normal
    BY Zenon
  <2>1. unread = {}
    BY <1>2, Zenon
  <2>2. batch_order[j] \in 1 .. N /\ K[batch_order[j]].key \in rows
    BY <1>3, Zenon DEF ScanInv, ScanTypes
  <2>. QED  BY <1>6, <2>1, <2>2, Zenon
<1>10. CASE found = {} /\ scan_batch_idx' = N /\ Return("KEY_NOT_FOUND") /\ UNCHANGED returned
  <2>1. ~ failed' => \A j \in 1 .. N : Waiting(j) => scan_batch[j].key \notin stable
    BY <1>9, <1>10, Zenon
  <2>. QED  BY <1>0, <1>3, <1>7, <1>8, <1>10, <2>1, ChunkEndKeeps, Zenon DEF N, K, R
<1>11. ASSUME NEW i \in found, First(i, found), scan_batch_idx' = i, ReturnRow(R[batch_order[i]].key)
       PROVE  ScanInv'
  <2>1. i \in 1 .. N /\ i \in Ahead
    BY <1>0, <1>11, Zenon DEF Ahead, N
  <2>2. R[batch_order[i]].key = scan_batch[i].key
    BY <1>3, <1>5, <2>1, Zenon
  <2>3. ~ failed' => \A j \in 1 .. N :
          Waiting(j) /\ scan_batch[j].key \in stable => i <= j /\ R[batch_order[j]].normal
    BY <1>9, <1>11, Zenon DEF First
  <2>4. ReturnRow(scan_batch[i].key)
    BY <1>11, <2>2, Zenon
  <2>5. \A j \in 1 .. Len(K) : R[j].key = K[j].key
    BY <1>3, <1>5, Zenon
  <2>. QED  BY <1>0, <1>3, <1>7, <1>8, <1>11, <2>1, <2>3, <2>4, <2>5, ChunkRowKeeps, Zenon DEF N, K, R
<1>. QED  BY <1>2, <1>10, <1>11, Zenon

\* A kill is noticed, or a request to the service fails.
LEMMA FailureKeeps ==
  ASSUME ScanInv, Interrupted \/ RequestFails
  PROVE  ScanInv'
<1>1. /\ pc \in {"loop", "fetch", "read"} /\ Frame
      /\ UNCHANGED << scan_batch, scan_batch_idx, is_last_scan_batch, batch_order,
                      sk_pk_scan_batch, cursor >>
  BY Zenon DEF Interrupted, RequestFails, Frame, dataVars, batchVars
<1>2. PICK code \in {"QUERY_INTERRUPTED", "LOCK_WAIT_TIMEOUT", "TX_ERROR"} : Fail(code)
  BY Zenon DEF Interrupted, RequestFails
<1>3. scan_batch_idx \in {MAX} \cup Nat /\ Len(scan_batch) \in Nat
  BY DEF ScanInv, ScanTypes
<1>. DEFINE m == IF scan_batch_idx = MAX THEN Len(scan_batch) ELSE scan_batch_idx
<1>4. m \in Int /\ (scan_batch_idx # MAX => m <= scan_batch_idx)
  BY <1>3
<1>5. \A j \in 1 .. Len(scan_batch) : m < j => j \in Ahead
  BY <1>3 DEF Ahead
<1>. HIDE DEF m
<1>6. Lined(scan_batch, m, cursor, is_last_scan_batch)
  BY <1>1, <1>4, <1>5, BatchInHand, Zenon
<1>. QED  BY <1>1, <1>2, <1>3, <1>4, <1>6, FailKeeps, Zenon

\* The invariant holds of every scan.
LEMMA ScanInvHolds == Spec => [](ScanInv /\ ScanRecord /\ RangeExact)
<1>1. Init => ScanInv
  <2>. SUFFICES ASSUME Init PROVE ScanInv
    BY Zenon
  <2>1. /\ Len(scan_batch) = 0 /\ Len(vct_key_order) = 0 /\ Len(returned) = 0
        /\ Len(sk_pk_scan_batch) = 0 /\ Len(batch_order) = 0
        /\ scan_batch \in Seq(Entry) /\ sk_pk_scan_batch \in Seq(Entry) /\ batch_order \in Seq(Nat)
        /\ vct_key_order \in Seq(FullKey) /\ returned \in Seq(FullKey)
    BY DEF Init
  <2>2. ScanTypes
    BY <2>1, ScanAssumption, Zenon DEF Init, ScanTypes
  <2>3. Modes /\ Paired /\ ~ Chunk
    BY <2>1, Zenon DEF Init, Modes, Paired, Chunk, NoScan, MAX
  <2>4. \A j : j \notin Ahead
    BY <2>1, SMTT(60) DEF Ahead
  <2>5. Ordered
    BY <2>1, <2>4, NoPosition, Zenon DEF Ordered
  <2>6. InScan
    BY <2>1, <2>3 DEF Init, NoScan, InScan
  <2>7. Covered /\ Position
    BY <2>1, Zenon DEF Init, NoScan, Covered, Position
  <2>. QED  BY <2>2, <2>3, <2>5, <2>6, <2>7, Zenon DEF ScanInv
<1>2. Init => ScanRecord /\ RangeExact
  BY DEF Init, NoScan, ScanRecord, RangeExact
<1>3. ScanInv /\ ScanRecord /\ RangeExact /\ [Next]_vars => ScanInv'
  <2>. SUFFICES ASSUME ScanInv, ScanRecord, RangeExact, [Next]_vars PROVE ScanInv'
    BY Zenon
  <2>1. CASE Kill \/ \E k \in FullKey : DeleteRow(k) \/ InsertRow(k)
    BY <2>1, OthersKeep, Zenon
  <2>2. ASSUME NEW o \in Calls, OpenScan(o) PROVE ScanInv'
    BY <2>2, OpenKeeps, Zenon
  <2>3. CASE index_next \/ unlock_row
    BY <2>3, NextKeeps, Zenon
  <2>4. CASE index_end
    BY <2>4, CloseKeeps, Zenon
  <2>5. CASE ReturnReserved
    BY <2>5, ReservedKeeps, Zenon
  <2>6. CASE NoneReserved
    BY <2>6, NoneReservedKeeps, Zenon
  <2>7. CASE TakeTuple
    BY <2>7, TakeKeeps, Zenon
  <2>8. CASE Exhausted
    BY <2>8, ExhaustedKeeps, Zenon
  <2>9. CASE FetchBatch
    BY <2>9, FetchKeeps, Zenon
  <2>10. CASE BatchArrives
    BY <2>10, ArrivalKeeps, Zenon
  <2>11. CASE EmptyBatchArrives
    BY <2>11, NoArrivalKeeps, Zenon
  <2>12. CASE BatchRead
    BY <2>12, ReadKeeps, Zenon
  <2>13. CASE Interrupted \/ RequestFails
    BY <2>13, FailureKeeps, Zenon
  <2>14. CASE UNCHANGED vars
    <3>1. /\ UNCHANGED << rows, tombs, stable, kind, scan, cursor, pc, rc, failed, returned, released >>
          /\ UNCHANGED << scan_batch, scan_batch_idx, is_last_scan_batch >>
          /\ UNCHANGED << vct_key_order, batch_order, sk_pk_scan_batch >>
      BY <2>14, Zenon DEF vars, dataVars, batchVars, chunkVars, scanVars
    <3>2. ScanTypes' /\ Modes' /\ Paired' /\ (Chunk' <=> Chunk) /\ Ahead' = Ahead /\ Position'
      BY <3>1, ZenonT(40) DEF ScanInv, ScanTypes, Modes, Paired, Chunk, Ahead, Position
    <3>3. Ordered' /\ InScan'
      BY <3>1, <3>2, Zenon DEF ScanInv, Ordered, InScan
    <3>4. \A k : Held(k)' <=> Held(k)
      BY <3>1, <3>2, Zenon DEF Held, Waiting
    <3>5. Covered'
      BY <3>1, <3>4, Zenon DEF ScanInv, Covered
    <3>. QED  BY <3>2, <3>3, <3>5, Zenon DEF ScanInv
  <2>. QED
    BY <2>1, <2>2, <2>3, <2>4, <2>5, <2>6, <2>7, <2>8, <2>9, <2>10, <2>11, <2>12, <2>13, <2>14, Zenon DEF
       Next, NextStep
<1>4. ScanRecord /\ RangeExact /\ [Next]_vars => ScanRecord' /\ RangeExact'
  BY RangeKept, Zenon
<1>. QED  BY <1>1, <1>2, <1>3, <1>4, PTL DEF Spec

-----------------------------------------------------------------------------
(* The theorems.                                                           *)

\* The position is one of the batch, also after SkIndexScanNext() has replaced
\* the batch by a chunk, and the order of a chunk is as long as the chunk.
THEOREM PositionsInBatch == Spec => []TypeOK
<1>1. ScanInv => TypeOK
  BY Zenon DEF ScanInv, ScanTypes, Modes, TypeOK
<1>. QED  BY <1>1, ScanInvHolds, PTL

\* Rows come in the order of the index and none comes twice, for every way in
\* which the service splits the entries into batches, every size of a chunk and
\* every order in which the records of a chunk are read (batch_order_).
THEOREM ScanIsOrdered == Spec => []RowsInOrder
<1>1. ScanInv => RowsInOrder
  <2>. SUFFICES ASSUME ScanInv, NEW i \in 1 .. Len(returned), NEW j \in 1 .. (i - 1)
                PROVE  Precedes(scan.backward, returned[j], returned[i])
    BY Zenon DEF RowsInOrder
  <2>1. Len(returned) \in Nat
    BY DEF ScanInv, ScanTypes
  <2>2. j \in 1 .. Len(returned) /\ j < i
    BY <2>1
  <2>. QED  BY <2>2, Zenon DEF ScanInv, Ordered
<1>. QED  BY <1>1, ScanInvHolds, PTL

\* A scan that ends after the last batch has returned every row that it should
\* and that existed throughout, whatever other transactions did meanwhile.
THEOREM NothingMissed == Spec => []ScanComplete
<1>1. ScanInv /\ RangeExact => ScanComplete
  <2>. SUFFICES ASSUME ScanInv, RangeExact, rc \in NoMore, pc = "idle", scan.open,
                       is_last_scan_batch, ~ failed, NEW k \in scan.wanted \cap stable
                PROVE  k \in Range(returned)
    BY Zenon DEF ScanComplete
  <2>1. /\ rc # "row" /\ Len(vct_key_order) = 0 /\ Len(scan_batch) \in Nat
        /\ scan_batch_idx = MAX \/ scan_batch_idx = Len(scan_batch)
    BY DEF NoMore, ScanInv, Modes, ScanTypes
  <2>2. k \in rows /\ k \in FullKey /\ InRange(k, scan.range)
    BY Zenon DEF ScanInv, ScanTypes, RangeExact
  <2>3. Held(k)
    BY <2>2, Zenon DEF ScanInv, Covered
  <2>4. \A j \in 1 .. Len(scan_batch) : ~ Waiting(j)
    BY <2>1 DEF Waiting, Ahead
  <2>5. \E i \in 1 .. Len(returned) : returned[i] = k
    BY <2>1, <2>3, <2>4 DEF Held
  <2>. QED  BY <2>5 DEF Range, ScanInv, ScanTypes
<1>. QED  BY <1>1, ScanInvHolds, PTL

\* No row is returned that the pushed condition rejects or that is out of the
\* range of the scan.
THEOREM OnlyWantedRows == Spec => []RowsWanted
<1>1. ScanInv => RowsWanted
  <2>. SUFFICES ASSUME ScanInv, NEW k \in Range(returned)
                PROVE  /\ kind # "primary" => k \in scan.cond
                       /\ scan.exact /\ kind # "primary" => k \in scan.wanted
                       /\ InRange(k, scan.range)
    BY Zenon DEF RowsWanted
  <2>1. \E i \in 1 .. Len(returned) : returned[i] = k
    BY SMTT(60) DEF Range, ScanInv, ScanTypes
  <2>. QED  BY <2>1, Zenon DEF ScanInv, InScan
<1>. QED  BY <1>1, ScanInvHolds, PTL

\* unlock_row() gives back the row that was returned last, and IndexScanClose()
\* none that was returned unless the scan was stopped by an error.
THEOREM LocksAreRight == Spec => []LocksGivenBack
<1>1. ScanInv => LocksGivenBack
  <2>. SUFFICES ASSUME ScanInv PROVE LocksGivenBack
    BY Zenon
  <2>1. \A k \in Range(returned) : \E i \in 1 .. Len(returned) : returned[i] = k
    BY DEF Range, ScanInv, ScanTypes
  <2>. QED  BY <2>1, Zenon DEF ScanInv, Position, LocksGivenBack
<1>. QED  BY <1>1, ScanInvHolds, PTL
=============================================================================
