------------------------------ MODULE KeyRange ------------------------------
(***************************************************************************)
(* From an index condition to the key range of a scan: SetScanParameters(),*)
(* PrepareScan(), PrepareForwardScanEndKey() and                           *)
(* PrepareBackwardScanEndKey() of storage/eloq/ha_eloq.cc, get_ceiling_key *)
(* of storage/eloq/eloq_key_def.cc.                                        *)
(*                                                                         *)
(* A packed key is a sequence of bytes in memory-comparable form.  A       *)
(* search key holds the first parts of a key; the transaction service      *)
(* knows nothing of parts and compares bytes.                              *)
(***************************************************************************)
EXTENDS Integers, Sequences

CONSTANTS
  Top,         \* the largest byte, 0xFF
  MaxLen,      \* mono_key_def::m_maxlength
  FullKey,     \* packed keys with all their parts
  SearchKey    \* packed keys with the first parts

Byte == 0 .. Top

\* a is smaller than b at the first byte in which they differ.
Less(a, b) ==
  \E i \in 1 .. Len(a) : /\ i <= Len(b)
                         /\ a[i] < b[i]
                         /\ \A j \in 1 .. (i - 1) : a[j] = b[j]

\* EloqKey::IsPrefixOf(): k has the parts that c has.
Matches(c, k) == Len(c) <= Len(k) /\ \A i \in 1 .. Len(c) : c[i] = k[i]

\* No part of a key is the beginning of another part: two packed keys differ
\* in a byte unless one has all the parts of the other.
ASSUME KeyAssumption ==
  /\ Top \in Nat /\ MaxLen \in Nat
  /\ FullKey \subseteq Seq(Byte) /\ SearchKey \subseteq Seq(Byte)
  /\ \A k \in FullKey : Len(k) <= MaxLen
  /\ \A c \in SearchKey : Len(c) <= MaxLen
  /\ \A c \in SearchKey : \A k \in FullKey : Less(c, k) \/ Less(k, c) \/ Matches(c, k)
  /\ \A c \in SearchKey \cap FullKey : \A k \in FullKey : Matches(c, k) => c = k

\* operator< of EloqKey: bytes first, then the shorter key.
KeyLt(a, b) == Less(a, b) \/ (Len(a) < Len(b) /\ \A i \in 1 .. Len(a) : a[i] = b[i])
KeyLe(a, b) == ~ KeyLt(b, a)

\* Mutant: one smallest byte instead of the padding.
Mut_get_ceiling_key(c) == [i \in 1 .. Len(c) + 1 |-> IF i <= Len(c) THEN c[i] ELSE 0]

get_ceiling_key(c) == [i \in 1 .. MaxLen |-> IF i <= Len(c) THEN c[i] ELSE Top]

-----------------------------------------------------------------------------
ReadFlag == {"KEY_EXACT", "BEFORE_KEY", "AFTER_KEY", "KEY_OR_NEXT", "PREFIX_LAST",
             "PREFIX_LAST_OR_PREV"}

\* SetScanParameters()
Inclusive(flag) == flag \notin {"BEFORE_KEY", "AFTER_KEY"}
PrefixMatch(flag) == flag \in {"KEY_EXACT", "PREFIX_LAST"}
Backward(flag) == flag \in {"BEFORE_KEY", "PREFIX_LAST", "PREFIX_LAST_OR_PREV"}

\* One end of a scan's range; an unbounded end is the infinite key.
Bound(c, inclusive) == [inf |-> FALSE, key |-> c, inclusive |-> inclusive]
Unbounded == [inf |-> TRUE, key |-> << >>, inclusive |-> FALSE]

\* The ceiling stands for every key with these parts; a full primary key has
\* no other.
Ceiled(c, primary) == IF primary /\ c \in FullKey THEN c ELSE get_ceiling_key(c)

\* end_range, start_range_: where the SQL layer wants the scan to end.
NoRange == [flag |-> "none", key |-> << >>]
EndRange == {NoRange} \cup [flag : {"BEFORE_KEY", "AFTER_KEY"}, key : SearchKey]
StartRange == {NoRange} \cup [flag : {"KEY_OR_NEXT", "AFTER_KEY"}, key : SearchKey]

PrepareForwardScanEndKey(r, primary) ==
  CASE r.flag = "BEFORE_KEY" -> Bound(r.key, FALSE)
    [] r.flag = "AFTER_KEY"  -> Bound(Ceiled(r.key, primary), TRUE)
    [] OTHER                 -> Unbounded

PrepareBackwardScanEndKey(r, primary) ==
  CASE r.flag = "KEY_OR_NEXT" -> Bound(r.key, TRUE)
    [] r.flag = "AFTER_KEY"   -> Bound(Ceiled(r.key, primary), FALSE)
    [] OTHER                  -> Unbounded

\* PrepareScan(): the smaller and the greater end of the range.
PrefixRange(c) == [low |-> Bound(c, TRUE), high |-> Bound(get_ceiling_key(c), TRUE)]

ForwardRange(c, flag, r, primary) ==
  [low  |-> Bound(IF Inclusive(flag) THEN c ELSE Ceiled(c, primary), Inclusive(flag)),
   high |-> PrepareForwardScanEndKey(r, primary)]

BackwardRange(c, flag, r, primary) ==
  [low  |-> PrepareBackwardScanEndKey(r, primary),
   high |-> Bound(IF Inclusive(flag) THEN Ceiled(c, primary) ELSE c, Inclusive(flag))]

PrepareScan(c, flag, r, primary) ==
  IF PrefixMatch(flag) THEN PrefixRange(c)
  ELSE IF Backward(flag) THEN BackwardRange(c, flag, r, primary)
  ELSE ForwardRange(c, flag, r, primary)

\* The transaction service: the keys of a range.
AboveLow(k, b) == b.inf \/ (IF b.inclusive THEN KeyLe(b.key, k) ELSE KeyLt(b.key, k))
BelowHigh(k, b) == b.inf \/ (IF b.inclusive THEN KeyLe(k, b.key) ELSE KeyLt(k, b.key))
InRange(k, range) == AboveLow(k, range.low) /\ BelowHigh(k, range.high)

-----------------------------------------------------------------------------
(* The condition as the SQL layer means it, on the parts that c has.       *)

Satisfies(k, flag, c) ==
  CASE flag \in {"KEY_EXACT", "PREFIX_LAST"} -> Matches(c, k)
    [] flag = "BEFORE_KEY"                   -> Less(k, c)
    [] flag = "AFTER_KEY"                    -> Less(c, k)
    [] flag = "KEY_OR_NEXT"                  -> ~ Less(k, c)
    [] flag = "PREFIX_LAST_OR_PREV"          -> ~ Less(c, k)

\* An end range of a forward scan reads BEFORE_KEY as < and AFTER_KEY as <=;
\* a start range of a backward scan reads KEY_OR_NEXT as >= and AFTER_KEY as >.
BeforeEnd(k, r) ==
  CASE r.flag = "BEFORE_KEY" -> Less(k, r.key)
    [] r.flag = "AFTER_KEY"  -> ~ Less(r.key, k)
    [] OTHER                 -> TRUE

AfterStart(k, r) ==
  CASE r.flag = "KEY_OR_NEXT" -> ~ Less(k, r.key)
    [] r.flag = "AFTER_KEY"   -> Less(r.key, k)
    [] OTHER                  -> TRUE

Wanted(k, c, flag, r) ==
  /\ Satisfies(k, flag, c)
  /\ PrefixMatch(flag) \/ (IF Backward(flag) THEN AfterStart(k, r) ELSE BeforeEnd(k, r))
=============================================================================
