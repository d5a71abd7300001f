---------------------------- MODULE MCIndexScan ----------------------------
(* IndexScan for TLC: keys of two one-byte parts, padded to three bytes.    *)
EXTENDS IndexScan

\* In the order of the index the primary keys are 2, 3, 0.
MCFullKey == {<< 0, 2 >>, << 0, 3 >>, << 1, 0 >>}

MCSearchKey == {<< 0 >>, << 1, 0 >>}

\* KEY_EXACT and PREFIX_LAST come without a range, the others with one of the
\* kind that the direction reads; a condition is pushed into some scans.
MCCalls ==
  {o \in OpeningCall :
     /\ o.flag \in {"KEY_EXACT", "PREFIX_LAST"} => o.range = NoRange
     /\ o.flag \in {"AFTER_KEY", "KEY_OR_NEXT"} => o.range \in EndRange
     /\ o.flag \in {"BEFORE_KEY", "PREFIX_LAST_OR_PREV"} => o.range \in StartRange
     /\ o.call = "index_read_map" /\ o.range # NoRange
          => IF Backward(o.flag) THEN KeyLt(o.range.key, o.key) ELSE KeyLt(o.key, o.range.key)
     /\ \/ o.cond = FullKey
        \/ o.cond = FullKey \ {<< 0, 3 >>} /\ o.call \in {"index_first", "index_last"}
                                            /\ o.range = NoRange}
=============================================================================
