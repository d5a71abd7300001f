---------------------------- MODULE MCTableSchema ---------------------------
(***************************************************************************)
(* Instances of TableSchema: two nodes, two sessions on the second.        *)
(***************************************************************************)
EXTENDS TableSchema

CONSTANTS n1, n2, s1, s2, s3, h1, h2

MCNodeOf == [s \in Sessions |-> IF s = s1 THEN n1 ELSE n2]
MCHandlerNode == [h \in Handlers |-> IF h = h1 THEN n1 ELSE n2]
=============================================================================
