------------------------- MODULE TableSchema_proofs -------------------------
(***************************************************************************)
(* Proofs about TableSchema, for any number of nodes, sessions, handlers   *)
(* and versions.  The schema that a transaction has read does not change   *)
(* under it, and the readers of the schema object are counted exactly      *)
(* (DiscoverTableSchema() in storage/eloq/ha_eloq.cc).  If handlers are    *)
(* opened from current definitions only, a statement works with one        *)
(* definition and every row is in every index, while other nodes change    *)
(* the schema (write_row()).                                               *)
(***************************************************************************)
EXTENDS TableSchema, FiniteSetTheorems, TLAPS

-----------------------------------------------------------------------------
(* The inductive invariant.                                                *)

\* What the stages of a schema change say about the catalog.
Stages ==
  /\ ddl.phase = "none" => ddl = NoDdl /\ catalog.dirty = NoSchema
  /\ ddl.phase = "lock" => catalog.dirty = NoSchema
  /\ ddl.phase # "none" =>
       /\ ~ catalog.open
       /\ ddl.op \in DdlOps
       /\ ddl.by # Nobody => pc[ddl.by] = ddl.op
       /\ ddl.op = "create_index" => catalog.schema # NoSchema
  /\ ddl.phase \in {"dirty", "built", "relock"} =>
       ddl.op = "create_index" /\ catalog.dirty = ddl.new

\* No handler has an object of a table that does not exist.
Objects ==
  /\ catalog.cntl # 0
  /\ \A h \in Handlers :
       /\ handler[h].cntl <= catalog.cntl
       /\ catalog.schema = NoSchema => handler[h].cntl # catalog.cntl

\* A schema that was discovered is locked; the session that changes the
\* schema discovered it before the dirty schema was installed.
Pinned ==
  \A s \in Sessions :
    /\ tx[s].cached # NoSchema =>
         catalog.schema = tx[s].cached /\ catalog.dirty = NoSchema
    /\ tx[s].disc # NoSchema => s \in rlock
    /\ tx[s].disc # NoSchema /\ pc[s] # "altered" =>
         /\ catalog.schema = tx[s].disc
         /\ tx[s].disc_dirty = IF ddl.by = s THEN NoSchema ELSE catalog.dirty

PinInv == TypeOK /\ ReadersExact /\ Stages /\ Objects /\ Pinned

-----------------------------------------------------------------------------
(* Types.                                                                  *)

HandlerType == [share : Schema, cntl : Nat, schema : Schema, dirty : Schema,
                user : Sessions \cup {Nobody}]
TxType == [open : BOOLEAN, cached : Schema, disc : Schema, disc_dirty : Schema,
           dirty_index_names : SUBSET Index, writes : SUBSET SUBSET Index]
PcType == {"idle", "ready", "stale", "reopen", "failed"} \cup DdlPcs

\* Schemas, closed handlers and fresh transactions have their types.
LEMMA Values ==
  /\ NoSchema \in Schema
  /\ Closed \in HandlerType
  /\ NoTx \in TxType
  /\ \A x \in Schema : x.ver \in 0 .. MaxVer /\ x.keys \subseteq Index
  /\ \A x \in Schema : x.ver = 0 => x = NoSchema
BY SchemaAssumption DEF NoSchema, Schema, Closed, HandlerType, NoTx, TxType, Index

\* Bind() keeps the types of what it changes.
LEMMA BindType ==
  ASSUME TypeOK, NEW s \in Sessions, NEW h \in Handlers, NEW d \in Schema, NEW c \in Nat,
         NEW schema \in Schema, NEW dirty \in Schema, NEW check \in BOOLEAN,
         Bind(s, h, d, c, schema, dirty, check)
  PROVE  /\ handler' \in [Handlers -> HandlerType]
         /\ pc' \in [Sessions -> PcType]
         /\ mdl' \subseteq Sessions
<1>1. handler \in [Handlers -> HandlerType] /\ pc \in [Sessions -> PcType] /\ mdl \subseteq Sessions
  BY Zenon DEF TypeOK, HandlerType, PcType
<1>2. [share |-> d, cntl |-> c, schema |-> schema, dirty |-> dirty, user |-> s] \in HandlerType
  BY Zenon DEF HandlerType
<1>3. \A k \in Nat : [Closed EXCEPT !.share = d, !.cntl = k] \in HandlerType
  BY Values, Zenon DEF HandlerType, Closed
<1>4. handler' \in [Handlers -> HandlerType]
  BY <1>1, <1>2, <1>3, Values, Zenon DEF Bind
<1>5. pc' \in [Sessions -> PcType]
  BY <1>1, Zenon DEF Bind, PcType
<1> QED
  BY <1>1, <1>4, <1>5, Zenon DEF Bind

LEMMA DiscoverType ==
  ASSUME TypeOK, NEW s \in Sessions, NEW h \in Handlers, NEW d \in Schema,
         NEW check \in BOOLEAN, DiscoverTableSchema(s, h, d, check)
  PROVE  TypeOK'
<1>1. /\ handler \in [Handlers -> HandlerType]
      /\ tx \in [Sessions -> TxType]
      /\ catalog.schema \in Schema /\ catalog.dirty \in Schema /\ catalog.cntl \in Nat
      /\ readers \in [Nodes -> Nat] /\ rlock \subseteq Sessions
      /\ NodeOf[s] \in Nodes
  BY SchemaAssumption, Zenon DEF TypeOK, HandlerType, TxType
<1>2. /\ handler[h].cntl \in Nat
      /\ tx[s].cached \in Schema /\ tx[s].disc \in Schema /\ tx[s].disc_dirty \in Schema
  BY <1>1, Zenon DEF HandlerType, TxType
<1>3. DirtyIndexNames \subseteq Index
  BY <1>1, Values, Zenon DEF DirtyIndexNames
<1>4. \A x \in Sessions : tx[x] \in TxType
  BY <1>1, Zenon
<1>5. SUFFICES /\ handler' \in [Handlers -> HandlerType]
               /\ pc' \in [Sessions -> PcType]
               /\ mdl' \subseteq Sessions
               /\ tx' \in [Sessions -> TxType]
               /\ readers' \in [Nodes -> Nat]
               /\ rlock' \subseteq Sessions
  BY Zenon DEF DiscoverTableSchema, TypeOK, HandlerType, TxType, PcType
<1>6. CASE UseCached(s, h, d, check)
  BY <1>1, <1>2, <1>6, Values, BindType, SMTT(60) DEF UseCached
<1>7. CASE UseSchemaCntl(s, h, d, check)
  <2>1. [tx[s] EXCEPT !.open = TRUE, !.cached = catalog.schema] \in TxType
    BY <1>1, <1>4, ZenonT(40) DEF TxType
  <2>2. tx' \in [Sessions -> TxType]
    BY <1>1, <1>7, <2>1, Zenon DEF UseSchemaCntl
  <2> QED
    BY <1>1, <1>2, <1>7, <2>2, Values, BindType, SMTT(60) DEF UseSchemaCntl
<1>8. CASE UseDiscovered(s, h, d, check)
  BY <1>1, <1>2, <1>8, Values, BindType, SMTT(60) DEF UseDiscovered
<1>9. CASE UseCatalog(s, h, d, check)
  <2>1. [tx[s] EXCEPT !.open = TRUE, !.disc = catalog.schema, !.disc_dirty = catalog.dirty,
                      !.dirty_index_names = DirtyIndexNames] \in TxType
    BY <1>1, <1>3, <1>4, ZenonT(40) DEF TxType
  <2>2. tx' \in [Sessions -> TxType]
    BY <1>1, <1>9, <2>1, Zenon DEF UseCatalog
  <2> QED
    BY <1>1, <1>2, <1>9, <2>2, Values, BindType DEF UseCatalog
<1>10. CASE CatalogReadFails(s, h, d, check)
  <2>1. [tx[s] EXCEPT !.open = TRUE] \in TxType
    BY <1>4, Zenon DEF TxType
  <2>2. tx' \in [Sessions -> TxType]
    BY <1>1, <1>10, <2>1, Zenon DEF CatalogReadFails
  <2>3. Bind(s, h, d, 0, NoSchema, NoSchema, check) /\ UNCHANGED << readers, rlock >>
    BY <1>10, Zenon DEF CatalogReadFails
  <2>4. 0 \in Nat /\ NoSchema \in Schema
    BY Values, Zenon
  <2>5. /\ handler' \in [Handlers -> HandlerType]
        /\ pc' \in [Sessions -> PcType]
        /\ mdl' \subseteq Sessions
    BY <2>3, <2>4, BindType, Zenon
  <2> QED
    BY <1>1, <2>2, <2>3, <2>5, Zenon
<1> QED
  BY <1>6, <1>7, <1>8, <1>9, <1>10, Zenon DEF DiscoverTableSchema

-----------------------------------------------------------------------------
(* The readers of the schema object.                                       *)

Cached(n) == {q \in Sessions : NodeOf[q] = n /\ tx[q].cached # NoSchema}

\* A transaction becomes a reader: UpdateSchemaCntl().
LEMMA ReaderJoins ==
  ASSUME TypeOK, ReadersExact, NEW s \in Sessions,
         tx[s].cached = NoSchema, tx'[s].cached # NoSchema,
         \A q \in Sessions \ {s} : tx'[q].cached = tx[q].cached,
         readers' = [readers EXCEPT ![NodeOf[s]] = @ + 1]
  PROVE  ReadersExact'
<1>1. \A n \in Nodes : IsFiniteSet(Cached(n)) /\ readers[n] = Cardinality(Cached(n))
  BY FS_Subset, SchemaAssumption, Zenon DEF Cached, ReadersExact
<1>2. readers \in [Nodes -> Nat] /\ NodeOf[s] \in Nodes
  BY SchemaAssumption, Zenon DEF TypeOK
<1>3. SUFFICES ASSUME NEW n \in Nodes
               PROVE  readers'[n] = Cardinality(Cached(n)')
  BY Zenon DEF ReadersExact, Cached
<1>4. CASE n = NodeOf[s]
  <2>1. Cached(n)' = Cached(n) \cup {s} /\ s \notin Cached(n)
    BY <1>4 DEF Cached
  <2>2. Cardinality(Cached(n) \cup {s}) = Cardinality(Cached(n)) + 1
    BY <1>1, <2>1, FS_AddElement, Zenon
  <2> QED
    BY <1>1, <1>2, <1>4, <2>1, <2>2, Zenon
<1>5. CASE n # NodeOf[s]
  <2>1. Cached(n)' = Cached(n)
    BY <1>5, Zenon DEF Cached
  <2> QED
    BY <1>1, <1>2, <1>5, <2>1, Zenon
<1> QED
  BY <1>4, <1>5, Zenon

\* A transaction leaves: ClearSchemaReaders(), ClearSchemaReader().
LEMMA ReaderLeaves ==
  ASSUME TypeOK, ReadersExact, NEW s \in Sessions,
         tx'[s].cached = NoSchema,
         \A q \in Sessions \ {s} : tx'[q].cached = tx[q].cached,
         readers' = ClearSchemaReaders(s)
  PROVE  ReadersExact' /\ readers' \in [Nodes -> Nat]
<1>1. \A n \in Nodes : IsFiniteSet(Cached(n)) /\ readers[n] = Cardinality(Cached(n))
  BY FS_Subset, SchemaAssumption, Zenon DEF Cached, ReadersExact
<1>2. readers \in [Nodes -> Nat] /\ NodeOf[s] \in Nodes
  BY SchemaAssumption, Zenon DEF TypeOK
<1>3. \A n \in Nodes : readers'[n] = Cardinality(Cached(n)') /\ readers'[n] \in Nat
  <2>1. SUFFICES ASSUME NEW n \in Nodes
                 PROVE  readers'[n] = Cardinality(Cached(n)') /\ readers'[n] \in Nat
    BY Zenon
  <2>2. CASE n = NodeOf[s] /\ tx[s].cached # NoSchema
    <3>1. Cached(n)' = Cached(n) \ {s} /\ s \in Cached(n)
      BY <2>2, Zenon DEF Cached
    <3>2. Cardinality(Cached(n) \ {s}) = Cardinality(Cached(n)) - 1
      BY <1>1, <3>1, FS_RemoveElement, Zenon
    <3>3. IsFiniteSet(Cached(n) \ {s})
      BY <1>1, <3>1, FS_RemoveElement, Zenon
    <3>4. Cardinality(Cached(n) \ {s}) \in Nat
      BY <3>3, FS_CardinalityType, Zenon
    <3>5. readers'[n] = readers[n] - 1
      BY <1>2, <2>2, Zenon DEF ClearSchemaReaders
    <3> QED
      BY <1>1, <3>1, <3>2, <3>4, <3>5, Zenon
  <2>3. CASE n # NodeOf[s] \/ tx[s].cached = NoSchema
    <3>1. Cached(n)' = Cached(n)
      BY <2>3, Zenon DEF Cached
    <3>2. readers'[n] = readers[n]
      BY <1>2, <2>3, Zenon DEF ClearSchemaReaders
    <3> QED
      BY <1>1, <1>2, <3>1, <3>2, Zenon
  <2> QED
    BY <2>2, <2>3, Zenon
<1>4. DOMAIN readers' = Nodes /\ readers' = [n \in Nodes |-> readers'[n]]
  BY <1>2, Zenon DEF ClearSchemaReaders
<1> QED
  BY <1>3, <1>4, Zenon DEF ReadersExact, Cached

\* Nobody changes the readers.
LEMMA ReadersKept ==
  ASSUME ReadersExact, readers' = readers,
         \A q \in Sessions : tx'[q].cached = tx[q].cached
  PROVE  ReadersExact'
<1>1. \A n \in Nodes : Cached(n)' = Cached(n)
  BY Zenon DEF Cached
<1> QED
  BY <1>1, Zenon DEF ReadersExact, Cached

\* The write lock is granted when no transaction uses the schema.
LEMMA WriteLockAlone ==
  ASSUME TypeOK, ReadersExact, WriteLock, NEW s \in Sessions
  PROVE  tx[s].cached = NoSchema /\ (s \in rlock => ddl.by = s)
<1>1. NodeOf[s] \in Nodes
  BY SchemaAssumption, Zenon
<1>2. Cardinality(Cached(NodeOf[s])) = 0
  BY <1>1, Zenon DEF ReadersExact, Cached, WriteLock
<1>3. IsFiniteSet(Cached(NodeOf[s]))
  BY FS_Subset, SchemaAssumption, Zenon DEF Cached
<1>4. Cached(NodeOf[s]) = {}
  BY <1>2, <1>3, FS_EmptySet, Zenon
<1> QED
  BY <1>4, Zenon DEF Cached, WriteLock

-----------------------------------------------------------------------------
(* Steps keep the invariant.                                               *)

\* What Bind() changes.
LEMMA BindFacts ==
  ASSUME TypeOK, NEW s \in Sessions, NEW h \in Handlers, NEW d \in Schema, NEW c \in Nat,
         NEW schema \in Schema, NEW dirty \in Schema, NEW check \in BOOLEAN,
         Bind(s, h, d, c, schema, dirty, check)
  PROVE  /\ \A g \in Handlers \ {h} : handler'[g] = handler[g]
         /\ handler'[h].cntl \in {0, c}
         /\ schema = NoSchema => handler'[h].cntl = 0
         /\ \A q \in Sessions \ {s} : pc'[q] = pc[q]
         /\ pc'[s] \in {"ready", "stale", "failed"}
<1>1. handler \in [Handlers -> HandlerType] /\ pc \in [Sessions -> PcType]
  BY Zenon DEF TypeOK, HandlerType, PcType
<1>2. \A g \in Handlers \ {h} : handler'[g] = handler[g]
  BY <1>1, Zenon DEF Bind
<1>3. handler'[h].cntl \in {0, c} /\ (schema = NoSchema => handler'[h].cntl = 0)
  BY <1>1, Zenon DEF Bind, Closed
<1>4. \A q \in Sessions \ {s} : pc'[q] = pc[q]
  BY <1>1, Zenon DEF Bind
<1>5. pc'[s] \in {"ready", "stale", "failed"}
  BY <1>1, Zenon DEF Bind
<1> QED
  BY <1>2, <1>3, <1>4, <1>5, Zenon

\* The session that changes the schema is in its statement.
LEMMA ChangerBusy ==
  ASSUME PinInv, NEW s \in Sessions, pc[s] \notin DdlOps
  PROVE  ddl.by # s
<1>1. ddl.phase # "none" \/ ddl.by = Nobody
  BY DEF PinInv, Stages, NoDdl
<1> QED
  BY <1>1, SchemaAssumption, Zenon DEF PinInv, Stages

\* A change of the handlers and of statements keeps the stages.
LEMMA StagesKept ==
  ASSUME PinInv, UNCHANGED << catalog, ddl >>,
         ddl.by # Nobody => pc'[ddl.by] = pc[ddl.by]
  PROVE  Stages'
BY Zenon DEF PinInv, Stages

LEMMA DiscoverPins ==
  ASSUME PinInv, NEW s \in Sessions, NEW h \in Handlers, NEW d \in Schema,
         NEW check \in BOOLEAN, Opening(s), DiscoverTableSchema(s, h, d, check)
  PROVE  PinInv'
<1>1. TypeOK /\ ReadersExact /\ Stages /\ Objects /\ Pinned
  BY Zenon DEF PinInv
<1>2. TypeOK'
  BY <1>1, DiscoverType, Zenon
<1>3. ddl.by # s
  BY ChangerBusy, Zenon DEF Opening, DdlOps
<1>4. /\ handler[h].cntl \in Nat /\ catalog.cntl \in Nat /\ catalog.schema \in Schema
      /\ catalog.dirty \in Schema /\ NoSchema \in Schema /\ 0 \in Nat
      /\ tx[s].cached \in Schema /\ tx[s].disc \in Schema /\ tx[s].disc_dirty \in Schema
      /\ \A q \in Sessions : tx[q] \in TxType
      /\ tx \in [Sessions -> TxType]
      /\ ddl.by \in Sessions \cup {Nobody}
  BY <1>1, Values, Zenon DEF TypeOK, TxType
<1>5. UNCHANGED << catalog, ddl >>
  BY Zenon DEF DiscoverTableSchema
<1>6. SUFFICES /\ ReadersExact'
               /\ \A g \in Handlers \ {h} : handler'[g] = handler[g]
               /\ handler'[h].cntl <= catalog.cntl
               /\ catalog.schema = NoSchema => handler'[h].cntl # catalog.cntl
               /\ \A q \in Sessions \ {s} : pc'[q] = pc[q] /\ tx'[q] = tx[q]
               /\ rlock \subseteq rlock'
               /\ tx'[s].cached # NoSchema =>
                    catalog.schema = tx'[s].cached /\ catalog.dirty = NoSchema
               /\ tx'[s].disc # NoSchema =>
                    /\ s \in rlock'
                    /\ catalog.schema = tx'[s].disc
                    /\ tx'[s].disc_dirty = catalog.dirty
  <2>1. Stages'
    BY <1>3, <1>4, <1>5, <1>6, StagesKept, Zenon
  <2>2. Objects'
    BY <1>1, <1>5, <1>6, Zenon DEF Objects
  <2>3. Pinned'
    BY <1>1, <1>3, <1>5, <1>6 DEF Pinned
  <2> QED
    BY <1>2, <1>6, <2>1, <2>2, <2>3, Zenon DEF PinInv
<1>7. /\ tx[s].cached # NoSchema =>
           catalog.schema = tx[s].cached /\ catalog.dirty = NoSchema
      /\ tx[s].disc # NoSchema =>
           s \in rlock /\ catalog.schema = tx[s].disc /\ tx[s].disc_dirty = catalog.dirty
  BY <1>1, <1>3, Zenon DEF Pinned, Opening
<1>8. CASE UseCached(s, h, d, check)
  <2>1. Bind(s, h, d, handler[h].cntl, tx[s].cached, NoSchema, check) /\ UNCHANGED << tx, readers, rlock >>
    BY <1>8, Zenon DEF UseCached
  <2>2. ReadersExact'
    BY <1>1, <2>1, ReadersKept, Zenon
  <2>3. /\ \A g \in Handlers \ {h} : handler'[g] = handler[g]
        /\ handler'[h].cntl \in {0, handler[h].cntl}
        /\ \A q \in Sessions \ {s} : pc'[q] = pc[q]
    <3>1. /\ TypeOK /\ handler[h].cntl \in Nat /\ tx[s].cached \in Schema /\ NoSchema \in Schema
          /\ Bind(s, h, d, handler[h].cntl, tx[s].cached, NoSchema, check)
      BY <1>1, <1>4, <2>1, Zenon
    <3> QED
      BY <3>1, BindFacts
  <2>4. /\ 0 <= catalog.cntl /\ 0 # catalog.cntl
        /\ handler[h].cntl <= catalog.cntl
        /\ catalog.schema = NoSchema => handler[h].cntl # catalog.cntl
    BY <1>1, <1>4, SMTT(60) DEF Objects
  <2> QED
    BY <1>7, <2>1, <2>2, <2>3, <2>4, Zenon
<1>9. CASE UseSchemaCntl(s, h, d, check)
  <2>1. /\ Bind(s, h, d, handler[h].cntl, catalog.schema, NoSchema, check)
        /\ tx' = [tx EXCEPT ![s].open = TRUE, ![s].cached = catalog.schema]
        /\ readers' = [readers EXCEPT ![NodeOf[s]] = @ + 1]
        /\ tx[s].cached = NoSchema
        /\ handler[h].cntl = catalog.cntl /\ catalog.open
        /\ rlock' = rlock
    BY <1>9, Zenon DEF UseSchemaCntl, AddReader
  <2>2. catalog.schema # NoSchema /\ catalog.dirty = NoSchema
    BY <1>1, <2>1, Zenon DEF Objects, Stages
  <2>3. /\ tx'[s].cached = catalog.schema /\ tx'[s].disc = tx[s].disc
        /\ tx'[s].disc_dirty = tx[s].disc_dirty
        /\ \A q \in Sessions \ {s} : tx'[q] = tx[q]
    BY <1>4, <2>1, Zenon DEF TxType
  <2>4. ReadersExact'
    BY <1>1, <2>1, <2>2, <2>3, ReaderJoins, Zenon
  <2> QED
    BY <1>1, <1>4, <1>7, <2>1, <2>2, <2>3, <2>4, BindFacts, SMTT(60) DEF Objects
<1>10. CASE UseDiscovered(s, h, d, check)
  <2>1. Bind(s, h, d, 0, tx[s].disc, tx[s].disc_dirty, check) /\ UNCHANGED << tx, readers, rlock >>
    BY <1>10, Zenon DEF UseDiscovered
  <2>2. ReadersExact'
    BY <1>1, <2>1, ReadersKept, Zenon
  <2>3. /\ \A g \in Handlers \ {h} : handler'[g] = handler[g]
        /\ handler'[h].cntl = 0
        /\ \A q \in Sessions \ {s} : pc'[q] = pc[q]
    <3>1. PICK c \in Nat : c = 0
      BY <1>4, Zenon
    <3>2. /\ TypeOK /\ tx[s].disc \in Schema /\ tx[s].disc_dirty \in Schema
          /\ Bind(s, h, d, c, tx[s].disc, tx[s].disc_dirty, check)
      BY <1>1, <1>4, <2>1, <3>1, Zenon
    <3>3. /\ \A g \in Handlers \ {h} : handler'[g] = handler[g]
          /\ handler'[h].cntl \in {0, c}
          /\ \A q \in Sessions \ {s} : pc'[q] = pc[q]
      BY <3>2, BindFacts
    <3> QED
      BY <3>1, <3>3, Zenon
  <2>4. 0 <= catalog.cntl /\ 0 # catalog.cntl
    BY <1>1, <1>4, SMTT(60) DEF Objects
  <2> QED
    BY <1>7, <2>1, <2>2, <2>3, <2>4, Zenon
<1>11. CASE UseCatalog(s, h, d, check)
  <2>1. /\ Bind(s, h, d, catalog.cntl, catalog.schema, catalog.dirty, check)
        /\ tx' = [tx EXCEPT ![s].open = TRUE, ![s].disc = catalog.schema,
                            ![s].disc_dirty = catalog.dirty,
                            ![s].dirty_index_names = DirtyIndexNames]
        /\ readers' = readers
        /\ rlock' = IF catalog.schema = NoSchema THEN rlock ELSE rlock \cup {s}
    BY <1>11, Zenon DEF UseCatalog
  <2>2. /\ tx'[s].cached = tx[s].cached /\ tx'[s].disc = catalog.schema
        /\ tx'[s].disc_dirty = catalog.dirty
        /\ \A q \in Sessions \ {s} : tx'[q] = tx[q]
    BY <1>4, <2>1, ZenonT(40) DEF TxType
  <2>3. ReadersExact'
    BY <1>1, <2>1, <2>2, ReadersKept, Zenon
  <2>4. /\ \A g \in Handlers \ {h} : handler'[g] = handler[g]
        /\ handler'[h].cntl \in {0, catalog.cntl}
        /\ catalog.schema = NoSchema => handler'[h].cntl = 0
        /\ \A q \in Sessions \ {s} : pc'[q] = pc[q]
    BY <1>1, <1>4, <2>1, BindFacts, SMTT(60)
  <2> QED
    BY <1>1, <1>4, <1>7, <2>1, <2>2, <2>3, <2>4, SMTT(60) DEF Objects
<1>12. CASE CatalogReadFails(s, h, d, check)
  <2>1. /\ Bind(s, h, d, 0, NoSchema, NoSchema, check)
        /\ tx' = [tx EXCEPT ![s].open = TRUE]
        /\ UNCHANGED << readers, rlock >>
    BY <1>12, Zenon DEF CatalogReadFails
  <2>2. /\ tx'[s].cached = tx[s].cached /\ tx'[s].disc = tx[s].disc
        /\ tx'[s].disc_dirty = tx[s].disc_dirty
        /\ \A q \in Sessions \ {s} : tx'[q] = tx[q]
    BY <1>4, <2>1, Zenon DEF TxType
  <2>3. ReadersExact'
    BY <1>1, <2>1, <2>2, ReadersKept, Zenon
  <2>4. /\ \A g \in Handlers \ {h} : handler'[g] = handler[g]
        /\ handler'[h].cntl = 0
        /\ \A q \in Sessions \ {s} : pc'[q] = pc[q]
    <3>1. PICK c \in Nat : c = 0
      BY <1>4, Zenon
    <3>2. TypeOK /\ NoSchema \in Schema /\ Bind(s, h, d, c, NoSchema, NoSchema, check)
      BY <1>1, <1>4, <2>1, <3>1, Zenon
    <3>3. /\ \A g \in Handlers \ {h} : handler'[g] = handler[g]
          /\ handler'[h].cntl \in {0, c}
          /\ \A q \in Sessions \ {s} : pc'[q] = pc[q]
      BY <3>2, BindFacts
    <3> QED
      BY <3>1, <3>3, Zenon
  <2> QED
    BY <1>1, <1>4, <1>7, <2>1, <2>2, <2>3, <2>4, SMTT(60) DEF Objects
<1> QED
  BY <1>8, <1>9, <1>10, <1>11, <1>12, Zenon DEF DiscoverTableSchema

\* The handlers after some were closed or given back.
LEMMA HandlersReleased ==
  ASSUME TypeOK, Objects, UNCHANGED catalog,
         \A h \in Handlers : handler'[h].cntl \in {0, handler[h].cntl}
  PROVE  Objects'
BY DEF Objects, TypeOK

LEMMA CloseHandlersFacts ==
  ASSUME TypeOK, NEW n \in Nodes, CloseHandlers(n)
  PROVE  /\ handler' \in [Handlers -> HandlerType]
         /\ \A h \in Handlers : handler'[h].cntl \in {0, handler[h].cntl}
<1>1. handler \in [Handlers -> HandlerType]
  BY Zenon DEF TypeOK, HandlerType
<1>2. handler' \in [Handlers -> HandlerType]
  BY <1>1, Values, Zenon DEF CloseHandlers
<1>3. \A h \in Handlers : handler'[h].cntl \in {0, handler[h].cntl}
  BY Zenon DEF CloseHandlers, Closed
<1> QED
  BY <1>2, <1>3, Zenon

LEMMA FreeHandlersFacts ==
  ASSUME TypeOK, NEW s \in Sessions, handler' = FreeHandlers(s)
  PROVE  /\ handler' \in [Handlers -> HandlerType]
         /\ \A h \in Handlers : handler'[h].cntl = handler[h].cntl
<1>1. handler \in [Handlers -> HandlerType]
  BY Zenon DEF TypeOK, HandlerType
<1>2. \A h \in Handlers :
        /\ [Closed EXCEPT !.share = handler[h].share, !.cntl = handler[h].cntl] \in HandlerType
        /\ [Closed EXCEPT !.share = handler[h].share, !.cntl = handler[h].cntl].cntl = handler[h].cntl
  BY <1>1, Values, Zenon DEF HandlerType, Closed
<1> QED
  BY <1>1, <1>2, Zenon DEF FreeHandlers

\* eloq_discover_table(), with handlers kept or closed.
LEMMA LoadPins ==
  ASSUME PinInv, NEW s \in Sessions, eloq_discover_table(s), pc[s] \notin DdlPcs,
         UNCHANGED handler \/ CloseHandlers(NodeOf[s])
  PROVE  PinInv'
<1>1. TypeOK /\ ReadersExact /\ Stages /\ Objects /\ Pinned
  BY Zenon DEF PinInv
<1>2. ddl.by # s
  BY ChangerBusy, Zenon DEF DdlPcs
<1>3. /\ tx \in [Sessions -> TxType] /\ tx[s] \in TxType
      /\ pc \in [Sessions -> PcType] /\ catalog.schema \in Schema
      /\ NodeOf[s] \in Nodes /\ ddl.by \in Sessions \cup {Nobody}
      /\ handler \in [Handlers -> HandlerType]
  BY <1>1, SchemaAssumption, Zenon DEF TypeOK, TxType, PcType, HandlerType
<1>4. [tx[s] EXCEPT !.open = TRUE] \in TxType
  BY <1>3, Zenon DEF TxType
<1>5. tx' \in [Sessions -> TxType]
  BY <1>3, <1>4, Zenon DEF eloq_discover_table
<1>6. \A q \in Sessions : /\ tx'[q].cached = tx[q].cached /\ tx'[q].disc = tx[q].disc
                          /\ tx'[q].disc_dirty = tx[q].disc_dirty
  BY <1>3, Zenon DEF eloq_discover_table, TxType
<1>7. /\ handler' \in [Handlers -> HandlerType]
      /\ \A h \in Handlers : handler'[h].cntl \in {0, handler[h].cntl}
  BY <1>1, <1>3, CloseHandlersFacts, Zenon
<1>8. pc' \in [Sessions -> PcType] /\ pc'[s] # "altered"
  BY <1>3, Zenon DEF eloq_discover_table, PcType
<1>9. UNCHANGED << catalog, ddl, readers, mdl, rows >>
  BY Zenon DEF eloq_discover_table
<1>10. \A q \in Sessions \ {s} : pc'[q] = pc[q]
  BY <1>3, Zenon DEF eloq_discover_table
<1>11. TypeOK'
  BY <1>1, <1>3, <1>5, <1>7, <1>8, <1>9, ZenonT(40) DEF TypeOK, HandlerType, TxType, PcType, eloq_discover_table
<1>12. ReadersExact'
  BY <1>1, <1>6, <1>9, ReadersKept, Zenon
<1>13. Stages'
  BY <1>2, <1>3, <1>9, <1>10, StagesKept, Zenon
<1>14. Objects'
  BY <1>1, <1>7, <1>9, HandlersReleased, Zenon
<1>15. Pinned'
  BY <1>1, <1>6, <1>9, <1>10 DEF Pinned, DdlPcs, eloq_discover_table
<1> QED
  BY <1>11, <1>12, <1>13, <1>14, <1>15, Zenon DEF PinInv

\* The end of a transaction.
LEMMA EndTxPins ==
  ASSUME PinInv, NEW s \in Sessions, EndTx(s), ddl.by # s, mdl' \subseteq mdl,
         UNCHANGED handler \/ handler' = FreeHandlers(s),
         rows' \in {rows, rows \cup tx[s].writes}
  PROVE  PinInv'
<1>1. TypeOK /\ ReadersExact /\ Stages /\ Objects /\ Pinned
  BY Zenon DEF PinInv
<1>2. /\ tx \in [Sessions -> TxType] /\ tx[s] \in TxType
      /\ pc \in [Sessions -> PcType]
      /\ ddl.by \in Sessions \cup {Nobody}
      /\ handler \in [Handlers -> HandlerType]
  BY <1>1, SchemaAssumption, Zenon DEF TypeOK, TxType, PcType, HandlerType
<1>3. tx' \in [Sessions -> TxType] /\ tx'[s] = NoTx
      /\ \A q \in Sessions \ {s} : tx'[q] = tx[q] /\ pc'[q] = pc[q]
  BY <1>2, Values, Zenon DEF EndTx
<1>4. tx'[s].cached = NoSchema /\ tx'[s].disc = NoSchema
  BY <1>3 DEF NoTx
<1>5. /\ handler' \in [Handlers -> HandlerType]
      /\ \A h \in Handlers : handler'[h].cntl \in {0, handler[h].cntl}
  BY <1>1, <1>2, FreeHandlersFacts, Zenon
<1>6. pc' \in [Sessions -> PcType]
  BY <1>2, Zenon DEF EndTx, PcType
<1>7. UNCHANGED << catalog, ddl, share >> /\ rlock' = rlock \ {s} /\ readers' = ClearSchemaReaders(s)
  BY Zenon DEF EndTx
<1>8. ReadersExact' /\ readers' \in [Nodes -> Nat]
  BY <1>1, <1>3, <1>4, <1>7, ReaderLeaves, Zenon
<1>9. rows' \subseteq SUBSET Index
  BY <1>1, <1>2, Zenon DEF TypeOK, TxType
<1>10. TypeOK'
  BY <1>1, <1>3, <1>5, <1>6, <1>7, <1>8, <1>9, Zenon DEF TypeOK, HandlerType, TxType, PcType
<1>11. Stages'
  BY <1>2, <1>3, <1>7, StagesKept, Zenon
<1>12. Objects'
  BY <1>1, <1>5, <1>7, HandlersReleased, Zenon
<1>13. Pinned'
  BY <1>1, <1>3, <1>4, <1>7 DEF Pinned
<1> QED
  BY <1>8, <1>10, <1>11, <1>12, <1>13, Zenon DEF PinInv

\* Insert()
LEMMA WriteRowPins ==
  ASSUME PinInv, NEW s \in Sessions, NEW h \in Handlers, write_row(s, h)
  PROVE  PinInv'
<1>1. TypeOK /\ ReadersExact /\ Stages /\ Objects /\ Pinned
  BY Zenon DEF PinInv
<1>2. /\ tx \in [Sessions -> TxType] /\ tx[s] \in TxType
      /\ handler[h] \in HandlerType
  BY <1>1, Zenon DEF TypeOK, TxType, HandlerType
<1>3. Maintained(s, h) \subseteq Index
  <2>1. handler[h].schema.keys \subseteq Index /\ tx[s].dirty_index_names \subseteq Index
    BY <1>2, Values, Zenon DEF TxType, HandlerType
  <2> QED
    BY <2>1, Zenon DEF Maintained
<1>4. [tx[s] EXCEPT !.writes = @ \cup {Maintained(s, h)}] \in TxType
  BY <1>2, <1>3 DEF TxType
<1>5. tx' \in [Sessions -> TxType]
  BY <1>2, <1>4, Zenon DEF write_row
<1>6. \A q \in Sessions : /\ tx'[q].cached = tx[q].cached /\ tx'[q].disc = tx[q].disc
                          /\ tx'[q].disc_dirty = tx[q].disc_dirty
  BY <1>2, Zenon DEF write_row, TxType
<1>7. UNCHANGED << catalog, ddl, rlock, readers, share, handler, mdl, pc, rows >>
  BY Zenon DEF write_row
<1>8. TypeOK'
  BY <1>1, <1>5, <1>7, Zenon DEF TypeOK, TxType
<1>9. ReadersExact'
  BY <1>1, <1>6, <1>7, ReadersKept, Zenon
<1>10. Stages' /\ Objects'
  BY <1>1, <1>7, Zenon DEF Stages, Objects
<1>11. Pinned'
  BY <1>1, <1>6, <1>7, ZenonT(40) DEF Pinned
<1> QED
  BY <1>8, <1>9, <1>10, <1>11, Zenon DEF PinInv

\* close_thread_tables()
LEMMA EndStatementPins ==
  ASSUME PinInv, NEW s \in Sessions, end_statement(s)
  PROVE  PinInv'
<1>1. TypeOK /\ ReadersExact /\ Stages /\ Objects /\ Pinned
  BY Zenon DEF PinInv
<1>2. ddl.by # s
  BY ChangerBusy, Zenon DEF end_statement, DdlOps
<1>3. pc \in [Sessions -> PcType] /\ ddl.by \in Sessions \cup {Nobody}
  BY <1>1, Zenon DEF TypeOK, PcType
<1>4. /\ handler' \in [Handlers -> HandlerType]
      /\ \A h \in Handlers : handler'[h].cntl \in {0, handler[h].cntl}
  BY <1>1, FreeHandlersFacts, Zenon DEF end_statement
<1>5. /\ pc' \in [Sessions -> PcType]
      /\ \A q \in Sessions \ {s} : pc'[q] = pc[q]
      /\ pc[s] # "altered"
  BY <1>3, Zenon DEF end_statement, PcType
<1>6. UNCHANGED << catalog, ddl, rlock, readers, share, tx, mdl, rows >>
  BY Zenon DEF end_statement
<1>7. TypeOK'
  BY <1>1, <1>4, <1>5, <1>6, Zenon DEF TypeOK, HandlerType, PcType
<1>8. ReadersExact'
  BY <1>1, <1>6, ReadersKept, Zenon
<1>9. Stages'
  BY <1>2, <1>3, <1>5, <1>6, StagesKept, Zenon
<1>10. Objects'
  BY <1>1, <1>4, <1>6, HandlersReleased, Zenon
<1>11. Pinned'
  BY <1>1, <1>5, <1>6, Zenon DEF Pinned
<1> QED
  BY <1>7, <1>8, <1>9, <1>10, <1>11, Zenon DEF PinInv

\* The beginning of a statement that changes the schema.
LEMMA ChangeBeginsPins ==
  ASSUME PinInv, NEW s \in Sessions, NEW op \in DdlOps, pc[s] \notin DdlPcs,
         ClearSchemaReader(s), pc' = [pc EXCEPT ![s] = op],
         share' \in [Nodes -> Schema],
         UNCHANGED handler \/ CloseHandlers(NodeOf[s]),
         UNCHANGED << catalog, ddl, rlock, mdl, rows >>
  PROVE  PinInv'
<1>1. TypeOK /\ ReadersExact /\ Stages /\ Objects /\ Pinned
  BY Zenon DEF PinInv
<1>2. ddl.by # s
  BY ChangerBusy, Zenon DEF DdlPcs
<1>3. /\ tx \in [Sessions -> TxType] /\ tx[s] \in TxType
      /\ pc \in [Sessions -> PcType]
      /\ NodeOf[s] \in Nodes /\ ddl.by \in Sessions \cup {Nobody}
      /\ handler \in [Handlers -> HandlerType]
  BY <1>1, SchemaAssumption, Zenon DEF TypeOK, TxType, PcType, HandlerType
<1>4. [tx[s] EXCEPT !.open = TRUE, !.cached = NoSchema] \in TxType
  BY <1>3, Values, Zenon DEF TxType
<1>5. tx' \in [Sessions -> TxType]
  BY <1>3, <1>4, Zenon DEF ClearSchemaReader
<1>6. /\ tx'[s].cached = NoSchema /\ tx'[s].disc = tx[s].disc
      /\ tx'[s].disc_dirty = tx[s].disc_dirty
      /\ \A q \in Sessions \ {s} : tx'[q] = tx[q]
  BY <1>3, Zenon DEF ClearSchemaReader, TxType
<1>7. ReadersExact' /\ readers' \in [Nodes -> Nat]
  BY <1>1, <1>6, ReaderLeaves, Zenon DEF ClearSchemaReader
<1>8. /\ handler' \in [Handlers -> HandlerType]
      /\ \A h \in Handlers : handler'[h].cntl \in {0, handler[h].cntl}
  BY <1>1, <1>3, CloseHandlersFacts, Zenon
<1>9. /\ pc' \in [Sessions -> PcType]
      /\ \A q \in Sessions \ {s} : pc'[q] = pc[q]
      /\ pc[s] # "altered"
  BY <1>3, Zenon DEF PcType, DdlPcs
<1>10. TypeOK'
  BY <1>1, <1>5, <1>7, <1>8, <1>9, Zenon DEF TypeOK, HandlerType, TxType, PcType
<1>11. Stages'
  BY <1>2, <1>3, <1>9, StagesKept, Zenon
<1>12. Objects'
  BY <1>1, <1>8, HandlersReleased, Zenon
<1>13. Pinned'
  BY <1>1, <1>6, <1>9 DEF Pinned
<1> QED
  BY <1>7, <1>10, <1>11, <1>12, <1>13, Zenon DEF PinInv

\* The type of the catalog entry and of the schema change.
CatalogType == [schema : Schema, dirty : Schema, cntl : Nat, open : BOOLEAN, last : 0 .. MaxVer]
DdlType == [phase : {"none", "lock", "dirty", "built", "relock"}, by : Sessions \cup {Nobody},
            op : DdlOps \cup {"none"}, new : Schema]

\* The schema that a statement asks for is one.
LEMMA NewSchemaType ==
  ASSUME TypeOK, NEW s \in Sessions, catalog.last < MaxVer
  PROVE  /\ NewSchema(s) \in Schema
         /\ NewSchema(s) # NoSchema => NewSchema(s).ver = catalog.last + 1
<1>1. catalog.last \in 0 .. MaxVer /\ catalog.last + 1 \in 1 .. MaxVer /\ catalog.last + 1 \in Index
  BY SchemaAssumption DEF TypeOK, Index
<1>2. \A h \in Handlers : handler[h].share.keys \subseteq Index
  BY Values, ZenonT(40) DEF TypeOK
<1>3. \A K \in SUBSET Index : [ver |-> catalog.last + 1, keys |-> K] \in Schema
  BY <1>1, Zenon DEF Schema
<1>4. {catalog.last + 1} \cup
        UNION {handler[h].share.keys : h \in {g \in Handlers : handler[g].user = s}} \in SUBSET Index
  BY <1>1, <1>2, Zenon
<1>5. {catalog.last + 1} \in SUBSET Index
  BY <1>1, Zenon
<1>6. CASE pc[s] = "create_index"
  BY <1>3, <1>4, <1>6, Zenon DEF NewSchema
<1>7. CASE pc[s] = "create_table"
  BY <1>3, <1>5, <1>7, Zenon DEF NewSchema
<1>8. CASE pc[s] \notin {"create_index", "create_table"}
  BY <1>8, Values, Zenon DEF NewSchema
<1> QED
  BY <1>6, <1>7, <1>8, Zenon

\* The request.
LEMMA UpsertTablePins ==
  ASSUME PinInv, NEW s \in Sessions, upsert_table(s)
  PROVE  PinInv'
<1>1. TypeOK /\ ReadersExact /\ Stages /\ Objects /\ Pinned
  BY Zenon DEF PinInv
<1>2. UNCHANGED << rlock, readers, share, handler, tx, mdl, pc, rows >>
  BY Zenon DEF upsert_table
<1>3. catalog \in CatalogType /\ ddl \in DdlType /\ ddl = NoDdl /\ catalog.dirty = NoSchema
  BY <1>1, Zenon DEF TypeOK, CatalogType, DdlType, Stages, upsert_table
<1>4. NewSchema(s) \in Schema /\ catalog.last + 1 \in 0 .. MaxVer
  BY <1>1, <1>3, NewSchemaType, SchemaAssumption DEF upsert_table, CatalogType
<1>5. /\ catalog' \in CatalogType /\ catalog'.schema = catalog.schema
      /\ catalog'.dirty = catalog.dirty /\ catalog'.cntl = catalog.cntl /\ ~ catalog'.open
  BY <1>3, <1>4, Zenon DEF upsert_table, CatalogType
<1>6. /\ ddl' \in DdlType /\ ddl'.phase = "lock" /\ ddl'.by = s /\ ddl'.op = pc[s]
      /\ pc[s] \in DdlOps
  BY <1>4, Zenon DEF upsert_table, DdlType
<1>7. TypeOK'
  BY <1>1, <1>2, <1>5, <1>6, Zenon DEF TypeOK, CatalogType, DdlType
<1>8. ReadersExact'
  BY <1>1, <1>2, ReadersKept, Zenon
<1>9. Stages'
  BY <1>2, <1>3, <1>5, <1>6, Zenon DEF Stages, upsert_table
<1>10. Objects'
  BY <1>1, <1>2, <1>5, Zenon DEF Objects
<1>11. Pinned'
  <2>1. \A q \in Sessions : ddl.by # q
    BY <1>3, SchemaAssumption, Zenon DEF NoDdl
  <2> QED
    BY <1>1, <1>2, <1>3, <1>5, <1>6, <2>1, Zenon DEF Pinned
<1> QED
  BY <1>7, <1>8, <1>9, <1>10, <1>11, Zenon DEF PinInv

LEMMA InstallDirtyPins ==
  ASSUME PinInv, install_dirty
  PROVE  PinInv'
<1>1. TypeOK /\ ReadersExact /\ Stages /\ Objects /\ Pinned
  BY Zenon DEF PinInv
<1>2. UNCHANGED << rlock, readers, share, handler, tx, mdl, pc, rows >> /\ WriteLock
  BY Zenon DEF install_dirty
<1>3. catalog \in CatalogType /\ ddl \in DdlType
  BY <1>1, Zenon DEF TypeOK, CatalogType, DdlType
<1>4. /\ catalog' \in CatalogType /\ catalog'.schema = catalog.schema
      /\ catalog'.dirty = ddl.new /\ catalog'.cntl = catalog.cntl /\ catalog'.open = catalog.open
  BY <1>3, Zenon DEF install_dirty, CatalogType, DdlType
<1>5. /\ ddl' \in DdlType /\ ddl'.phase = "dirty" /\ ddl'.by = ddl.by /\ ddl'.op = ddl.op
      /\ ddl'.new = ddl.new /\ ddl.phase = "lock" /\ ddl.op = "create_index"
  BY <1>3, Zenon DEF install_dirty, DdlType
<1>6. TypeOK'
  BY <1>1, <1>2, <1>4, <1>5, Zenon DEF TypeOK, CatalogType, DdlType
<1>7. ReadersExact'
  BY <1>1, <1>2, ReadersKept, Zenon
<1>8. Stages'
  BY <1>1, <1>2, <1>4, <1>5, Zenon DEF Stages
<1>9. Objects'
  BY <1>1, <1>2, <1>4, Zenon DEF Objects
<1>10. \A q \in Sessions : tx[q].cached = NoSchema /\ (q \in rlock => ddl.by = q)
  BY <1>1, <1>2, WriteLockAlone, Zenon
<1>11. Pinned'
  BY <1>1, <1>2, <1>4, <1>5, <1>10, Zenon DEF Pinned
<1> QED
  BY <1>6, <1>7, <1>8, <1>9, <1>11, Zenon DEF PinInv

LEMMA BuildPins ==
  ASSUME PinInv, build_index \/ relock
  PROVE  PinInv'
<1>1. TypeOK /\ ReadersExact /\ Stages /\ Objects /\ Pinned
  BY Zenon DEF PinInv
<1>2. UNCHANGED << catalog, rlock, readers, share, handler, tx, mdl, pc >>
  BY Zenon DEF build_index, relock
<1>3. ddl \in DdlType /\ catalog \in CatalogType /\ rows \subseteq SUBSET Index
  BY <1>1, Zenon DEF TypeOK, DdlType, CatalogType
<1>4. /\ ddl' \in DdlType /\ ddl'.by = ddl.by /\ ddl'.op = ddl.op /\ ddl'.new = ddl.new
      /\ ddl.phase \in {"dirty", "built"} /\ ddl'.phase \in {"built", "relock"}
  BY <1>3, Zenon DEF build_index, relock, DdlType
<1>5. rows' \subseteq SUBSET Index
  <2>1. DirtyIndexNames \subseteq Index
    BY <1>3, Values, Zenon DEF DirtyIndexNames, CatalogType
  <2> QED
    BY <1>3, <2>1 DEF build_index, relock
<1>6. TypeOK'
  BY <1>1, <1>2, <1>4, <1>5, Zenon DEF TypeOK, DdlType
<1>7. ReadersExact'
  BY <1>1, <1>2, ReadersKept, Zenon
<1>8. Stages'
  BY <1>1, <1>2, <1>4, Zenon DEF Stages
<1>9. Objects' /\ Pinned'
  BY <1>1, <1>2, <1>4, Zenon DEF Objects, Pinned
<1> QED
  BY <1>6, <1>7, <1>8, <1>9, Zenon DEF PinInv

\* The SQL layer forgets the definition.
LEMMA FlushLocalFacts ==
  ASSUME TypeOK, NEW s \in Sessions, FlushLocal(s)
  PROVE  /\ pc' \in [Sessions -> PcType] /\ share' \in [Nodes -> Schema]
         /\ pc'[s] = "altered" /\ \A q \in Sessions \ {s} : pc'[q] = pc[q]
         /\ handler' \in [Handlers -> HandlerType]
         /\ \A h \in Handlers : handler'[h].cntl \in {0, handler[h].cntl}
<1>1. pc \in [Sessions -> PcType] /\ share \in [Nodes -> Schema] /\ NodeOf[s] \in Nodes
  BY SchemaAssumption, Zenon DEF TypeOK, PcType
<1>2. /\ handler' \in [Handlers -> HandlerType]
      /\ \A h \in Handlers : handler'[h].cntl \in {0, handler[h].cntl}
  BY <1>1, CloseHandlersFacts, Zenon DEF FlushLocal
<1>3. pc' \in [Sessions -> PcType]
  BY <1>1, Zenon DEF FlushLocal, PcType, DdlPcs
<1>4. share' \in [Nodes -> Schema]
  BY <1>1, Values, Zenon DEF FlushLocal
<1> QED
  BY <1>1, <1>2, <1>3, <1>4, Zenon DEF FlushLocal

LEMMA UpsertDonePins ==
  ASSUME PinInv, upsert_done
  PROVE  PinInv'
<1>1. TypeOK /\ ReadersExact /\ Stages /\ Objects /\ Pinned
  BY Zenon DEF PinInv
<1>2. UNCHANGED << rlock, readers, tx, mdl >> /\ WriteLock /\ StatementOver
  BY Zenon DEF upsert_done
<1>3. catalog \in CatalogType /\ ddl \in DdlType /\ NoSchema \in Schema
  BY <1>1, Values, Zenon DEF TypeOK, CatalogType, DdlType
<1>4. /\ catalog' \in CatalogType /\ catalog'.schema = ddl.new
      /\ catalog'.dirty = NoSchema /\ catalog'.cntl = catalog.cntl + 1
  <2>1. PICK c \in Nat : c = catalog.cntl + 1
    BY <1>3 DEF CatalogType
  <2>2. catalog' = [catalog EXCEPT !.schema = ddl.new, !.dirty = NoSchema, !.cntl = c, !.open = TRUE]
    BY <2>1, Zenon DEF upsert_done
  <2>3. ddl.new \in Schema
    BY <1>3, Zenon DEF DdlType
  <2> QED
    BY <1>3, <2>1, <2>2, <2>3, Zenon DEF CatalogType
<1>5. ddl' = NoDdl /\ ddl' \in DdlType /\ ddl'.phase = "none"
  BY <1>3, Zenon DEF upsert_done, DdlType, NoDdl
<1>6. rows' \subseteq SUBSET Index
  BY <1>1, Zenon DEF upsert_done, TypeOK
<1>7. /\ pc' \in [Sessions -> PcType] /\ share' \in [Nodes -> Schema]
      /\ handler' \in [Handlers -> HandlerType]
      /\ \A h \in Handlers : handler'[h].cntl \in {0, handler[h].cntl}
      /\ ddl.by # Nobody => pc'[ddl.by] = "altered"
  <2>1. CASE ddl.by = Nobody
    BY <1>1, <1>2, <2>1, Zenon DEF StatementOver, TypeOK, PcType, HandlerType
  <2>2. CASE ddl.by \in Sessions
    <3>1. FlushLocal(ddl.by)
      BY <1>2, <2>2, SchemaAssumption, Zenon DEF StatementOver
    <3> QED
      BY <1>1, <2>2, <3>1, FlushLocalFacts, Zenon
  <2> QED
    BY <1>3, <2>1, <2>2, Zenon DEF DdlType
<1>8. TypeOK'
  BY <1>1, <1>2, <1>4, <1>5, <1>6, <1>7, Zenon DEF TypeOK, CatalogType, DdlType, PcType, HandlerType
<1>9. ReadersExact'
  BY <1>1, <1>2, ReadersKept, Zenon
<1>10. Stages'
  BY <1>4, <1>5, Zenon DEF Stages
<1>11. Objects'
  <2>1. \A h \in Handlers : handler[h].cntl \in Nat
    BY <1>1, Zenon DEF TypeOK
  <2>2. catalog.cntl \in Nat
    BY <1>3, Zenon DEF CatalogType
  <2> QED
    BY <1>1, <1>4, <1>7, <2>1, <2>2 DEF Objects
<1>12. \A q \in Sessions : tx[q].cached = NoSchema /\ (q \in rlock => ddl.by = q)
  BY <1>1, <1>2, WriteLockAlone, Zenon
<1>13. Pinned'
  <2>1. \A q \in Sessions : q \in rlock => pc'[q] = "altered"
    BY <1>7, <1>12, SchemaAssumption, Zenon
  <2> QED
    BY <1>1, <1>2, <1>12, <2>1, Zenon DEF Pinned
<1> QED
  BY <1>8, <1>9, <1>10, <1>11, <1>13, Zenon DEF PinInv

\* A change that fails before it has the write lock, or while it holds it.
LEMMA UpsertFailedPins ==
  ASSUME PinInv, upsert_failed
  PROVE  PinInv'
<1>1. TypeOK /\ ReadersExact /\ Stages /\ Objects /\ Pinned
  BY Zenon DEF PinInv
<1>2. UNCHANGED << rlock, readers, share, handler, tx, mdl >>
  BY Zenon DEF upsert_failed
<1>3. catalog \in CatalogType /\ ddl \in DdlType /\ NoSchema \in Schema /\ ddl.by \in Sessions
  BY <1>1, Values, Zenon DEF TypeOK, CatalogType, DdlType, upsert_failed
<1>4. /\ catalog' \in CatalogType /\ catalog'.schema = catalog.schema
      /\ catalog'.dirty = NoSchema /\ catalog'.cntl = catalog.cntl + 1
  <2>1. PICK c \in Nat : c = catalog.cntl + 1
    BY <1>3 DEF CatalogType
  <2>2. catalog' = [catalog EXCEPT !.dirty = NoSchema, !.cntl = c, !.open = TRUE]
    BY <2>1, Zenon DEF upsert_failed
  <2> QED
    BY <1>3, <2>1, <2>2, Zenon DEF CatalogType
<1>5. /\ ddl' = NoDdl /\ ddl' \in DdlType /\ ddl'.phase = "none"
      /\ \A q \in Sessions : ddl'.by # q
  BY <1>3, SchemaAssumption, Zenon DEF upsert_failed, DdlType, NoDdl
<1>6. rows' \subseteq SUBSET Index
  BY <1>1 DEF upsert_failed, TypeOK
<1>7. /\ pc' \in [Sessions -> PcType]
      /\ \A q \in Sessions \ {ddl.by} : pc'[q] = pc[q]
      /\ pc[ddl.by] # "altered"
  BY <1>1, <1>3, SchemaAssumption, Zenon DEF upsert_failed, TypeOK, PcType, Stages, DdlOps
<1>8. TypeOK'
  BY <1>1, <1>2, <1>4, <1>5, <1>6, <1>7, Zenon DEF TypeOK, CatalogType, DdlType, PcType
<1>9. ReadersExact'
  BY <1>1, <1>2, ReadersKept, Zenon
<1>10. Stages'
  BY <1>4, <1>5, Zenon DEF Stages
<1>11. Objects'
  <2>1. \A h \in Handlers : handler[h].cntl \in Nat
    BY <1>1, Zenon DEF TypeOK
  <2>2. catalog.cntl \in Nat
    BY <1>3, Zenon DEF CatalogType
  <2> QED
    BY <1>1, <1>2, <1>4, <2>1, <2>2, SMTT(60) DEF Objects
<1>12. Pinned'
  <2>1. CASE ddl.phase = "lock"
    <3>1. catalog.dirty = NoSchema
      BY <1>1, <2>1, Zenon DEF Stages
    <3> QED
      BY <1>1, <1>2, <1>4, <1>5, <1>7, <3>1, ZenonT(40) DEF Pinned
  <2>2. CASE WriteLock
    <3>1. \A q \in Sessions : tx[q].cached = NoSchema /\ (q \in rlock => ddl.by = q)
      BY <1>1, <2>2, WriteLockAlone, Zenon
    <3> QED
      BY <1>1, <1>2, <1>4, <1>5, <1>7, <3>1, ZenonT(40) DEF Pinned
  <2> QED
    BY <2>1, <2>2, Zenon DEF upsert_failed
<1> QED
  BY <1>8, <1>9, <1>10, <1>11, <1>12, Zenon DEF PinInv

\* The change goes on without its statement.
LEMMA UpsertUnverifiedPins ==
  ASSUME PinInv, upsert_unverified
  PROVE  PinInv'
<1>1. TypeOK /\ ReadersExact /\ Stages /\ Objects /\ Pinned
  BY Zenon DEF PinInv
<1>2. UNCHANGED << catalog, rlock, readers, tx, mdl, rows >> /\ FlushLocal(ddl.by)
  BY Zenon DEF upsert_unverified
<1>3. ddl \in DdlType /\ ddl.by \in Sessions
  BY <1>1, Zenon DEF TypeOK, DdlType, upsert_unverified
<1>4. /\ ddl' \in DdlType /\ ddl'.phase = ddl.phase /\ ddl'.op = ddl.op /\ ddl'.new = ddl.new
      /\ ddl'.by = Nobody /\ ddl.phase # "none"
  BY <1>3, Zenon DEF upsert_unverified, DdlType
<1>5. /\ pc' \in [Sessions -> PcType] /\ share' \in [Nodes -> Schema]
      /\ pc'[ddl.by] = "altered" /\ \A q \in Sessions \ {ddl.by} : pc'[q] = pc[q]
      /\ handler' \in [Handlers -> HandlerType]
      /\ \A h \in Handlers : handler'[h].cntl \in {0, handler[h].cntl}
  BY <1>1, <1>2, <1>3, FlushLocalFacts, Zenon
<1>6. TypeOK'
  BY <1>1, <1>2, <1>4, <1>5, Zenon DEF TypeOK, DdlType, PcType, HandlerType
<1>7. ReadersExact'
  BY <1>1, <1>2, ReadersKept, Zenon
<1>8. Stages'
  BY <1>1, <1>2, <1>4, Zenon DEF Stages
<1>9. Objects'
  BY <1>1, <1>2, <1>5, HandlersReleased, Zenon
<1>10. Pinned'
  BY <1>1, <1>2, <1>4, <1>5, SchemaAssumption, ZenonT(40) DEF Pinned
<1> QED
  BY <1>6, <1>7, <1>8, <1>9, <1>10, Zenon DEF PinInv

-----------------------------------------------------------------------------
(* The theorems.                                                           *)

LEMMA PinInit ==
  ASSUME Init
  PROVE  PinInv
<1>1. PICK schema \in {NoSchema, FirstSchema} :
        /\ catalog = [schema |-> schema, dirty |-> NoSchema, cntl |-> 1, open |-> TRUE,
                      last |-> schema.ver]
        /\ share = [n \in Nodes |-> schema]
        /\ handler = [h \in Handlers |-> [Closed EXCEPT !.share = schema]]
        /\ ddl = NoDdl /\ rlock = {} /\ readers = [n \in Nodes |-> 0]
        /\ tx = [s \in Sessions |-> NoTx] /\ mdl = {} /\ rows = {}
        /\ pc = [s \in Sessions |-> "idle"]
  BY Zenon DEF Init
<1>2. schema \in Schema /\ NoSchema \in Schema /\ schema.ver \in 0 .. MaxVer
  <2>1. FirstSchema \in Schema
    BY SchemaAssumption DEF FirstSchema, Schema, Index
  <2> QED
    BY <2>1, Values, Zenon
<1>3. [Closed EXCEPT !.share = schema] \in HandlerType
      /\ [Closed EXCEPT !.share = schema].cntl = 0
  BY <1>2, Values, Zenon DEF Closed, HandlerType
<1>4. handler \in [Handlers -> HandlerType] /\ \A h \in Handlers : handler[h].cntl = 0
  BY <1>1, <1>3, Zenon
<1>5. tx \in [Sessions -> TxType]
      /\ \A s \in Sessions : tx[s].cached = NoSchema /\ tx[s].disc = NoSchema
  BY <1>1, Values, Zenon DEF NoTx
<1>6. catalog \in CatalogType /\ catalog.cntl = 1
  BY <1>1, <1>2, Zenon DEF CatalogType
<1>7. ddl \in DdlType
  BY <1>1, <1>2, Zenon DEF DdlType, NoDdl
<1>8. TypeOK
  BY <1>1, <1>2, <1>4, <1>5, <1>6, <1>7, Zenon DEF TypeOK, CatalogType, DdlType, HandlerType, TxType
<1>9. ReadersExact
  <2>1. \A n \in Nodes : {s \in Sessions : NodeOf[s] = n /\ tx[s].cached # NoSchema} = {}
    BY <1>5, Zenon
  <2>2. Cardinality({}) = 0
    BY FS_EmptySet, Zenon
  <2> QED
    BY <1>1, <2>1, <2>2, Zenon DEF ReadersExact
<1>10. Stages
  BY <1>1, Zenon DEF Stages, NoDdl
<1>11. Objects /\ Pinned
  BY <1>4, <1>5, <1>6 DEF Objects, Pinned
<1> QED
  BY <1>8, <1>9, <1>10, <1>11, Zenon DEF PinInv

LEMMA PinStutter ==
  ASSUME PinInv, UNCHANGED vars
  PROVE  PinInv'
<1>1. ReadersExact'
  BY ReadersKept, Zenon DEF PinInv, vars
<1>2. TypeOK' /\ Stages' /\ Objects' /\ Pinned'
  BY Zenon DEF PinInv, TypeOK, Stages, Objects, Pinned, vars
<1> QED
  BY <1>1, <1>2, Zenon DEF PinInv

LEMMA PinNext ==
  ASSUME PinInv, [Next]_vars
  PROVE  PinInv'
<1>1. TypeOK
  BY Zenon DEF PinInv
<1>2. \A h \in Handlers : handler[h].share \in Schema
  BY <1>1, Zenon DEF TypeOK
<1>3. \A s \in Sessions : share[NodeOf[s]] \in Schema /\ NodeOf[s] \in Nodes
  BY <1>1, SchemaAssumption, Zenon DEF TypeOK
<1>4. Changers \subseteq Sessions /\ Writers \subseteq Sessions
  BY SchemaAssumption, Zenon
<1>5. ASSUME NEW s \in Sessions, NEW h \in Handlers, open_cached(s, h)
      PROVE  PinInv'
  <2>1. Opening(s) /\ DiscoverTableSchema(s, h, handler[h].share, TRUE) /\ TRUE \in BOOLEAN
    BY <1>5, Zenon DEF open_cached
  <2> QED
    BY <1>2, <2>1, DiscoverPins, Zenon
<1>6. ASSUME NEW s \in Sessions, NEW h \in Handlers, open(s, h)
      PROVE  PinInv'
  <2>1. Opening(s) /\ DiscoverTableSchema(s, h, share[NodeOf[s]], FALSE) /\ FALSE \in BOOLEAN
    BY <1>6, Zenon DEF open
  <2> QED
    BY <1>3, <2>1, DiscoverPins, Zenon
<1>7. ASSUME NEW s \in Sessions, load_share(s) \/ rediscover(s)
      PROVE  PinInv'
  <2>1. /\ eloq_discover_table(s) /\ pc[s] \notin DdlPcs
        /\ UNCHANGED handler \/ CloseHandlers(NodeOf[s])
    BY <1>7, Zenon DEF load_share, rediscover, Opening, DdlPcs, DdlOps
  <2> QED
    BY <2>1, LoadPins, Zenon
<1>8. ASSUME NEW s \in Sessions, eloq_commit(s) \/ eloq_rollback(s)
      PROVE  PinInv'
  <2>1. /\ EndTx(s) /\ mdl' \subseteq mdl /\ UNCHANGED handler
        /\ rows' \in {rows, rows \cup tx[s].writes} /\ pc[s] \in {"idle", "altered"}
    BY <1>8, Zenon DEF eloq_commit, eloq_rollback
  <2>2. ddl.by # s
    BY <2>1, ChangerBusy, Zenon DEF DdlOps
  <2> QED
    BY <2>1, <2>2, EndTxPins, Zenon
<1>9. ASSUME NEW s \in Sessions, rollback_statement(s)
      PROVE  PinInv'
  <2>1. /\ EndTx(s) /\ mdl' \subseteq mdl /\ handler' = FreeHandlers(s) /\ ddl.by # s
        /\ rows' \in {rows, rows \cup tx[s].writes}
    BY <1>9, Zenon DEF rollback_statement
  <2> QED
    BY <2>1, EndTxPins, Zenon
<1>10. ASSUME NEW s \in Sessions, inplace_alter_table(s) \/ create(s)
       PROVE  PinInv'
  <2>1. /\ ClearSchemaReader(s) /\ pc[s] \notin DdlPcs
        /\ UNCHANGED << catalog, ddl, rlock, mdl, rows >> /\ UNCHANGED handler
        /\ share' \in [Nodes -> Schema]
    BY <1>1, <1>10, Zenon DEF inplace_alter_table, create, TypeOK, DdlPcs, DdlOps
  <2>2. PICK op \in DdlOps : pc' = [pc EXCEPT ![s] = op]
    BY <1>10, Zenon DEF inplace_alter_table, create, DdlOps
  <2> QED
    BY <2>1, <2>2, ChangeBeginsPins, Zenon
<1>11. ASSUME NEW s \in Sessions, delete_table(s)
       PROVE  PinInv'
  <2>1. share' \in [Nodes -> Schema]
    BY <1>1, <1>3, <1>11, Values, Zenon DEF delete_table, TypeOK
  <2>2. /\ ClearSchemaReader(s) /\ pc[s] \notin DdlPcs
        /\ UNCHANGED << catalog, ddl, rlock, mdl, rows >> /\ CloseHandlers(NodeOf[s])
        /\ pc' = [pc EXCEPT ![s] = "drop_table"]
    BY <1>11, Zenon DEF delete_table, DdlPcs, DdlOps
  <2>3. "drop_table" \in DdlOps
    BY Zenon DEF DdlOps
  <2> QED
    BY <2>1, <2>2, <2>3, ChangeBeginsPins, Zenon
<1>12. CASE Next
  <2>1. CASE \E s \in Sessions : OpenTable(s) \/ EndStatement(s) \/ EndTransaction(s)
    BY <1>5, <1>6, <1>7, <1>8, <1>9, <2>1, EndStatementPins, Zenon DEF OpenTable, EndStatement,
       EndTransaction
  <2>2. CASE \E s \in Writers, h \in Handlers : write_row(s, h)
    BY <1>4, <2>2, WriteRowPins, Zenon
  <2>3. CASE \E s \in Changers :
               inplace_alter_table(s) \/ delete_table(s) \/ create(s) \/ upsert_table(s)
    BY <1>4, <1>10, <1>11, <2>3, UpsertTablePins, Zenon
  <2>4. CASE UpsertStep \/ upsert_failed \/ upsert_unverified
    BY <2>4, InstallDirtyPins, BuildPins, UpsertDonePins, UpsertFailedPins, UpsertUnverifiedPins, Zenon DEF
       UpsertStep
  <2> QED
    BY <1>12, <2>1, <2>2, <2>3, <2>4, Zenon DEF Next
<1> QED
  BY <1>12, PinStutter, Zenon

\* A transaction's pinned schema is what the property says: the session of
\* the change itself is in one of its positions.
LEMMA PinnedSchema ==
  ASSUME PinInv
  PROVE  SchemaPinned
<1>1. \A s \in Sessions : pc[s] \notin DdlPcs => ddl.by # s
  BY ChangerBusy, Zenon DEF DdlPcs
<1> QED
  BY <1>1, Zenon DEF PinInv, Pinned, SchemaPinned, DdlPcs

\* PinInv is an invariant.
THEOREM PinInvariant == Spec => []PinInv
BY PinInit, PinNext, PTL DEF Spec

\* The schema that a transaction has read, through the schema object or from
\* the catalog, stays the catalog's until the transaction ends, for any
\* number of nodes, sessions, cached handlers and versions.
THEOREM SchemaStaysPinned == Spec => []SchemaPinned
BY PinInvariant, PinnedSchema, PTL

\* AddReader() and FinishReader() balance: the readers of the schema object
\* are the transactions that have it in cached_schemas_.
THEOREM ReadersAreCounted == Spec => []ReadersExact
<1>1. PinInv => ReadersExact
  BY Zenon DEF PinInv
<1> QED
  BY <1>1, PinInvariant, PTL

-----------------------------------------------------------------------------
(* The invariant for handlers that are opened from current definitions.    *)

\* A definition in a cache: its version was used, and identifies it.
Known(d) ==
  /\ d.ver <= catalog.last
  /\ d.ver = catalog.schema.ver => d = catalog.schema
  /\ ddl.phase # "none" /\ ddl.new # NoSchema => d.ver # ddl.new.ver

Versions ==
  /\ Known(catalog.schema)
  /\ ddl.phase # "none" /\ ddl.new # NoSchema => ddl.new.ver = catalog.last
  /\ \A n \in Nodes : Known(share[n])
  /\ \A h \in Handlers : Known(handler[h].share)

\* The handler of a statement.
Uses ==
  \A s \in Sessions, h \in Handlers :
    handler[h].user = s =>
      /\ HandlerNode[h] = NodeOf[s]
      /\ pc[s] \in {"ready", "create_index", "failed"}
      /\ pc[s] = "ready" =>
           /\ tx[s].cached # NoSchema \/ tx[s].disc # NoSchema
           /\ handler[h].share = catalog.schema
           /\ handler[h].schema = catalog.schema
           /\ tx[s].dirty_index_names \subseteq handler[h].dirty.keys

\* The dirty indexes of a transaction are those of the schemas it discovered.
Names ==
  \A s \in Sessions :
    tx[s].dirty_index_names =
      IF tx[s].disc = NoSchema THEN {} ELSE tx[s].disc_dirty.keys \ tx[s].disc.keys

\* A transaction that has written has a schema and does not change it.
Writes ==
  \A s \in Sessions :
    /\ tx[s].cached # NoSchema \/ tx[s].disc # NoSchema => tx[s].open
    /\ tx[s].writes # {} =>
         /\ tx[s].cached # NoSchema \/ tx[s].disc # NoSchema
         /\ pc[s] \notin DdlPcs

Indexed == WritesMaintainIndexes /\ EveryRowIndexed

RowRest == Versions /\ Uses /\ Names /\ Writes /\ Indexed
RowInv == PinInv /\ RowRest

-----------------------------------------------------------------------------
(* Definitions, handlers and rows.                                         *)

\* No definition is known like any other.
LEMMA KnownNone ==
  ASSUME TypeOK
  PROVE  Known(NoSchema)
<1>1. NoSchema.ver = 0 /\ catalog.schema \in Schema /\ ddl.new \in Schema /\ catalog.last \in Nat
  BY SchemaAssumption DEF NoSchema, TypeOK
<1> QED
  BY <1>1, Values DEF Known

\* A write through a handler whose definition is its schema maintains every
\* index: the position of a key is smaller than the number of keys.
LEMMA AllMaintained ==
  ASSUME TypeOK, NEW s \in Sessions, NEW h \in Handlers, handler[h].share = handler[h].schema
  PROVE  handler[h].schema.keys \cup tx[s].dirty_index_names \subseteq Maintained(s, h)
<1>1. PICK K \in SUBSET Index : K = handler[h].schema.keys
  BY Values, ZenonT(40) DEF TypeOK
<1>2. IsFiniteSet(K) /\ K \subseteq Nat
  <2>1. IsFiniteSet(1 .. MaxVer)
    BY SchemaAssumption, FS_Interval
  <2>2. K \in SUBSET (1 .. MaxVer)
    BY Zenon DEF Index
  <2>3. IsFiniteSet(K)
    BY <2>1, <2>2, FS_Subset, Zenon
  <2> QED
    BY <2>2, <2>3, SchemaAssumption
<1>3. ASSUME NEW i \in K
      PROVE  Cardinality({j \in K : j < i}) < Cardinality(K)
  <2>1. {j \in K : j < i} \subseteq K \ {i}
    BY <1>2
  <2>2. IsFiniteSet(K \ {i}) /\ Cardinality(K \ {i}) = Cardinality(K) - 1
    BY <1>2, FS_RemoveElement, Zenon
  <2>3. IsFiniteSet({j \in K : j < i}) /\ Cardinality({j \in K : j < i}) <= Cardinality(K \ {i})
    BY <2>1, <2>2, FS_Subset, Zenon
  <2>4. Cardinality(K) \in Nat /\ Cardinality({j \in K : j < i}) \in Nat
    BY <1>2, <2>3, FS_CardinalityType, Zenon
  <2> QED
    BY <2>2, <2>3, <2>4
<1> QED
  BY <1>1, <1>3, Zenon DEF Maintained

\* The handler that a discovery binds to the session has the catalog's schema
\* and definition.
LEMMA BindUses ==
  ASSUME TypeOK, NEW s \in Sessions, NEW h \in Handlers, NEW d \in Schema, NEW c \in Nat,
         NEW schema \in Schema, NEW dirty \in Schema, NEW check \in BOOLEAN,
         Bind(s, h, d, c, schema, dirty, check),
         schema # NoSchema => schema = catalog.schema,
         Known(d), check \/ d = catalog.schema
  PROVE  /\ handler'[h].user \in {s, Nobody}
         /\ handler'[h].share \in {d, NoSchema}
         /\ handler'[h].user = s =>
              /\ schema # NoSchema /\ pc'[s] = "ready"
              /\ handler'[h].share = catalog.schema /\ handler'[h].schema = catalog.schema
              /\ handler'[h].dirty = dirty
<1>1. s # Nobody
  BY SchemaAssumption, Zenon
<1>2. h \in DOMAIN handler /\ s \in DOMAIN pc
  BY Zenon DEF TypeOK
<1>3. CASE schema # NoSchema /\ ~ (check /\ d.ver # schema.ver)
  <2>1. handler'[h] = [share |-> d, cntl |-> c, schema |-> schema, dirty |-> dirty, user |-> s]
    BY <1>2, <1>3, Zenon DEF Bind
  <2>2. d = catalog.schema /\ pc'[s] = "ready"
    BY <1>2, <1>3, Zenon DEF Known, Bind
  <2> QED
    BY <1>3, <2>1, <2>2
<1>4. CASE schema = NoSchema \/ (check /\ d.ver # schema.ver)
  <2>1. CASE check
    <3>1. PICK k : handler'[h] = [Closed EXCEPT !.share = d, !.cntl = k]
      BY <1>2, <1>4, <2>1, Zenon DEF Bind
    <3>2. [Closed EXCEPT !.share = d, !.cntl = k].user = Nobody
          /\ [Closed EXCEPT !.share = d, !.cntl = k].share = d
      BY Zenon DEF Closed
    <3> QED
      BY <1>1, <3>1, <3>2, Zenon
  <2>2. CASE ~ check
    <3>1. handler'[h] = Closed
      BY <1>2, <1>4, <2>2, Zenon DEF Bind
    <3> QED
      BY <1>1, <3>1 DEF Closed
  <2> QED
    BY <2>1, <2>2, Zenon
<1> QED
  BY <1>3, <1>4, Zenon

\* Without a schema there is no dirty schema.
LEMMA DirtyHasSchema ==
  ASSUME PinInv, catalog.schema = NoSchema
  PROVE  catalog.dirty = NoSchema
<1>1. ddl.phase \in {"none", "lock", "dirty", "built", "relock"}
  BY Zenon DEF PinInv, TypeOK
<1> QED
  BY <1>1, Zenon DEF PinInv, Stages

\* The caches change, the catalog does not.
LEMMA VersionsKept ==
  ASSUME Versions, UNCHANGED << catalog, ddl >>,
         \A n \in Nodes : Known(share'[n]),
         \A h \in Handlers : Known(handler'[h].share)
  PROVE  Versions'
BY Zenon DEF Versions, Known

\* Transactions keep what they know and what they wrote.
LEMMA TxKept ==
  ASSUME Names, Writes,
         \A q \in Sessions :
           /\ tx'[q].disc = tx[q].disc /\ tx'[q].disc_dirty = tx[q].disc_dirty
           /\ tx'[q].dirty_index_names = tx[q].dirty_index_names
           /\ tx'[q].cached = tx[q].cached /\ tx'[q].writes = tx[q].writes
           /\ tx[q].open => tx'[q].open
           /\ tx[q].writes # {} /\ pc[q] \notin DdlPcs => pc'[q] \notin DdlPcs
  PROVE  Names' /\ Writes'
BY ZenonT(40) DEF Names, Writes

\* The catalog, the rows and the writes stay.
LEMMA IndexedKept ==
  ASSUME Indexed, UNCHANGED << catalog, ddl, rows >>,
         \A q \in Sessions : tx'[q].writes \subseteq tx[q].writes
  PROVE  Indexed'
BY Zenon DEF Indexed, WritesMaintainIndexes, EveryRowIndexed, DirtyIndexNames

\* Discovery binds the current schema, and changes no row.
LEMMA DiscoverRows ==
  ASSUME RowInv, NEW s \in Sessions, NEW h \in Handlers, NEW d \in Schema,
         NEW check \in BOOLEAN, Opening(s), HandlerNode[h] = NodeOf[s],
         Known(d), check \/ d = catalog.schema,
         DiscoverTableSchema(s, h, d, check)
  PROVE  RowRest'
<1>1. /\ TypeOK /\ Stages /\ Objects /\ Pinned /\ PinInv
      /\ Versions /\ Uses /\ Names /\ Writes /\ Indexed
  BY Zenon DEF RowInv, RowRest, PinInv
<1>2. ddl.by # s
  BY <1>1, ChangerBusy, Zenon DEF Opening, DdlOps
<1>3. /\ handler[h].cntl \in Nat /\ catalog.cntl \in Nat /\ catalog.schema \in Schema
      /\ catalog.dirty \in Schema /\ NoSchema \in Schema /\ 0 \in Nat
      /\ tx[s].cached \in Schema /\ tx[s].disc \in Schema /\ tx[s].disc_dirty \in Schema
      /\ tx[s] \in TxType /\ tx \in [Sessions -> TxType]
      /\ NoSchema.keys = {} /\ s # Nobody
  BY <1>1, Values, SchemaAssumption, Zenon DEF TypeOK, TxType, NoSchema
<1>4. UNCHANGED << catalog, ddl, share, rows >>
  BY Zenon DEF DiscoverTableSchema
<1>5. /\ tx[s].cached # NoSchema =>
           catalog.schema = tx[s].cached /\ catalog.dirty = NoSchema
      /\ tx[s].disc # NoSchema =>
           catalog.schema = tx[s].disc /\ tx[s].disc_dirty = catalog.dirty
  BY <1>1, <1>2, Zenon DEF Pinned, Opening
<1>6. SUFFICES
        /\ \A g \in Handlers \ {h} : handler'[g] = handler[g]
        /\ \A q \in Sessions \ {s} : pc'[q] = pc[q] /\ tx'[q] = tx[q]
        /\ pc'[s] \in {"ready", "stale", "failed"}
        /\ handler'[h].user \in {s, Nobody} /\ handler'[h].share \in {d, NoSchema}
        /\ handler'[h].user = s =>
             /\ pc'[s] = "ready"
             /\ tx'[s].cached # NoSchema \/ tx'[s].disc # NoSchema
             /\ handler'[h].share = catalog.schema /\ handler'[h].schema = catalog.schema
             /\ tx'[s].dirty_index_names \subseteq handler'[h].dirty.keys
        /\ tx'[s].dirty_index_names =
             IF tx'[s].disc = NoSchema THEN {} ELSE tx'[s].disc_dirty.keys \ tx'[s].disc.keys
        /\ tx'[s].writes = tx[s].writes
        /\ tx'[s].cached # NoSchema \/ tx'[s].disc # NoSchema => tx'[s].open
        /\ tx[s].cached # NoSchema \/ tx[s].disc # NoSchema =>
             tx'[s].cached # NoSchema \/ tx'[s].disc # NoSchema
  <2>1. \A g \in Handlers : handler[g].user # s
    BY <1>1, ZenonT(40) DEF Uses, Opening
  <2>2. Versions'
    <3>1. Known(NoSchema)
      BY <1>1, KnownNone, Zenon
    <3>2. \A g \in Handlers : Known(handler'[g].share)
      BY <1>1, <1>6, <3>1, ZenonT(40) DEF Versions
    <3>3. \A n \in Nodes : Known(share'[n])
      BY <1>1, <1>4, Zenon DEF Versions
    <3> QED
      BY <1>1, <1>4, <3>2, <3>3, VersionsKept, Zenon
  <2>3. Uses'
    <3>1. SUFFICES ASSUME NEW q \in Sessions, NEW g \in Handlers, handler'[g].user = q
                   PROVE  /\ HandlerNode[g] = NodeOf[q]
                          /\ pc'[q] \in {"ready", "create_index", "failed"}
                          /\ pc'[q] = "ready" =>
                               /\ tx'[q].cached # NoSchema \/ tx'[q].disc # NoSchema
                               /\ handler'[g].share = catalog.schema
                               /\ handler'[g].schema = catalog.schema
                               /\ tx'[q].dirty_index_names \subseteq handler'[g].dirty.keys
      BY <1>4 DEF Uses
    <3>2. CASE g = h
      <4>1. q = s
        BY <1>6, <3>1, <3>2, SchemaAssumption, ZenonT(40)
      <4> QED
        BY <1>6, <3>1, <3>2, <4>1, Zenon
    <3>3. CASE g # h
      <4>1. handler'[g] = handler[g] /\ q # s
        BY <1>6, <2>1, <3>1, <3>3, SMTT(60)
      <4>2. pc'[q] = pc[q] /\ tx'[q] = tx[q]
        BY <1>6, <4>1, Zenon
      <4> QED
        BY <1>1, <3>1, <4>1, <4>2, SMTT(60) DEF Uses
    <3> QED
      BY <3>2, <3>3, ZenonT(40)
  <2>4. Names'
    <3>1. ASSUME NEW q \in Sessions
          PROVE  tx'[q].dirty_index_names =
                   IF tx'[q].disc = NoSchema THEN {} ELSE tx'[q].disc_dirty.keys \ tx'[q].disc.keys
      <4>1. CASE q = s
        BY <1>6, <4>1, Zenon
      <4>2. CASE q # s
        <5>1. tx'[q] = tx[q]
          BY <1>6, <4>2, Zenon
        <5> QED
          BY <1>1, <5>1, ZenonT(40) DEF Names
      <4> QED
        BY <4>1, <4>2, Zenon
    <3> QED
      BY <3>1, Zenon DEF Names
  <2>5. Writes'
    BY <1>1, <1>6, ZenonT(40) DEF Writes, DdlPcs, DdlOps
  <2>6. Indexed'
    BY <1>1, <1>4, <1>6, IndexedKept, Zenon
  <2> QED
    BY <2>2, <2>3, <2>4, <2>5, <2>6, Zenon DEF RowRest
<1>7. tx[s].dirty_index_names =
        IF tx[s].disc = NoSchema THEN {} ELSE tx[s].disc_dirty.keys \ tx[s].disc.keys
  BY <1>1, Zenon DEF Names
<1>8. tx[s].cached # NoSchema \/ tx[s].disc # NoSchema => tx[s].open
  BY <1>1, Zenon DEF Writes
<1>9. CASE UseCached(s, h, d, check)
  <2>1. /\ Bind(s, h, d, handler[h].cntl, tx[s].cached, NoSchema, check)
        /\ tx' = tx /\ tx[s].cached # NoSchema
    BY <1>9, ZenonT(40) DEF UseCached
  <2>2. /\ \A g \in Handlers \ {h} : handler'[g] = handler[g]
        /\ \A q \in Sessions \ {s} : pc'[q] = pc[q]
        /\ pc'[s] \in {"ready", "stale", "failed"}
    BY <1>1, <1>3, <2>1, BindFacts, SMTT(60)
  <2>3. /\ handler'[h].user \in {s, Nobody} /\ handler'[h].share \in {d, NoSchema}
        /\ handler'[h].user = s =>
             /\ pc'[s] = "ready"
             /\ handler'[h].share = catalog.schema /\ handler'[h].schema = catalog.schema
    BY <1>1, <1>3, <1>5, <2>1, BindUses, SMTT(60)
  <2>4. tx[s].dirty_index_names = {}
    BY <1>3, <1>5, <1>7, <2>1, Zenon
  <2> QED
    BY <1>7, <1>8, <2>1, <2>2, <2>3, <2>4, Zenon
<1>10. CASE UseSchemaCntl(s, h, d, check)
  <2>1. /\ Bind(s, h, d, handler[h].cntl, catalog.schema, NoSchema, check)
        /\ tx' = [tx EXCEPT ![s].open = TRUE, ![s].cached = catalog.schema]
        /\ tx[s].cached = NoSchema
        /\ handler[h].cntl = catalog.cntl /\ catalog.open
    BY <1>10, Zenon DEF UseSchemaCntl, AddReader
  <2>2. catalog.schema # NoSchema /\ catalog.dirty = NoSchema
    BY <1>1, <2>1, Zenon DEF Objects, Stages
  <2>3. /\ tx'[s].cached = catalog.schema /\ tx'[s].disc = tx[s].disc /\ tx'[s].open
        /\ tx'[s].disc_dirty = tx[s].disc_dirty /\ tx'[s].writes = tx[s].writes
        /\ tx'[s].dirty_index_names = tx[s].dirty_index_names
        /\ \A q \in Sessions \ {s} : tx'[q] = tx[q]
    BY <1>3, <2>1, Zenon DEF TxType
  <2>4. /\ \A g \in Handlers \ {h} : handler'[g] = handler[g]
        /\ \A q \in Sessions \ {s} : pc'[q] = pc[q]
        /\ pc'[s] \in {"ready", "stale", "failed"}
    BY <1>1, <1>3, <2>1, BindFacts, SMTT(60)
  <2>5. /\ handler'[h].user \in {s, Nobody} /\ handler'[h].share \in {d, NoSchema}
        /\ handler'[h].user = s =>
             /\ pc'[s] = "ready"
             /\ handler'[h].share = catalog.schema /\ handler'[h].schema = catalog.schema
    BY <1>1, <1>3, <2>1, BindUses, SMTT(60)
  <2>6. tx[s].dirty_index_names = {}
    BY <1>3, <1>5, <1>7, <2>2, Zenon
  <2> QED
    BY <1>7, <2>2, <2>3, <2>4, <2>5, <2>6, Zenon
<1>11. CASE UseDiscovered(s, h, d, check)
  <2>1. PICK c \in Nat : c = 0
    BY <1>3, Zenon
  <2>2. /\ Bind(s, h, d, c, tx[s].disc, tx[s].disc_dirty, check)
        /\ tx' = tx /\ tx[s].disc # NoSchema
    BY <1>11, <2>1, ZenonT(40) DEF UseDiscovered
  <2>3. /\ \A g \in Handlers \ {h} : handler'[g] = handler[g]
        /\ \A q \in Sessions \ {s} : pc'[q] = pc[q]
        /\ pc'[s] \in {"ready", "stale", "failed"}
    BY <1>1, <1>3, <2>2, BindFacts, SMTT(60)
  <2>4. /\ handler'[h].user \in {s, Nobody} /\ handler'[h].share \in {d, NoSchema}
        /\ handler'[h].user = s =>
             /\ pc'[s] = "ready" /\ handler'[h].dirty = tx[s].disc_dirty
             /\ handler'[h].share = catalog.schema /\ handler'[h].schema = catalog.schema
    BY <1>1, <1>3, <1>5, <2>2, BindUses, SMTT(60)
  <2>5. tx[s].dirty_index_names \subseteq tx[s].disc_dirty.keys
    BY <1>7, Zenon
  <2> QED
    BY <1>7, <1>8, <2>2, <2>3, <2>4, <2>5, ZenonT(40)
<1>12. CASE UseCatalog(s, h, d, check)
  <2>1. /\ Bind(s, h, d, catalog.cntl, catalog.schema, catalog.dirty, check)
        /\ tx' = [tx EXCEPT ![s].open = TRUE, ![s].disc = catalog.schema,
                            ![s].disc_dirty = catalog.dirty,
                            ![s].dirty_index_names = DirtyIndexNames]
        /\ tx[s].cached = NoSchema /\ tx[s].disc = NoSchema
    BY <1>12, Zenon DEF UseCatalog
  <2>2. /\ tx'[s].cached = tx[s].cached /\ tx'[s].disc = catalog.schema /\ tx'[s].open
        /\ tx'[s].disc_dirty = catalog.dirty /\ tx'[s].writes = tx[s].writes
        /\ tx'[s].dirty_index_names = DirtyIndexNames
        /\ \A q \in Sessions \ {s} : tx'[q] = tx[q]
    BY <1>3, <2>1, Zenon DEF TxType
  <2>3. /\ \A g \in Handlers \ {h} : handler'[g] = handler[g]
        /\ \A q \in Sessions \ {s} : pc'[q] = pc[q]
        /\ pc'[s] \in {"ready", "stale", "failed"}
    BY <1>1, <1>3, <2>1, BindFacts, SMTT(60)
  <2>4. /\ handler'[h].user \in {s, Nobody} /\ handler'[h].share \in {d, NoSchema}
        /\ handler'[h].user = s =>
             /\ pc'[s] = "ready" /\ handler'[h].dirty = catalog.dirty
             /\ catalog.schema # NoSchema
             /\ handler'[h].share = catalog.schema /\ handler'[h].schema = catalog.schema
    BY <1>1, <1>3, <2>1, BindUses, SMTT(60)
  <2>5. catalog.schema = NoSchema => catalog.dirty = NoSchema
    BY <1>1, DirtyHasSchema, Zenon
  <2>6. /\ catalog.schema = NoSchema => DirtyIndexNames = {}
        /\ DirtyIndexNames = catalog.dirty.keys \ catalog.schema.keys
    BY <1>3, <2>5, Zenon DEF DirtyIndexNames
  <2> QED
    BY <2>1, <2>2, <2>3, <2>4, <2>6, Zenon
<1>13. CASE CatalogReadFails(s, h, d, check)
  <2>1. PICK c \in Nat : c = 0
    BY <1>3, Zenon
  <2>2. /\ Bind(s, h, d, c, NoSchema, NoSchema, check)
        /\ tx' = [tx EXCEPT ![s].open = TRUE]
    BY <1>13, <2>1, Zenon DEF CatalogReadFails
  <2>3. /\ tx'[s].cached = tx[s].cached /\ tx'[s].disc = tx[s].disc /\ tx'[s].open
        /\ tx'[s].disc_dirty = tx[s].disc_dirty /\ tx'[s].writes = tx[s].writes
        /\ tx'[s].dirty_index_names = tx[s].dirty_index_names
        /\ \A q \in Sessions \ {s} : tx'[q] = tx[q]
    BY <1>3, <2>2, Zenon DEF TxType
  <2>4. /\ \A g \in Handlers \ {h} : handler'[g] = handler[g]
        /\ \A q \in Sessions \ {s} : pc'[q] = pc[q]
        /\ pc'[s] \in {"ready", "stale", "failed"}
    BY <1>1, <1>3, <2>2, BindFacts, SMTT(60)
  <2>5. /\ handler'[h].user \in {s, Nobody} /\ handler'[h].share \in {d, NoSchema}
        /\ handler'[h].user # s
    BY <1>1, <1>3, <2>2, BindUses, SMTT(60)
  <2> QED
    BY <1>7, <2>3, <2>4, <2>5, ZenonT(40)
<1> QED
  BY <1>9, <1>10, <1>11, <1>12, <1>13, Zenon DEF DiscoverTableSchema

\* Only session s moves, and it has no handler afterwards.
LEMMA UsesKept ==
  ASSUME Uses, NEW s \in Sessions, catalog'.schema = catalog.schema,
         \A h \in Handlers : handler'[h] = handler[h] \/ handler'[h].user = Nobody,
         \A h \in Handlers : handler'[h].user # s,
         \A q \in Sessions \ {s} : pc'[q] = pc[q] /\ tx'[q] = tx[q]
  PROVE  Uses'
<1>1. SUFFICES ASSUME NEW q \in Sessions, NEW g \in Handlers, handler'[g].user = q
               PROVE  /\ HandlerNode[g] = NodeOf[q]
                      /\ pc'[q] \in {"ready", "create_index", "failed"}
                      /\ pc'[q] = "ready" =>
                           /\ tx'[q].cached # NoSchema \/ tx'[q].disc # NoSchema
                           /\ handler'[g].share = catalog.schema
                           /\ handler'[g].schema = catalog.schema
                           /\ tx'[q].dirty_index_names \subseteq handler'[g].dirty.keys
  BY DEF Uses
<1>2. handler'[g] = handler[g] /\ q # s
  BY <1>1, SchemaAssumption, Zenon
<1>3. pc'[q] = pc[q] /\ tx'[q] = tx[q]
  BY <1>2, Zenon
<1> QED
  BY <1>1, <1>2, <1>3, SMTT(60) DEF Uses

\* Handlers that are closed, or given back by their session.
LEMMA ClosedHandlers ==
  ASSUME TypeOK, Versions, NEW n \in Nodes, CloseHandlers(n)
  PROVE  /\ \A h \in Handlers : handler'[h] = handler[h] \/ handler'[h].user = Nobody
         /\ \A h \in Handlers : HandlerNode[h] = n => handler'[h].user = Nobody
         /\ \A h \in Handlers : Known(handler'[h].share)
<1>1. Known(Closed.share) /\ Closed.user = Nobody
  BY KnownNone, Zenon DEF Closed
<1> QED
  BY <1>1, Zenon DEF CloseHandlers, Versions

LEMMA FreedHandlers ==
  ASSUME TypeOK, Versions, NEW s \in Sessions, handler' = FreeHandlers(s)
  PROVE  /\ \A h \in Handlers : handler'[h] = handler[h] \/ handler'[h].user = Nobody
         /\ \A h \in Handlers : handler'[h].user # s
         /\ \A h \in Handlers : Known(handler'[h].share)
<1>1. s # Nobody
  BY SchemaAssumption, Zenon
<1>2. SUFFICES ASSUME NEW h \in Handlers
               PROVE  /\ handler'[h] = handler[h] \/ handler'[h].user = Nobody
                      /\ handler'[h].user # s
                      /\ handler'[h].share = handler[h].share
  BY <1>2, Zenon DEF Versions
<1>3. CASE handler[h].user = s
  <2>1. handler'[h] = [Closed EXCEPT !.share = handler[h].share, !.cntl = handler[h].cntl]
    BY <1>3, Zenon DEF FreeHandlers
  <2>2. handler'[h].user = Nobody /\ handler'[h].share = handler[h].share
    BY <2>1, Zenon DEF Closed
  <2> QED
    BY <1>1, <2>2, Zenon
<1>4. CASE handler[h].user # s
  BY <1>4, Zenon DEF FreeHandlers
<1> QED
  BY <1>3, <1>4, Zenon

\* A definition read from the catalog is known.
LEMMA LoadRows ==
  ASSUME RowInv, NEW s \in Sessions, eloq_discover_table(s), Opening(s) \/ pc[s] = "stale",
         UNCHANGED handler \/ CloseHandlers(NodeOf[s])
  PROVE  RowRest'
<1>1. TypeOK /\ Versions /\ Uses /\ Names /\ Writes /\ Indexed
  BY Zenon DEF RowInv, RowRest, PinInv
<1>2. /\ tx \in [Sessions -> TxType] /\ pc \in [Sessions -> PcType] /\ NodeOf[s] \in Nodes
      /\ share \in [Nodes -> Schema]
  BY <1>1, SchemaAssumption, Zenon DEF TypeOK, TxType, PcType
<1>3. \A q \in Sessions : /\ tx'[q].cached = tx[q].cached /\ tx'[q].disc = tx[q].disc
                          /\ tx'[q].disc_dirty = tx[q].disc_dirty
                          /\ tx'[q].dirty_index_names = tx[q].dirty_index_names
                          /\ tx'[q].writes = tx[q].writes
                          /\ tx[q].open => tx'[q].open
  BY <1>2, Zenon DEF eloq_discover_table, TxType
<1>4. /\ \A q \in Sessions \ {s} : pc'[q] = pc[q] /\ tx'[q] = tx[q]
      /\ pc'[s] \in {"failed", "reopen"}
  BY <1>2, Zenon DEF eloq_discover_table
<1>5. UNCHANGED << catalog, ddl, rows >> /\ share' = [share EXCEPT ![NodeOf[s]] = catalog.schema]
  BY Zenon DEF eloq_discover_table
<1>6. \A h \in Handlers : handler[h].user # s
  BY <1>1, Zenon DEF Uses, Opening
<1>7. /\ \A h \in Handlers : handler'[h] = handler[h] \/ handler'[h].user = Nobody
      /\ \A h \in Handlers : Known(handler'[h].share)
  BY <1>1, <1>2, ClosedHandlers, Zenon DEF Versions
<1>8. \A n \in Nodes : Known(share'[n])
  BY <1>1, <1>2, <1>5, Zenon DEF Versions
<1>9. Versions'
  BY <1>1, <1>5, <1>7, <1>8, VersionsKept, Zenon
<1>10. Uses'
  <2>1. \A h \in Handlers : handler'[h].user # s
    BY <1>6, <1>7, SchemaAssumption, Zenon
  <2> QED
    BY <1>1, <1>4, <1>5, <1>7, <2>1, UsesKept, Zenon
<1>11. Names' /\ Writes'
  <2>1. \A q \in Sessions : pc[q] \notin DdlPcs => pc'[q] \notin DdlPcs
    BY <1>4, Zenon DEF DdlPcs, DdlOps
  <2> QED
    BY <1>1, <1>3, <2>1, TxKept, Zenon
<1>12. Indexed'
  BY <1>1, <1>3, <1>5, IndexedKept, Zenon
<1> QED
  BY <1>9, <1>10, <1>11, <1>12, Zenon DEF RowRest

LEMMA EndStatementRows ==
  ASSUME RowInv, NEW s \in Sessions, end_statement(s)
  PROVE  RowRest'
<1>1. TypeOK /\ Versions /\ Uses /\ Names /\ Writes /\ Indexed
  BY Zenon DEF RowInv, RowRest, PinInv
<1>2. UNCHANGED << catalog, ddl, share, tx, rows >> /\ handler' = FreeHandlers(s)
  BY Zenon DEF end_statement
<1>3. pc' = [pc EXCEPT ![s] = "idle"] /\ pc \in [Sessions -> PcType]
  BY <1>1, Zenon DEF end_statement, TypeOK, PcType
<1>4. /\ \A h \in Handlers : handler'[h] = handler[h] \/ handler'[h].user = Nobody
      /\ \A h \in Handlers : handler'[h].user # s
      /\ \A h \in Handlers : Known(handler'[h].share)
  BY <1>1, <1>2, FreedHandlers, Zenon
<1>5. Versions'
  BY <1>1, <1>2, <1>4, VersionsKept, Zenon DEF Versions
<1>6. Uses'
  BY <1>1, <1>2, <1>3, <1>4, UsesKept, Zenon
<1>7. Names' /\ Writes'
  <2>1. \A q \in Sessions : pc[q] \notin DdlPcs => pc'[q] \notin DdlPcs
    BY <1>3, Zenon DEF DdlPcs, DdlOps
  <2> QED
    BY <1>1, <1>2, <2>1, TxKept, Zenon
<1>8. Indexed'
  BY <1>1, <1>2, IndexedKept, Zenon
<1> QED
  BY <1>5, <1>6, <1>7, <1>8, Zenon DEF RowRest

\* What the transaction wrote becomes visible, or nothing.
LEMMA EndTxRows ==
  ASSUME RowInv, NEW s \in Sessions, EndTx(s),
         \/ UNCHANGED handler /\ pc[s] \in {"idle", "altered"}
         \/ handler' = FreeHandlers(s),
         rows' \in {rows, rows \cup tx[s].writes}
  PROVE  RowRest'
<1>1. TypeOK /\ Stages /\ Versions /\ Uses /\ Names /\ Writes /\ Indexed
  BY Zenon DEF RowInv, RowRest, PinInv
<1>2. UNCHANGED << catalog, ddl, share >>
  BY Zenon DEF EndTx
<1>3. /\ tx'[s] = NoTx /\ pc'[s] = "idle"
      /\ \A q \in Sessions \ {s} : tx'[q] = tx[q] /\ pc'[q] = pc[q]
  BY <1>1, Zenon DEF EndTx, TypeOK
<1>4. /\ tx'[s].writes = {} /\ tx'[s].disc = NoSchema /\ tx'[s].cached = NoSchema
      /\ tx'[s].dirty_index_names = {}
  BY <1>3 DEF NoTx
<1>5. /\ \A h \in Handlers : handler'[h] = handler[h] \/ handler'[h].user = Nobody
      /\ \A h \in Handlers : handler'[h].user # s
      /\ \A h \in Handlers : Known(handler'[h].share)
  <2>1. CASE UNCHANGED handler /\ pc[s] \in {"idle", "altered"}
    BY <1>1, <2>1, Zenon DEF Uses, Versions
  <2>2. CASE handler' = FreeHandlers(s)
    BY <1>1, <2>2, FreedHandlers, Zenon
  <2> QED
    BY <2>1, <2>2, Zenon
<1>6. Versions'
  BY <1>1, <1>2, <1>5, VersionsKept, ZenonT(40) DEF Versions
<1>7. Uses'
  BY <1>1, <1>2, <1>3, <1>5, UsesKept, ZenonT(40)
<1>8. Names'
  <2>1. ASSUME NEW q \in Sessions
        PROVE  tx'[q].dirty_index_names =
                 IF tx'[q].disc = NoSchema THEN {} ELSE tx'[q].disc_dirty.keys \ tx'[q].disc.keys
    <3>1. CASE q = s
      BY <1>4, <3>1, Zenon
    <3>2. CASE q # s
      <4>1. tx'[q] = tx[q]
        BY <1>3, <3>2, Zenon
      <4> QED
        BY <1>1, <4>1, Zenon DEF Names
    <3> QED
      BY <3>1, <3>2, Zenon
  <2> QED
    BY <2>1, Zenon DEF Names
<1>9. Writes'
  BY <1>1, <1>3, <1>4, Zenon DEF Writes
<1>10. WritesMaintainIndexes'
  BY <1>1, <1>2, <1>3, <1>4, Zenon DEF Indexed, WritesMaintainIndexes, DirtyIndexNames
<1>11. EveryRowIndexed'
  <2>1. \A w \in tx[s].writes :
          /\ catalog.schema.keys \subseteq w
          /\ ddl.phase \in {"built", "relock"} => ddl.new.keys \subseteq w
    BY <1>1, Zenon DEF Indexed, WritesMaintainIndexes, DirtyIndexNames, Stages
  <2> QED
    BY <1>1, <1>2, <2>1, Zenon DEF Indexed, EveryRowIndexed
<1> QED
  BY <1>6, <1>7, <1>8, <1>9, <1>10, <1>11, Zenon DEF RowRest, Indexed

\* Insert() maintains the indexes of the table and the one being built.
LEMMA WriteRowRows ==
  ASSUME RowInv, NEW s \in Sessions, NEW h \in Handlers, write_row(s, h)
  PROVE  RowRest'
<1>1. TypeOK /\ Stages /\ Pinned /\ Versions /\ Uses /\ Names /\ Writes /\ Indexed
  BY Zenon DEF RowInv, RowRest, PinInv
<1>2. /\ UNCHANGED << catalog, ddl, share, handler, pc, rows >>
      /\ tx' = [tx EXCEPT ![s].writes = @ \cup {Maintained(s, h)}]
      /\ pc[s] = "ready" /\ handler[h].user = s
  BY Zenon DEF write_row
<1>3. /\ tx'[s].writes = tx[s].writes \cup {Maintained(s, h)}
      /\ \A q \in Sessions : /\ tx'[q].cached = tx[q].cached /\ tx'[q].disc = tx[q].disc
                             /\ tx'[q].disc_dirty = tx[q].disc_dirty /\ tx'[q].open = tx[q].open
                             /\ tx'[q].dirty_index_names = tx[q].dirty_index_names
      /\ \A q \in Sessions \ {s} : tx'[q].writes = tx[q].writes
  <2>1. tx \in [Sessions -> TxType]
    BY <1>1, Zenon DEF TypeOK, TxType
  <2> QED
    BY <1>2, <2>1, ZenonT(40) DEF TxType
<1>4. /\ tx[s].cached # NoSchema \/ tx[s].disc # NoSchema
      /\ handler[h].share = catalog.schema /\ handler[h].schema = catalog.schema
  BY <1>1, <1>2, Zenon DEF Uses
<1>5. DirtyIndexNames \subseteq tx[s].dirty_index_names
  <2>1. ddl.by # s
    BY <1>2, ChangerBusy, Zenon DEF RowInv, DdlOps
  <2>2. CASE tx[s].disc # NoSchema
    <3>1. catalog.schema = tx[s].disc /\ tx[s].disc_dirty = catalog.dirty
      BY <1>1, <1>2, <2>1, <2>2, Zenon DEF Pinned
    <3> QED
      BY <1>1, <2>2, <3>1, Zenon DEF Names, DirtyIndexNames
  <2>3. CASE tx[s].cached # NoSchema
    <3>1. catalog.dirty = NoSchema
      BY <1>1, <2>3, Zenon DEF Pinned
    <3> QED
      BY <3>1 DEF DirtyIndexNames, NoSchema
  <2> QED
    BY <1>4, <2>2, <2>3, Zenon
<1>6. catalog.schema.keys \cup DirtyIndexNames \subseteq Maintained(s, h)
  <2>1. handler[h].schema.keys \cup tx[s].dirty_index_names \subseteq Maintained(s, h)
    BY <1>1, <1>4, AllMaintained, Zenon
  <2> QED
    BY <1>4, <1>5, <2>1, Zenon
<1>7. Versions' /\ Uses' /\ Names'
  <2>1. Versions'
    BY <1>1, <1>2, VersionsKept, Zenon DEF Versions
  <2>2. Uses'
    BY <1>1, <1>2, <1>3, SMTT(60) DEF Uses
  <2>3. Names'
    BY <1>1, <1>3, ZenonT(40) DEF Names
  <2> QED
    BY <2>1, <2>2, <2>3, Zenon
<1>8. Writes'
  BY <1>1, <1>2, <1>3, <1>4 DEF Writes, DdlPcs, DdlOps
<1>9. WritesMaintainIndexes'
  <2>1. DirtyIndexNames' = DirtyIndexNames
    BY <1>2, Zenon DEF DirtyIndexNames
  <2>2. ASSUME NEW q \in Sessions, NEW w \in tx'[q].writes
        PROVE  catalog.schema.keys \cup DirtyIndexNames \subseteq w
    BY <1>1, <1>3, <1>6, <2>2, ZenonT(40) DEF Indexed, WritesMaintainIndexes
  <2> QED
    BY <1>2, <2>1, <2>2, Zenon DEF WritesMaintainIndexes
<1>10. EveryRowIndexed'
  BY <1>1, <1>2, Zenon DEF Indexed, EveryRowIndexed
<1> QED
  BY <1>7, <1>8, <1>9, <1>10, Zenon DEF RowRest, Indexed

\* The beginning of a statement that changes the schema: it has not written.
LEMMA ChangeBeginsRows ==
  ASSUME RowInv, NEW s \in Sessions,
         inplace_alter_table(s) \/ delete_table(s) \/ create(s)
  PROVE  RowRest'
<1>1. TypeOK /\ Versions /\ Uses /\ Names /\ Writes /\ Indexed
  BY Zenon DEF RowInv, RowRest, PinInv
<1>2. UNCHANGED << catalog, ddl, rows >> /\ ClearSchemaReader(s)
  BY Zenon DEF inplace_alter_table, delete_table, create
<1>3. tx[s].writes = {}
  BY <1>1, Zenon DEF Writes, inplace_alter_table, delete_table, create
<1>4. /\ tx'[s].cached = NoSchema /\ tx'[s].open /\ tx'[s].disc = tx[s].disc
      /\ tx'[s].disc_dirty = tx[s].disc_dirty /\ tx'[s].writes = tx[s].writes
      /\ tx'[s].dirty_index_names = tx[s].dirty_index_names
      /\ \A q \in Sessions \ {s} : tx'[q] = tx[q]
  <2>1. tx \in [Sessions -> TxType]
    BY <1>1, Zenon DEF TypeOK, TxType
  <2> QED
    BY <1>2, <2>1, Zenon DEF ClearSchemaReader, TxType
<1>5. \A q \in Sessions \ {s} : pc'[q] = pc[q]
  BY <1>1, Zenon DEF TypeOK, inplace_alter_table, delete_table, create
<1>6. Names'
  <2>1. ASSUME NEW q \in Sessions
        PROVE  tx'[q].dirty_index_names =
                 IF tx'[q].disc = NoSchema THEN {} ELSE tx'[q].disc_dirty.keys \ tx'[q].disc.keys
    <3>1. /\ tx'[q].disc = tx[q].disc /\ tx'[q].disc_dirty = tx[q].disc_dirty
          /\ tx'[q].dirty_index_names = tx[q].dirty_index_names
      BY <1>4, Zenon
    <3> QED
      BY <1>1, <3>1, Zenon DEF Names
  <2> QED
    BY <2>1, Zenon DEF Names
<1>7. Writes'
  BY <1>1, <1>3, <1>4, <1>5, ZenonT(40) DEF Writes
<1>8. Indexed'
  <2>1. \A q \in Sessions : tx'[q].writes \subseteq tx[q].writes
    BY <1>4, Zenon
  <2> QED
    BY <1>1, <1>2, <2>1, IndexedKept, Zenon
<1>9. CASE inplace_alter_table(s)
  <2>1. UNCHANGED << share, handler >> /\ pc'[s] = "create_index" /\ pc[s] = "ready"
    BY <1>1, <1>9, Zenon DEF inplace_alter_table, TypeOK
  <2>2. Versions'
    BY <1>1, <1>2, <2>1, VersionsKept, ZenonT(40) DEF Versions
  <2>3. Uses'
    BY <1>1, <1>2, <1>4, <1>5, <2>1, SMTT(60) DEF Uses
  <2> QED
    BY <1>6, <1>7, <1>8, <2>2, <2>3, Zenon DEF RowRest
<1>10. CASE delete_table(s) \/ create(s)
  <2>1. \A h \in Handlers : handler[h].user # s
    BY <1>1, <1>10, Zenon DEF Uses, delete_table, create
  <2>2. UNCHANGED handler \/ CloseHandlers(NodeOf[s])
    BY <1>10, Zenon DEF delete_table, create
  <2>3. NodeOf[s] \in Nodes
    BY SchemaAssumption, Zenon
  <2>4. /\ \A h \in Handlers : handler'[h] = handler[h] \/ handler'[h].user = Nobody
        /\ \A h \in Handlers : Known(handler'[h].share)
    BY <1>1, <2>2, <2>3, ClosedHandlers, Zenon DEF Versions
  <2>5. \A n \in Nodes : Known(share'[n])
    BY <1>1, <1>10, KnownNone, Zenon DEF Versions, TypeOK, delete_table, create
  <2>6. Versions'
    BY <1>1, <1>2, <2>4, <2>5, VersionsKept, Zenon
  <2>7. \A h \in Handlers : handler'[h].user # s
    BY <2>1, <2>4, SchemaAssumption, Zenon
  <2>8. Uses'
    BY <1>1, <1>2, <1>4, <1>5, <2>4, <2>7, UsesKept, Zenon
  <2> QED
    BY <1>6, <1>7, <1>8, <2>6, <2>8, Zenon DEF RowRest
<1> QED
  BY <1>9, <1>10, Zenon

LEMMA UpsertTableRows ==
  ASSUME RowInv, NEW s \in Sessions, upsert_table(s)
  PROVE  RowRest'
<1>1. TypeOK /\ Stages /\ Versions /\ Uses /\ Names /\ Writes /\ Indexed
  BY Zenon DEF RowInv, RowRest, PinInv
<1>2. UNCHANGED << share, handler, tx, pc, rows >> /\ catalog.last < MaxVer
  BY Zenon DEF upsert_table
<1>3. /\ catalog'.schema = catalog.schema /\ catalog'.dirty = catalog.dirty
      /\ catalog'.last = catalog.last + 1 /\ catalog.last \in Nat
  <2>1. catalog \in CatalogType
    BY <1>1, Zenon DEF TypeOK, CatalogType
  <2> QED
    BY <2>1 DEF upsert_table, CatalogType
<1>4. ddl'.phase = "lock" /\ ddl'.new = NewSchema(s)
  BY Zenon DEF upsert_table
<1>5. NewSchema(s) # NoSchema => NewSchema(s).ver = catalog.last + 1
  BY <1>1, <1>2, NewSchemaType, Zenon
<1>6. Versions'
  <2>1. ASSUME NEW d \in Schema, Known(d)
        PROVE  /\ d.ver <= catalog'.last
               /\ d.ver = catalog'.schema.ver => d = catalog'.schema
               /\ ddl'.new # NoSchema => d.ver # ddl'.new.ver
    <3>1. d.ver \in Nat /\ d.ver <= catalog.last
      BY <2>1, Values, SchemaAssumption DEF Known
    <3>2. d.ver = catalog.schema.ver => d = catalog.schema
      BY <2>1, Zenon DEF Known
    <3> QED
      BY <1>3, <1>4, <1>5, <3>1, <3>2, SMTT(60)
  <2>2. /\ catalog.schema \in Schema /\ \A n \in Nodes : share[n] \in Schema
        /\ \A h \in Handlers : handler[h].share \in Schema
    BY <1>1, Zenon DEF TypeOK
  <2>3. /\ Known(catalog.schema) /\ \A n \in Nodes : Known(share[n])
        /\ \A h \in Handlers : Known(handler[h].share)
    BY <1>1, Zenon DEF Versions
  <2>4. Known(catalog.schema)'
    BY <1>3, <2>1, <2>2, <2>3, Zenon DEF Known
  <2>5. \A n \in Nodes : Known(share[n])'
    BY <1>2, <2>1, <2>2, <2>3, Zenon DEF Known
  <2>6. \A h \in Handlers : Known(handler[h].share)'
    BY <1>2, <2>1, <2>2, <2>3, Zenon DEF Known
  <2> QED
    BY <1>3, <1>4, <1>5, <2>4, <2>5, <2>6, ZenonT(40) DEF Versions
<1>7. Uses' /\ Names' /\ Writes'
  <2>1. Uses'
    BY <1>1, <1>2, <1>3, ZenonT(40) DEF Uses
  <2>2. Names' /\ Writes'
    BY <1>1, <1>2, TxKept, Zenon
  <2> QED
    BY <2>1, <2>2, Zenon
<1>8. Indexed'
  BY <1>1, <1>2, <1>3, <1>4, Zenon DEF Indexed, WritesMaintainIndexes, EveryRowIndexed, DirtyIndexNames
<1> QED
  BY <1>6, <1>7, <1>8, Zenon DEF RowRest

\* Under the write lock no transaction has written and no statement uses
\* the table, but for the one that changes it.
LEMMA WriteLockQuiet ==
  ASSUME RowInv, WriteLock, ddl.phase # "none", NEW s \in Sessions
  PROVE  /\ tx[s].writes = {}
         /\ \A h \in Handlers : handler[h].user = s => pc[s] # "ready"
<1>1. TypeOK /\ ReadersExact /\ Stages /\ Pinned /\ Uses /\ Writes
  BY Zenon DEF RowInv, RowRest, PinInv
<1>2. tx[s].cached = NoSchema /\ (s \in rlock => ddl.by = s)
  BY <1>1, WriteLockAlone, Zenon
<1>3. tx[s].disc # NoSchema => pc[s] \in DdlOps
  BY <1>1, <1>2, SchemaAssumption, Zenon DEF Pinned, Stages
<1> QED
  BY <1>1, <1>2, <1>3, ZenonT(40) DEF Writes, Uses, DdlPcs, DdlOps

LEMMA InstallDirtyRows ==
  ASSUME RowInv, install_dirty
  PROVE  RowRest'
<1>1. TypeOK /\ Versions /\ Uses /\ Names /\ Writes /\ Indexed
  BY Zenon DEF RowInv, RowRest, PinInv
<1>2. UNCHANGED << share, handler, tx, pc, rows >> /\ WriteLock /\ ddl.phase = "lock"
  BY Zenon DEF install_dirty
<1>3. /\ catalog'.schema = catalog.schema /\ catalog'.last = catalog.last
      /\ ddl'.phase = "dirty" /\ ddl'.new = ddl.new
  BY <1>1, Zenon DEF install_dirty, TypeOK
<1>4. Versions'
  BY <1>1, <1>2, <1>3, Zenon DEF Versions, Known
<1>5. Uses' /\ Names' /\ Writes'
  <2>1. Uses'
    BY <1>1, <1>2, <1>3, Zenon DEF Uses
  <2>2. Names' /\ Writes'
    BY <1>1, <1>2, TxKept, Zenon
  <2> QED
    BY <2>1, <2>2, Zenon
<1>6. \A q \in Sessions : tx'[q].writes = {}
  BY <1>2, WriteLockQuiet, Zenon
<1>7. Indexed'
  BY <1>1, <1>2, <1>3, <1>6, Zenon DEF Indexed, WritesMaintainIndexes, EveryRowIndexed
<1> QED
  BY <1>4, <1>5, <1>7, Zenon DEF RowRest

\* The build reaches every committed row; transactions that have not yet
\* committed maintain the new index themselves.
LEMMA BuildRows ==
  ASSUME RowInv, build_index \/ relock
  PROVE  RowRest'
<1>1. TypeOK /\ Stages /\ Versions /\ Uses /\ Names /\ Writes /\ Indexed
  BY Zenon DEF RowInv, RowRest, PinInv
<1>2. UNCHANGED << catalog, share, handler, tx, pc >>
  BY Zenon DEF build_index, relock
<1>3. ddl'.phase # "none" /\ ddl'.new = ddl.new /\ ddl.phase \in {"dirty", "built"}
  BY <1>1, Zenon DEF build_index, relock, TypeOK
<1>4. Versions' /\ Uses' /\ Names' /\ Writes'
  <2>1. Versions'
    BY <1>1, <1>2, <1>3, Zenon DEF Versions, Known
  <2>2. Uses'
    BY <1>1, <1>2, ZenonT(40) DEF Uses
  <2>3. Names' /\ Writes'
    BY <1>1, <1>2, TxKept, Zenon
  <2> QED
    BY <2>1, <2>2, <2>3, Zenon
<1>5. WritesMaintainIndexes'
  BY <1>1, <1>2, Zenon DEF Indexed, WritesMaintainIndexes, DirtyIndexNames
<1>6. EveryRowIndexed'
  <2>1. CASE build_index
    <3>1. rows' = {r \cup DirtyIndexNames : r \in rows}
      BY <2>1, Zenon DEF build_index
    <3>2. ddl.new.keys \subseteq catalog.schema.keys \cup DirtyIndexNames
      BY <1>1, <1>3, Zenon DEF Stages, DirtyIndexNames
    <3>3. \A r \in rows : catalog.schema.keys \subseteq r
      BY <1>1, Zenon DEF Indexed, EveryRowIndexed
    <3>4. \A r \in rows' : catalog.schema.keys \subseteq r /\ ddl.new.keys \subseteq r
      BY <3>1, <3>2, <3>3, Zenon
    <3> QED
      BY <1>2, <1>3, <3>4, Zenon DEF EveryRowIndexed
  <2>2. CASE relock
    BY <1>1, <1>2, <1>3, <2>2, Zenon DEF Indexed, EveryRowIndexed, relock
  <2> QED
    BY <2>1, <2>2, Zenon
<1> QED
  BY <1>4, <1>5, <1>6, Zenon DEF RowRest, Indexed

\* The SQL layer forgets the definition, and with it the statement's handlers.
LEMMA FlushLocalRows ==
  ASSUME RowInv, NEW s \in Sessions, FlushLocal(s)
  PROVE  /\ pc'[s] = "altered" /\ \A q \in Sessions \ {s} : pc'[q] = pc[q]
         /\ \A h \in Handlers : handler'[h] = handler[h] \/ handler'[h].user = Nobody
         /\ \A h \in Handlers : handler'[h].user # s
         /\ \A h \in Handlers : Known(handler'[h].share)
         /\ \A n \in Nodes : Known(share'[n])
<1>1. TypeOK /\ Versions /\ Uses
  BY Zenon DEF RowInv, RowRest, PinInv
<1>2. NodeOf[s] \in Nodes /\ s # Nobody
  BY SchemaAssumption, Zenon
<1>3. pc'[s] = "altered" /\ \A q \in Sessions \ {s} : pc'[q] = pc[q]
  BY <1>1, Zenon DEF FlushLocal, TypeOK
<1>4. /\ \A h \in Handlers : handler'[h] = handler[h] \/ handler'[h].user = Nobody
      /\ \A h \in Handlers : HandlerNode[h] = NodeOf[s] => handler'[h].user = Nobody
      /\ \A h \in Handlers : Known(handler'[h].share)
  BY <1>1, <1>2, ClosedHandlers, Zenon DEF FlushLocal
<1>5. \A h \in Handlers : handler'[h].user # s
  BY <1>1, <1>2, <1>4, Zenon DEF Uses
<1>6. \A n \in Nodes : Known(share'[n])
  BY <1>1, KnownNone, Zenon DEF Versions, TypeOK, FlushLocal
<1> QED
  BY <1>3, <1>4, <1>5, <1>6, Zenon

LEMMA UpsertDoneRows ==
  ASSUME RowInv, upsert_done
  PROVE  RowRest'
<1>1. TypeOK /\ Stages /\ Versions /\ Uses /\ Names /\ Writes /\ Indexed
  BY Zenon DEF RowInv, RowRest, PinInv
<1>2. /\ UNCHANGED tx /\ WriteLock /\ StatementOver /\ ddl.phase \in {"lock", "relock"}
      /\ ddl.op = "create_index" => ddl.phase = "relock"
      /\ rows' = IF ddl.op = "create_index" THEN rows ELSE {}
  BY Zenon DEF upsert_done
<1>3. /\ catalog'.schema = ddl.new /\ catalog'.last = catalog.last
      /\ ddl'.phase = "none" /\ ddl.new \in Schema
  BY <1>1, Zenon DEF upsert_done, TypeOK, NoDdl
<1>4. /\ \A h \in Handlers : handler'[h] = handler[h] \/ handler'[h].user = Nobody
      /\ \A h \in Handlers : Known(handler'[h].share)
      /\ \A n \in Nodes : Known(share'[n])
      /\ \A q \in Sessions : pc'[q] = pc[q] \/ (q = ddl.by /\ \A h \in Handlers : handler'[h].user # q)
  <2>1. CASE ddl.by = Nobody
    BY <1>1, <1>2, <2>1, Zenon DEF StatementOver, Versions
  <2>2. CASE ddl.by \in Sessions
    <3>1. FlushLocal(ddl.by)
      BY <1>2, <2>2, SchemaAssumption, Zenon DEF StatementOver
    <3> QED
      BY <2>2, <3>1, FlushLocalRows, Zenon
  <2> QED
    BY <1>1, <2>1, <2>2, Zenon DEF TypeOK
<1>5. \A q \in Sessions : /\ tx[q].writes = {}
                          /\ \A h \in Handlers : handler[h].user = q => pc[q] # "ready"
  BY <1>2, WriteLockQuiet, Zenon
<1>6. Versions'
  <2>1. /\ \A h \in Handlers : handler'[h].share \in Schema
        /\ \A n \in Nodes : share'[n] \in Schema
    <3>1. TypeOK'
      BY UpsertDonePins, Zenon DEF RowInv, PinInv
    <3> QED
      BY <3>1, Zenon DEF TypeOK
  <2>2. ASSUME NEW d \in Schema, Known(d)
        PROVE  d.ver <= catalog.last /\ (d.ver = ddl.new.ver => d = ddl.new)
    <3>1. CASE ddl.new = NoSchema
      BY <2>2, <3>1, Values DEF Known, NoSchema
    <3>2. CASE ddl.new # NoSchema
      BY <1>2, <2>2, <3>2, Zenon DEF Known
    <3> QED
      BY <3>1, <3>2, Zenon
  <2>3. ddl.new.ver <= catalog.last
    <3>1. CASE ddl.new = NoSchema
      BY <1>1, <3>1, SchemaAssumption, SMTT(60) DEF NoSchema, TypeOK
    <3>2. CASE ddl.new # NoSchema
      BY <1>1, <1>2, <3>2, SchemaAssumption, SMTT(60) DEF Versions, TypeOK
    <3> QED
      BY <3>1, <3>2, Zenon
  <2>4. Known(catalog.schema)'
    BY <1>3, <2>3, Zenon DEF Known
  <2>5. \A n \in Nodes : Known(share[n])'
    BY <1>3, <1>4, <2>1, <2>2, Zenon DEF Known
  <2>6. \A h \in Handlers : Known(handler[h].share)'
    BY <1>3, <1>4, <2>1, <2>2, Zenon DEF Known
  <2> QED
    BY <1>3, <2>4, <2>5, <2>6, Zenon DEF Versions
<1>7. Uses'
  <2>1. SUFFICES ASSUME NEW q \in Sessions, NEW g \in Handlers, handler'[g].user = q
                 PROVE  /\ HandlerNode[g] = NodeOf[q]
                        /\ pc'[q] \in {"create_index", "failed"}
    BY <2>1, Zenon DEF Uses
  <2>2. handler'[g] = handler[g] /\ pc'[q] = pc[q]
    BY <1>4, <2>1, SchemaAssumption, Zenon
  <2> QED
    BY <1>1, <1>5, <2>1, <2>2, Zenon DEF Uses
<1>8. Names' /\ Writes'
  BY <1>1, <1>2, <1>5, TxKept, Zenon
<1>9. Indexed'
  <2>1. WritesMaintainIndexes'
    BY <1>2, <1>5, Zenon DEF WritesMaintainIndexes
  <2>2. EveryRowIndexed'
    BY <1>1, <1>2, <1>3, Zenon DEF Indexed, EveryRowIndexed
  <2> QED
    BY <2>1, <2>2, Zenon DEF Indexed
<1> QED
  BY <1>6, <1>7, <1>8, <1>9, Zenon DEF RowRest

LEMMA UpsertFailedRows ==
  ASSUME RowInv, upsert_failed
  PROVE  RowRest'
<1>1. TypeOK /\ Stages /\ Versions /\ Uses /\ Names /\ Writes /\ Indexed
  BY Zenon DEF RowInv, RowRest, PinInv
<1>2. /\ UNCHANGED << share, handler, tx >> /\ rows' = {r \ DirtyIndexNames : r \in rows}
      /\ ddl.by # Nobody /\ ddl.phase # "none"
  BY Zenon DEF upsert_failed
<1>3. /\ catalog'.schema = catalog.schema /\ catalog'.last = catalog.last
      /\ catalog'.dirty = NoSchema /\ ddl'.phase = "none"
  BY <1>1, Zenon DEF upsert_failed, TypeOK, NoDdl
<1>4. /\ ddl.by \in Sessions /\ pc'[ddl.by] = "failed" /\ pc[ddl.by] \in DdlOps
      /\ \A q \in Sessions \ {ddl.by} : pc'[q] = pc[q]
  BY <1>1, <1>2, Zenon DEF upsert_failed, TypeOK, Stages
<1>5. Versions'
  BY <1>1, <1>2, <1>3, Zenon DEF Versions, Known
<1>6. Uses'
  <2>1. SUFFICES ASSUME NEW q \in Sessions, NEW g \in Handlers, handler[g].user = q
                 PROVE  /\ HandlerNode[g] = NodeOf[q]
                        /\ pc'[q] \in {"ready", "create_index", "failed"}
                        /\ pc'[q] = "ready" =>
                             /\ tx[q].cached # NoSchema \/ tx[q].disc # NoSchema
                             /\ handler[g].share = catalog.schema
                             /\ handler[g].schema = catalog.schema
                             /\ tx[q].dirty_index_names \subseteq handler[g].dirty.keys
    BY <1>2, <1>3, ZenonT(40) DEF Uses
  <2>2. CASE q = ddl.by
    BY <1>1, <1>4, <2>1, <2>2, Zenon DEF Uses
  <2>3. CASE q # ddl.by
    BY <1>1, <1>4, <2>1, <2>3, Zenon DEF Uses
  <2> QED
    BY <2>2, <2>3, Zenon
<1>7. Names' /\ Writes'
  <2>1. \A q \in Sessions : pc[q] \notin DdlPcs => pc'[q] \notin DdlPcs
    BY <1>4, Zenon DEF DdlPcs, DdlOps
  <2> QED
    BY <1>1, <1>2, <2>1, TxKept, Zenon
<1>8. WritesMaintainIndexes'
  BY <1>1, <1>2, <1>3 DEF Indexed, WritesMaintainIndexes, DirtyIndexNames, NoSchema
<1>9. EveryRowIndexed'
  <2>1. \A r \in rows : catalog.schema.keys \subseteq r
    BY <1>1, Zenon DEF Indexed, EveryRowIndexed
  <2>2. \A r \in rows' : catalog.schema.keys \subseteq r
    BY <1>2, <2>1, ZenonT(40) DEF DirtyIndexNames
  <2> QED
    BY <1>3, <2>2, Zenon DEF EveryRowIndexed
<1> QED
  BY <1>5, <1>6, <1>7, <1>8, <1>9, Zenon DEF RowRest, Indexed

LEMMA UpsertUnverifiedRows ==
  ASSUME RowInv, upsert_unverified
  PROVE  RowRest'
<1>1. TypeOK /\ Stages /\ Versions /\ Uses /\ Names /\ Writes /\ Indexed
  BY Zenon DEF RowInv, RowRest, PinInv
<1>2. /\ UNCHANGED << catalog, tx, rows >> /\ FlushLocal(ddl.by)
      /\ ddl.by # Nobody /\ ddl.phase # "none"
  BY Zenon DEF upsert_unverified
<1>3. ddl.by \in Sessions /\ ddl'.phase = ddl.phase /\ ddl'.new = ddl.new
  BY <1>1, <1>2, Zenon DEF upsert_unverified, TypeOK
<1>4. /\ pc'[ddl.by] = "altered" /\ \A q \in Sessions \ {ddl.by} : pc'[q] = pc[q]
      /\ \A h \in Handlers : handler'[h] = handler[h] \/ handler'[h].user = Nobody
      /\ \A h \in Handlers : handler'[h].user # ddl.by
      /\ \A h \in Handlers : Known(handler'[h].share)
      /\ \A n \in Nodes : Known(share'[n])
  BY <1>2, <1>3, FlushLocalRows, Zenon
<1>5. Versions'
  <2>1. ASSUME NEW d, Known(d)
        PROVE  /\ d.ver <= catalog'.last /\ (d.ver = catalog'.schema.ver => d = catalog'.schema)
               /\ ddl'.phase # "none" /\ ddl'.new # NoSchema => d.ver # ddl'.new.ver
    BY <1>2, <1>3, <2>1, Zenon DEF Known
  <2>2. Known(catalog.schema)'
    BY <1>1, <1>2, <2>1, Zenon DEF Known, Versions
  <2>3. \A n \in Nodes : Known(share[n])'
    BY <1>4, <2>1, Zenon DEF Known
  <2>4. \A h \in Handlers : Known(handler[h].share)'
    BY <1>4, <2>1, Zenon DEF Known
  <2> QED
    BY <1>1, <1>2, <1>3, <2>2, <2>3, <2>4, Zenon DEF Versions
<1>6. Uses'
  BY <1>1, <1>2, <1>3, <1>4, UsesKept, Zenon
<1>7. Names' /\ Writes'
  <2>1. \A q \in Sessions : pc[q] \notin DdlPcs => pc'[q] \notin DdlPcs
    BY <1>1, <1>2, <1>3, <1>4, Zenon DEF Stages, DdlPcs
  <2> QED
    BY <1>1, <1>2, <2>1, TxKept, Zenon
<1>8. Indexed'
  BY <1>1, <1>2, <1>3, Zenon DEF Indexed, WritesMaintainIndexes, EveryRowIndexed, DirtyIndexNames
<1> QED
  BY <1>5, <1>6, <1>7, <1>8, Zenon DEF RowRest

LEMMA RowInit ==
  ASSUME Init
  PROVE  RowInv
<1>1. PICK schema \in {NoSchema, FirstSchema} :
        /\ catalog = [schema |-> schema, dirty |-> NoSchema, cntl |-> 1, open |-> TRUE,
                      last |-> schema.ver]
        /\ share = [n \in Nodes |-> schema]
        /\ handler = [h \in Handlers |-> [Closed EXCEPT !.share = schema]]
        /\ ddl = NoDdl /\ tx = [s \in Sessions |-> NoTx] /\ rows = {}
  BY Zenon DEF Init
<1>2. PinInv /\ TypeOK
  BY PinInit, Zenon DEF PinInv
<1>3. catalog.schema = schema /\ catalog.last = schema.ver /\ schema.ver \in Nat /\ ddl.phase = "none"
  BY <1>1, <1>2, SchemaAssumption, SMTT(60) DEF NoDdl, TypeOK
<1>4. Known(schema)
  BY <1>3 DEF Known
<1>5. \A h \in Handlers : handler[h].share = schema /\ handler[h].user = Nobody
  BY <1>1, Zenon DEF Closed
<1>6. Versions
  BY <1>1, <1>3, <1>4, <1>5, Zenon DEF Versions
<1>7. Uses
  BY <1>5, SchemaAssumption, Zenon DEF Uses
<1>8. Names /\ Writes /\ Indexed
  BY <1>1, Zenon DEF Names, Writes, Indexed, WritesMaintainIndexes, EveryRowIndexed, NoTx
<1> QED
  BY <1>2, <1>6, <1>7, <1>8, Zenon DEF RowInv, RowRest

LEMMA RowStutter ==
  ASSUME RowInv, UNCHANGED vars
  PROVE  RowRest'
<1>1. Versions /\ Uses /\ Names /\ Writes /\ Indexed
  BY Zenon DEF RowInv, RowRest
<1>2. Versions'
  BY <1>1, VersionsKept, Zenon DEF Versions, vars
<1>3. Uses'
  BY <1>1, Zenon DEF Uses, vars
<1>4. Names' /\ Writes'
  BY <1>1, TxKept, Zenon DEF vars
<1>5. Indexed'
  BY <1>1, IndexedKept, Zenon DEF vars
<1> QED
  BY <1>2, <1>3, <1>4, <1>5, Zenon DEF RowRest

LEMMA RowNext ==
  ASSUME ~ UncheckedOpen, RowInv, [Next]_vars
  PROVE  RowInv'
<1>1. PinInv /\ TypeOK /\ Versions
  BY Zenon DEF RowInv, RowRest, PinInv
<1>2. PinInv'
  BY <1>1, PinNext, Zenon
<1>3. \A h \in Handlers : handler[h].share \in Schema /\ Known(handler[h].share)
  BY <1>1, Zenon DEF TypeOK, Versions
<1>4. \A s \in Sessions : /\ share[NodeOf[s]] \in Schema /\ Known(share[NodeOf[s]])
                          /\ NodeOf[s] \in Nodes
  BY <1>1, SchemaAssumption, Zenon DEF TypeOK, Versions
<1>5. Changers \subseteq Sessions /\ Writers \subseteq Sessions
  BY SchemaAssumption, Zenon
<1>6. ASSUME NEW s \in Sessions, NEW h \in Handlers, open_cached(s, h)
      PROVE  RowRest'
  <2>1. /\ Opening(s) /\ DiscoverTableSchema(s, h, handler[h].share, TRUE)
        /\ HandlerNode[h] = NodeOf[s] /\ TRUE \in BOOLEAN
    BY <1>6, Zenon DEF open_cached, Unused
  <2> QED
    BY <1>3, <2>1, DiscoverRows, Zenon
<1>7. ASSUME NEW s \in Sessions, NEW h \in Handlers, open(s, h)
      PROVE  RowRest'
  <2>1. /\ Opening(s) /\ DiscoverTableSchema(s, h, share[NodeOf[s]], FALSE)
        /\ HandlerNode[h] = NodeOf[s] /\ FALSE \in BOOLEAN
        /\ share[NodeOf[s]] = catalog.schema
    BY <1>7, Zenon DEF open, Unused
  <2> QED
    BY <1>4, <2>1, DiscoverRows, Zenon
<1>8. ASSUME NEW s \in Sessions, load_share(s) \/ rediscover(s)
      PROVE  RowRest'
  <2>1. /\ eloq_discover_table(s)
        /\ Opening(s) \/ pc[s] = "stale"
        /\ UNCHANGED handler \/ CloseHandlers(NodeOf[s])
    BY <1>8, Zenon DEF load_share, rediscover
  <2> QED
    BY <2>1, LoadRows, Zenon
<1>9. ASSUME NEW s \in Sessions, eloq_commit(s) \/ eloq_rollback(s)
      PROVE  RowRest'
  <2>1. /\ EndTx(s) /\ UNCHANGED handler /\ pc[s] \in {"idle", "altered"}
        /\ rows' \in {rows, rows \cup tx[s].writes}
    BY <1>9, Zenon DEF eloq_commit, eloq_rollback
  <2> QED
    BY <2>1, EndTxRows, Zenon
<1>10. ASSUME NEW s \in Sessions, rollback_statement(s)
       PROVE  RowRest'
  <2>1. EndTx(s) /\ handler' = FreeHandlers(s) /\ rows' \in {rows, rows \cup tx[s].writes}
    BY <1>10, Zenon DEF rollback_statement
  <2> QED
    BY <2>1, EndTxRows, Zenon
<1>11. SUFFICES RowRest'
  BY <1>2, <1>11, Zenon DEF RowInv
<1>12. CASE Next
  <2>1. CASE \E s \in Sessions : OpenTable(s) \/ EndStatement(s) \/ EndTransaction(s)
    BY <1>6, <1>7, <1>8, <1>9, <1>10, <2>1, EndStatementRows, ZenonT(40) DEF OpenTable, EndStatement,
       EndTransaction
  <2>2. CASE \E s \in Writers, h \in Handlers : write_row(s, h)
    BY <1>5, <2>2, WriteRowRows, Zenon
  <2>3. CASE \E s \in Changers :
               inplace_alter_table(s) \/ delete_table(s) \/ create(s) \/ upsert_table(s)
    BY <1>5, <2>3, ChangeBeginsRows, UpsertTableRows, Zenon
  <2>4. CASE UpsertStep \/ upsert_failed \/ upsert_unverified
    BY <2>4, InstallDirtyRows, BuildRows, UpsertDoneRows, UpsertFailedRows, UpsertUnverifiedRows, ZenonT(40) DEF
       UpsertStep
  <2> QED
    BY <1>12, <2>1, <2>2, <2>3, <2>4, ZenonT(40) DEF Next
<1> QED
  BY <1>12, RowStutter, Zenon

\* RowInv is an invariant if handlers are opened from current definitions.
THEOREM RowInvariant ==
  ASSUME ~ UncheckedOpen
  PROVE  Spec => []RowInv
<1>1. Init => RowInv
  BY RowInit, Zenon
<1>2. RowInv /\ [Next]_vars => RowInv'
  BY RowNext, Zenon
<1> QED
  BY <1>1, <1>2, PTL DEF Spec

\* Every committed row is in every index of the table, and from the end of
\* its build on also in the new index, for any number of nodes, sessions,
\* handlers and schema changes, if handlers are opened from current
\* definitions only.
THEOREM RowsAreIndexed ==
  ASSUME ~ UncheckedOpen
  PROVE  Spec => []EveryRowIndexed
<1>1. RowInv => EveryRowIndexed
  BY Zenon DEF RowInv, RowRest, Indexed
<1> QED
  BY <1>1, RowInvariant, PTL

\* What an open transaction has written maintains the indexes of the table
\* and the index that is being built.
THEOREM WritesAreIndexed ==
  ASSUME ~ UncheckedOpen
  PROVE  Spec => []WritesMaintainIndexes
<1>1. RowInv => WritesMaintainIndexes
  BY Zenon DEF RowInv, RowRest, Indexed
<1> QED
  BY <1>1, RowInvariant, PTL

\* A statement works with one definition: the cached TABLE_SHARE is the
\* schema with which its handler writes.
THEOREM StatementHasOneDefinition ==
  ASSUME ~ UncheckedOpen
  PROVE  Spec => []OneDefinition
<1>1. RowInv => OneDefinition
  BY ZenonT(40) DEF RowInv, RowRest, Uses, OneDefinition
<1> QED
  BY <1>1, RowInvariant, PTL
=============================================================================
