---------------------------- MODULE TableSchema -----------------------------
(***************************************************************************)
(* Which schema a session works with: discovery of a table's schema,       *)
(* the two ways in which a transaction keeps it from changing, the cached  *)
(* handlers and definitions of a node, and the statements that change the  *)
(* schema (storage/eloq/ha_eloq.cc, ha_eloq.h, sql/sql_base.cc).           *)
(*                                                                         *)
(* A transaction that reads the catalog takes a read lock on the table's   *)
(* schema.  The schema object it finds there can be used again by later    *)
(* transactions of the same handler without reading the catalog: they      *)
(* register as its readers.  CREATE INDEX first installs a dirty schema,   *)
(* with which other sessions maintain the new index while it is built,     *)
(* and then the new version.                                               *)
(*                                                                         *)
(* One table; an index is named by the version that introduced it.        *)
(* The catalog, its locks and its schema objects belong to the transaction *)
(* service.                                                                *)
(***************************************************************************)
EXTENDS Integers, FiniteSets

CONSTANTS
  Nodes, Sessions, Handlers,
  NodeOf,         \* the node of a session
  HandlerNode,    \* the node of a handler
  UncheckedOpen,  \* the table cache may have no free handler left
  Changers,       \* sessions whose clients change the schema
  Writers,        \* sessions whose clients write rows
  MaxVer,         \* bound: versions of the table
  Nobody          \* no session

ASSUME SchemaAssumption ==
  /\ IsFiniteSet(Sessions)
  /\ NodeOf \in [Sessions -> Nodes]
  /\ HandlerNode \in [Handlers -> Nodes]
  /\ UncheckedOpen \in BOOLEAN
  /\ Changers \subseteq Sessions /\ Writers \subseteq Sessions
  /\ MaxVer \in Nat \ {0}
  /\ Nobody \notin Sessions

VARIABLES
  catalog,   \* the table's entry: its schema and dirty schema, its schema
             \* object, whether that admits readers, the last version used
  ddl,       \* the schema change in progress
  rlock,     \* sessions whose transaction has a read lock on the entry
  readers,   \* readers of the schema object, per node
  share,     \* TABLE_SHARE in the definition cache of a node
  handler,   \* ha_eloq objects: definition, schema_cntl_, table_schema_,
             \* table_dirty_schema_ and the session that uses it
  tx,        \* MyEloqTx of a session
  mdl,       \* sessions with a shared metadata lock on the table
  pc,        \* where the session's statement is
  rows       \* committed rows, each by the indexes that have an entry for it

vars == << catalog, ddl, rlock, readers, share, handler, tx, mdl, pc, rows >>

Index == 1 .. MaxVer
NoSchema == [ver |-> 0, keys |-> {}]
Schema == [ver : 1 .. MaxVer, keys : SUBSET Index] \cup {NoSchema}

\* Positions of a statement that holds the exclusive metadata lock.
DdlOps == {"create_index", "drop_table", "create_table"}
DdlPcs == DdlOps \cup {"altered"}

NoDdl == [phase |-> "none", by |-> Nobody, op |-> "none", new |-> NoSchema]
NoTx == [open |-> FALSE, cached |-> NoSchema, disc |-> NoSchema, disc_dirty |-> NoSchema,
         dirty_index_names |-> {}, writes |-> {}]
Closed == [share |-> NoSchema, cntl |-> 0, schema |-> NoSchema, dirty |-> NoSchema, user |-> Nobody]
FirstSchema == [ver |-> 1, keys |-> {1}]

\* There is no table, or every node has it in its caches.
Init ==
  \E schema \in {NoSchema, FirstSchema} :
  /\ catalog = [schema |-> schema, dirty |-> NoSchema, cntl |-> 1, open |-> TRUE,
                last |-> schema.ver]
  /\ ddl = NoDdl
  /\ rlock = {}
  /\ readers = [n \in Nodes |-> 0]
  /\ share = [n \in Nodes |-> schema]
  /\ handler = [h \in Handlers |-> [Closed EXCEPT !.share = schema]]
  /\ tx = [s \in Sessions |-> NoTx]
  /\ mdl = {}
  /\ pc = [s \in Sessions |-> "idle"]
  /\ rows = {}

-----------------------------------------------------------------------------
(* Locks.                                                                  *)

\* A schema change holds the write lock, or waits for it.
Locked == ddl.phase \in {"lock", "relock"}
CanRead(s) == ~ Locked \/ ddl.by = s

\* Granting the exclusive metadata lock of the table on the session's node.
ExclusiveMdl(s) ==
  \A q \in Sessions \ {s} : NodeOf[q] = NodeOf[s] => q \notin mdl /\ pc[q] \notin DdlPcs

\* The write lock of the catalog entry is granted.
WriteLock == rlock \subseteq {ddl.by} /\ \A n \in Nodes : readers[n] = 0

-----------------------------------------------------------------------------
(* DiscoverTableSchema() for a handler h of definition d: the schema that  *)
(* the transaction is a reader of, the schema object of the handler, the   *)
(* schema that the transaction has discovered, the catalog, in this order. *)
(* Called by discover_check_version() for a cached handler (check), and by *)
(* ha_eloq::open() for a new one.                                          *)

\* Mutant: a cached handler is used without comparing the versions.
Mut_Bind(s, h, d, cntl, schema, dirty, check) ==
  /\ handler' = [handler EXCEPT
       ![h] = IF schema = NoSchema THEN Closed
              ELSE [share |-> d, cntl |-> cntl, schema |-> schema, dirty |-> dirty, user |-> s]]
  /\ pc' = [pc EXCEPT ![s] = IF schema = NoSchema THEN "failed" ELSE "ready"]
  /\ mdl' = IF schema = NoSchema THEN mdl ELSE mdl \cup {s}

\* The end of DiscoverTableSchema() and its caller: discover_check_version()
\* compares the versions, open() only asks for a schema.
Bind(s, h, d, cntl, schema, dirty, check) ==
  LET refused == schema = NoSchema \/ (check /\ d.ver # schema.ver)
      kept == IF schema = NoSchema THEN 0 ELSE cntl
  IN /\ handler' = [handler EXCEPT
          ![h] = IF ~ refused THEN [share |-> d, cntl |-> cntl, schema |-> schema,
                                    dirty |-> dirty, user |-> s]
                 ELSE IF check THEN [Closed EXCEPT !.share = d, !.cntl = kept]
                 ELSE Closed]
     /\ pc' = [pc EXCEPT ![s] = IF ~ refused THEN "ready" ELSE IF check THEN "stale" ELSE "failed"]
     /\ mdl' = IF refused THEN mdl ELSE mdl \cup {s}

\* GetCachedSchema()
UseCached(s, h, d, check) ==
  /\ tx[s].cached # NoSchema
  /\ Bind(s, h, d, handler[h].cntl, tx[s].cached, NoSchema, check)
  /\ UNCHANGED << tx, readers, rlock >>

\* AddReader(): the object of a superseded schema, and any object while the
\* schema is being changed, takes no readers.
AddReader(h) == handler[h].cntl = catalog.cntl /\ catalog.open

\* UpdateSchemaCntl()
UseSchemaCntl(s, h, d, check) ==
  /\ tx[s].cached = NoSchema /\ AddReader(h)
  /\ readers' = [readers EXCEPT ![NodeOf[s]] = @ + 1]
  /\ tx' = [tx EXCEPT ![s].open = TRUE, ![s].cached = catalog.schema]
  /\ Bind(s, h, d, handler[h].cntl, catalog.schema, NoSchema, check)
  /\ UNCHANGED rlock

\* GetTableSchema()
UseDiscovered(s, h, d, check) ==
  /\ tx[s].cached = NoSchema /\ ~ AddReader(h)
  /\ tx[s].disc # NoSchema
  /\ Bind(s, h, d, 0, tx[s].disc, tx[s].disc_dirty, check)
  /\ UNCHANGED << tx, readers, rlock >>

\* UpdateTableSchema(): the names of the indexes only the dirty schema has.
DirtyIndexNames == catalog.dirty.keys \ catalog.schema.keys

\* The read of the catalog, with a read lock if the table exists.
UseCatalog(s, h, d, check) ==
  /\ tx[s].cached = NoSchema /\ ~ AddReader(h)
  /\ tx[s].disc = NoSchema
  /\ CanRead(s)
  /\ rlock' = IF catalog.schema = NoSchema THEN rlock ELSE rlock \cup {s}
  /\ tx' = [tx EXCEPT ![s].open = TRUE, ![s].disc = catalog.schema,
                      ![s].disc_dirty = catalog.dirty,
                      ![s].dirty_index_names = DirtyIndexNames]
  /\ Bind(s, h, d, catalog.cntl, catalog.schema, catalog.dirty, check)
  /\ UNCHANGED readers

\* The read fails on a lock conflict; it looks as if there were no table.
CatalogReadFails(s, h, d, check) ==
  /\ tx[s].cached = NoSchema /\ ~ AddReader(h)
  /\ tx[s].disc = NoSchema
  /\ ~ CanRead(s)
  /\ tx' = [tx EXCEPT ![s].open = TRUE]
  /\ Bind(s, h, d, 0, NoSchema, NoSchema, check)
  /\ UNCHANGED << readers, rlock >>

DiscoverTableSchema(s, h, d, check) ==
  /\ \/ UseCached(s, h, d, check)
     \/ UseSchemaCntl(s, h, d, check)
     \/ UseDiscovered(s, h, d, check)
     \/ UseCatalog(s, h, d, check)
     \/ CatalogReadFails(s, h, d, check)
  /\ UNCHANGED << catalog, ddl, share, rows >>

-----------------------------------------------------------------------------
(* Opening the table in a statement.                                       *)

Opening(s) == pc[s] \in {"idle", "reopen"}
Unused(s, h) == HandlerNode[h] = NodeOf[s] /\ handler[h].user = Nobody
NoExclusiveMdl(s) ==
  \A q \in Sessions \ {s} : NodeOf[q] = NodeOf[s] => pc[q] \notin DdlPcs

\* discover_check_version() of a handler from the table cache.
open_cached(s, h) ==
  /\ Opening(s) /\ NoExclusiveMdl(s)
  /\ Unused(s, h) /\ handler[h].share # NoSchema
  /\ DiscoverTableSchema(s, h, handler[h].share, TRUE)

\* ha_eloq::open() of a new handler, with the definition that is cached.
open(s, h) ==
  /\ Opening(s) /\ NoExclusiveMdl(s)
  /\ Unused(s, h) /\ handler[h].share = NoSchema
  /\ share[NodeOf[s]] # NoSchema
  /\ UncheckedOpen \/ share[NodeOf[s]] = catalog.schema
  /\ DiscoverTableSchema(s, h, share[NodeOf[s]], FALSE)

\* eloq_discover_table(): the definition of the table read from the catalog.
eloq_discover_table(s) ==
  /\ CanRead(s)
  /\ rlock' = IF catalog.schema = NoSchema THEN rlock ELSE rlock \cup {s}
  /\ tx' = [tx EXCEPT ![s].open = TRUE]
  /\ share' = [share EXCEPT ![NodeOf[s]] = catalog.schema]
  /\ pc' = [pc EXCEPT ![s] = IF catalog.schema = NoSchema THEN "failed" ELSE "reopen"]
  /\ UNCHANGED << catalog, ddl, readers, mdl, rows >>

\* tdc_remove_table(): the handlers of the node are closed.
CloseHandlers(n) ==
  handler' = [h \in Handlers |-> IF HandlerNode[h] = n THEN Closed ELSE handler[h]]

\* No definition is cached: tdc_acquire_share().
load_share(s) ==
  /\ Opening(s) /\ NoExclusiveMdl(s)
  /\ share[NodeOf[s]] = NoSchema
  /\ eloq_discover_table(s)
  /\ UNCHANGED handler

\* OT_DISCOVER of recover_from_failed_open().
rediscover(s) ==
  /\ pc[s] = "stale"
  /\ ExclusiveMdl(s)
  /\ eloq_discover_table(s)
  /\ CloseHandlers(NodeOf[s])

-----------------------------------------------------------------------------
(* Statements and the end of the transaction.                              *)

\* The handlers when the session gives back its own.  The pointers to the
\* schemas stay behind; DiscoverTableSchema() sets them before the next use.
FreeHandlers(s) ==
  [h \in Handlers |->
     IF handler[h].user = s
     THEN [Closed EXCEPT !.share = handler[h].share, !.cntl = handler[h].cntl]
     ELSE handler[h]]

\* Mutant: the dirty indexes are left to the build.
Mut_MaintainedClean(s, h) == handler[h].schema.keys

\* Mutant: the last index of the definition is left out once there are two.
Mut_MaintainedLast(s, h) ==
  LET pos(i) == Cardinality({j \in handler[h].schema.keys : j < i})
  IN {i \in handler[h].schema.keys : pos(i) = 0 \/ pos(i) + 1 < Cardinality(handler[h].share.keys)}
       \cup tx[s].dirty_index_names

\* The indexes that a write maintains: index kid of the handler's schema for
\* every kid of the definition, then the dirty indexes of the transaction.
Maintained(s, h) ==
  LET pos(i) == Cardinality({j \in handler[h].schema.keys : j < i})
  IN {i \in handler[h].schema.keys : pos(i) < Cardinality(handler[h].share.keys)}
       \cup tx[s].dirty_index_names

\* Insert()
write_row(s, h) ==
  /\ pc[s] = "ready" /\ handler[h].user = s
  /\ tx' = [tx EXCEPT ![s].writes = @ \cup {Maintained(s, h)}]
  /\ UNCHANGED << catalog, ddl, rlock, readers, share, handler, mdl, pc, rows >>

\* close_thread_tables(): the handler goes back to the table cache.
end_statement(s) ==
  /\ pc[s] = "ready"
  /\ handler' = FreeHandlers(s)
  /\ pc' = [pc EXCEPT ![s] = "idle"]
  /\ UNCHANGED << catalog, ddl, rlock, readers, share, tx, mdl, rows >>

\* Mutant: cached_schemas_ is cleared without FinishReader().
Mut_FinishNever(s) == readers

\* The readers after the session's transaction has left its schema object.
ClearSchemaReaders(s) ==
  [readers EXCEPT ![NodeOf[s]] = IF tx[s].cached = NoSchema THEN @ ELSE @ - 1]

\* Mutant: Reset() without clearing discovered_table_schemas_.
Mut_EndTx(s) ==
  /\ rlock' = rlock \ {s}
  /\ readers' = ClearSchemaReaders(s)
  /\ tx' = [tx EXCEPT ![s] = [NoTx EXCEPT !.disc = tx[s].disc, !.disc_dirty = tx[s].disc_dirty]]
  /\ pc' = [pc EXCEPT ![s] = "idle"]
  /\ UNCHANGED << catalog, ddl, share >>

\* The transaction ends: its locks are released, then ClearSchemaReaders()
\* and Reset().
EndTx(s) ==
  /\ rlock' = rlock \ {s}
  /\ readers' = ClearSchemaReaders(s)
  /\ tx' = [tx EXCEPT ![s] = NoTx]
  /\ pc' = [pc EXCEPT ![s] = "idle"]
  /\ UNCHANGED << catalog, ddl, share >>

\* eloq_commit(); the commit may fail.
eloq_commit(s) ==
  /\ pc[s] \in {"idle", "altered"} /\ tx[s].open
  /\ EndTx(s)
  /\ mdl' = mdl \ {s}
  /\ rows' \in {rows, rows \cup tx[s].writes}
  /\ UNCHANGED handler

\* eloq_rollback() of the transaction.
eloq_rollback(s) ==
  /\ pc[s] = "idle" /\ (tx[s].open \/ s \in mdl)
  /\ EndTx(s)
  /\ mdl' = mdl \ {s}
  /\ UNCHANGED << handler, rows >>

\* eloq_rollback() of a failed statement aborts the transaction, too; in an
\* explicit transaction the metadata lock stays.
rollback_statement(s) ==
  /\ pc[s] \notin {"idle", "altered"} /\ ddl.by # s
  /\ EndTx(s)
  /\ mdl' \in {mdl, mdl \ {s}}
  /\ handler' = FreeHandlers(s)
  /\ UNCHANGED rows

-----------------------------------------------------------------------------
(* Schema changes: the statement, and UpsertTableTxRequest in the          *)
(* transaction service.                                                    *)

\* Mutant: the statement stays a reader of the schema it changes.
Mut_ClearSchemaReader(s) ==
  /\ tx' = [tx EXCEPT ![s].open = TRUE]
  /\ UNCHANGED readers

\* ClearSchemaReader()
ClearSchemaReader(s) ==
  /\ readers' = ClearSchemaReaders(s)
  /\ tx' = [tx EXCEPT ![s].open = TRUE, ![s].cached = NoSchema]

\* CREATE INDEX has opened the table: inplace_alter_table().
inplace_alter_table(s) ==
  /\ pc[s] = "ready" /\ tx[s].writes = {}
  /\ ExclusiveMdl(s)
  /\ ClearSchemaReader(s)
  /\ pc' = [pc EXCEPT ![s] = "create_index"]
  /\ UNCHANGED << catalog, ddl, rlock, share, handler, mdl, rows >>

\* DROP TABLE, after an implicit commit: the definition is forgotten, then
\* delete_table().
delete_table(s) ==
  /\ pc[s] = "idle" /\ ~ tx[s].open /\ s \notin mdl
  /\ ExclusiveMdl(s)
  /\ ClearSchemaReader(s)
  /\ share' = [share EXCEPT ![NodeOf[s]] = NoSchema]
  /\ CloseHandlers(NodeOf[s])
  /\ pc' = [pc EXCEPT ![s] = "drop_table"]
  /\ UNCHANGED << catalog, ddl, rlock, mdl, rows >>

\* CREATE TABLE, after an implicit commit and when no definition is cached:
\* create().
create(s) ==
  /\ pc[s] = "idle" /\ ~ tx[s].open /\ s \notin mdl
  /\ share[NodeOf[s]] = NoSchema
  /\ ExclusiveMdl(s)
  /\ ClearSchemaReader(s)
  /\ pc' = [pc EXCEPT ![s] = "create_table"]
  /\ UNCHANGED << catalog, ddl, rlock, share, handler, mdl, rows >>

\* The schema that the statement asks for: CREATE INDEX adds to the
\* definition with which it opened the table.
NewSchema(s) ==
  LET v == catalog.last + 1
  IN CASE pc[s] = "create_index" ->
            [ver |-> v, keys |-> {v} \cup
               UNION {handler[h].share.keys : h \in {g \in Handlers : handler[g].user = s}}]
       [] pc[s] = "create_table" -> [ver |-> v, keys |-> {v}]
       [] OTHER -> NoSchema

\* ReadCatalog() for write, and the request: the schema object takes no more
\* readers.
upsert_table(s) ==
  /\ pc[s] \in DdlOps /\ ddl.phase = "none"
  /\ (pc[s] = "create_table") = (catalog.schema = NoSchema)
  /\ catalog.last < MaxVer
  /\ ddl' = [phase |-> "lock", by |-> s, op |-> pc[s], new |-> NewSchema(s)]
  /\ catalog' = [catalog EXCEPT !.open = FALSE, !.last = @ + 1]
  /\ UNCHANGED << rlock, readers, share, handler, tx, mdl, pc, rows >>

\* The dirty schema is installed once no transaction uses the old one.
install_dirty ==
  /\ ddl.phase = "lock" /\ ddl.op = "create_index" /\ WriteLock
  /\ ddl' = [ddl EXCEPT !.phase = "dirty"]
  /\ catalog' = [catalog EXCEPT !.dirty = ddl.new]
  /\ UNCHANGED << rlock, readers, share, handler, tx, mdl, pc, rows >>

\* The new index gets an entry for every row that is committed.
build_index ==
  /\ ddl.phase = "dirty"
  /\ ddl' = [ddl EXCEPT !.phase = "built"]
  /\ rows' = {r \cup DirtyIndexNames : r \in rows}
  /\ UNCHANGED << catalog, rlock, readers, share, handler, tx, mdl, pc >>

relock ==
  /\ ddl.phase = "built"
  /\ ddl' = [ddl EXCEPT !.phase = "relock"]
  /\ UNCHANGED << catalog, rlock, readers, share, handler, tx, mdl, pc, rows >>

\* The statement is over on its node: the SQL layer forgets the definition.
FlushLocal(s) ==
  /\ pc' = [pc EXCEPT ![s] = "altered"]
  /\ share' = [share EXCEPT ![NodeOf[s]] = NoSchema]
  /\ CloseHandlers(NodeOf[s])

StatementOver ==
  IF ddl.by = Nobody THEN UNCHANGED << pc, share, handler >> ELSE FlushLocal(ddl.by)

upsert_done ==
  /\ ddl.phase = (IF ddl.op = "create_index" THEN "relock" ELSE "lock") /\ WriteLock
  /\ ddl' = NoDdl
  /\ catalog' = [catalog EXCEPT !.schema = ddl.new, !.dirty = NoSchema,
                                !.cntl = @ + 1, !.open = TRUE]
  /\ rows' = IF ddl.op = "create_index" THEN rows ELSE {}
  /\ StatementOver
  /\ UNCHANGED << rlock, readers, tx, mdl >>

\* UpsertResult::Failed: no lock, or the dirty schema and what was built is
\* dropped under the write lock.
upsert_failed ==
  /\ ddl.phase = "lock" \/ (ddl.phase = "relock" /\ WriteLock)
  /\ ddl.by # Nobody
  /\ ddl' = NoDdl
  /\ catalog' = [catalog EXCEPT !.dirty = NoSchema, !.cntl = @ + 1, !.open = TRUE]
  /\ rows' = {r \ DirtyIndexNames : r \in rows}
  /\ pc' = [pc EXCEPT ![ddl.by] = "failed"]
  /\ UNCHANGED << rlock, readers, share, handler, tx, mdl >>

\* UpsertResult::Unverified: the coordinator has lost its leadership, the
\* change goes on in a failover node and the statement returns.
upsert_unverified ==
  /\ ddl.phase # "none" /\ ddl.by # Nobody
  /\ ddl' = [ddl EXCEPT !.by = Nobody]
  /\ FlushLocal(ddl.by)
  /\ UNCHANGED << catalog, rlock, readers, tx, mdl, rows >>

-----------------------------------------------------------------------------
UpsertStep == install_dirty \/ build_index \/ relock \/ upsert_done

OpenTable(s) ==
  \/ \E h \in Handlers : open_cached(s, h) \/ open(s, h)
  \/ load_share(s)
  \/ rediscover(s)

EndTransaction(s) == eloq_commit(s) \/ eloq_rollback(s)
EndStatement(s) == end_statement(s) \/ rollback_statement(s)

Next ==
  \/ \E s \in Sessions :
       OpenTable(s) \/ EndStatement(s) \/ EndTransaction(s)
  \/ \E s \in Writers, h \in Handlers : write_row(s, h)
  \/ \E s \in Changers :
       inplace_alter_table(s) \/ delete_table(s) \/ create(s) \/ upsert_table(s)
  \/ UpsertStep \/ upsert_failed \/ upsert_unverified

Spec == Init /\ [][Next]_vars

\* The transaction service carries on with a schema change; a statement ends,
\* if need be by a lock timeout; a client ends its transactions.
FairSpec ==
  /\ Spec
  /\ WF_vars(UpsertStep)
  /\ \A s \in Sessions : WF_vars(EndStatement(s)) /\ SF_vars(EndTransaction(s))

-----------------------------------------------------------------------------
(* Properties.                                                             *)

\* Type invariant of the catalog, the caches and the transactions.
TypeOK ==
  /\ catalog \in [schema : Schema, dirty : Schema, cntl : Nat, open : BOOLEAN, last : 0 .. MaxVer]
  /\ ddl \in [phase : {"none", "lock", "dirty", "built", "relock"}, by : Sessions \cup {Nobody},
              op : DdlOps \cup {"none"}, new : Schema]
  /\ rlock \subseteq Sessions /\ mdl \subseteq Sessions
  /\ readers \in [Nodes -> Nat]
  /\ share \in [Nodes -> Schema]
  /\ handler \in [Handlers -> [share : Schema, cntl : Nat, schema : Schema, dirty : Schema,
                               user : Sessions \cup {Nobody}]]
  /\ tx \in [Sessions -> [open : BOOLEAN, cached : Schema, disc : Schema, disc_dirty : Schema,
                          dirty_index_names : SUBSET Index, writes : SUBSET SUBSET Index]]
  /\ pc \in [Sessions -> {"idle", "ready", "stale", "reopen", "failed"} \cup DdlPcs]
  /\ rows \subseteq SUBSET Index

\* The schema that a transaction has read is the catalog's, and the dirty
\* schema it knows of is the one installed, until the transaction ends
\* (comment of discover_check_version()): neither a schema change of another
\* node nor one that began earlier replaces it.  Only the statement that
\* changes the schema itself is past this.
SchemaPinned ==
  \A s \in Sessions :
    /\ tx[s].cached # NoSchema =>
         catalog.schema = tx[s].cached /\ catalog.dirty = NoSchema
    /\ tx[s].disc # NoSchema /\ pc[s] \notin DdlPcs =>
         catalog.schema = tx[s].disc /\ catalog.dirty = tx[s].disc_dirty

\* A statement works with one definition: the TABLE_SHARE from which the SQL
\* layer plans and fills rows is the schema that the handler writes with, and
\* the handler has the dirty schema in which Insert() looks up the dirty
\* indexes of the transaction, however the schema was found.
OneDefinition ==
  \A s \in Sessions, h \in Handlers :
    pc[s] = "ready" /\ handler[h].user = s =>
      /\ handler[h].share = handler[h].schema
      /\ tx[s].dirty_index_names \subseteq handler[h].dirty.keys

\* What a transaction has written maintains the indexes of the table and the
\* index that is being built (the double write of concurrent statements).
WritesMaintainIndexes ==
  \A s \in Sessions : \A w \in tx[s].writes :
    catalog.schema.keys \cup DirtyIndexNames \subseteq w

\* Every committed row has an entry in every index of the table, and from
\* the end of its build on also in the new index, whoever wrote the row while
\* the schema changed.
EveryRowIndexed ==
  \A r \in rows :
    /\ catalog.schema.keys \subseteq r
    /\ ddl.phase \in {"built", "relock"} => ddl.new.keys \subseteq r

\* The readers of the schema object are the transactions that have it in
\* cached_schemas_: none is left behind by a commit, an abort, a failed
\* statement or a schema change, and none is released twice.
ReadersExact ==
  \A n \in Nodes :
    readers[n] = Cardinality({s \in Sessions : NodeOf[s] = n /\ tx[s].cached # NoSchema})

\* A schema change that has been requested comes to an end: it does not wait
\* for a reader that never leaves, its own session's included (the reason
\* for ClearSchemaReader() in create(), delete_table(), inplace_alter_table()).
SchemaChangeEnds == ddl.phase # "none" ~> ddl.phase = "none"
=============================================================================
