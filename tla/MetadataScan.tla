---------------------------- MODULE MetadataScan ----------------------------
(***************************************************************************)
(* A catalog reader at work while other sessions create and drop objects:  *)
(* load_metadata of src/driver.rs ("driver") and metadata of               *)
(* native/source/mssql.rs ("adapter").  Each sends its queries one after   *)
(* another on its own session, in no transaction, and folds their rows     *)
(* into one map from names to objects.                                     *)
(*                                                                         *)
(* A query's answer is of one instant (read committed, short statements);  *)
(* two queries may see different catalogs.  A name stands for schema and   *)
(* name together, in the order of the BTreeMaps and of "order by".  The    *)
(* name of a column or an index is the sequence of its parts between       *)
(* commas.  Types, defaults and nullability travel with their column and   *)
(* are left out.                                                           *)
(***************************************************************************)
EXTENDS Catalog

CONSTANTS
  N,        \* how many names objects may have
  Shapes,   \* definitions an object may have
  MaxDdl,   \* bound: DDL statements during the scan
  Absent

IsSequence(s) == Len(s) \in Nat /\ s = [i \in 1..Len(s) |-> s[i]]

RelationKinds == {"table", "view"}
RoutineKinds == {"procedure", "function"}

(* What the server lets an object be: a name is not empty, an index and a  *)
(* foreign key have columns.  What no reader asks for, like the indexes of *)
(* a view, is left out.                                                    *)
ShapeForm(d) ==
  /\ d = [kind |-> d.kind, columns |-> d.columns, indexes |-> d.indexes,
          primaryKey |-> d.primaryKey, foreignKeys |-> d.foreignKeys]
  /\ d.kind \in RelationKinds \cup RoutineKinds
  /\ IsSequence(d.columns) /\ IsSequence(d.indexes)
  /\ IsSequence(d.primaryKey) /\ IsSequence(d.foreignKeys)
  /\ d.kind \in RoutineKinds => d.columns = <<>>
  /\ d.kind # "table" => d.indexes = <<>> /\ d.primaryKey = <<>> /\ d.foreignKeys = <<>>
  /\ \A i \in 1..Len(d.indexes) :
       LET index == d.indexes[i] IN
       /\ index = [name |-> index.name, columns |-> index.columns]
       /\ IsSequence(index.columns)
       /\ \A k \in 1..Len(index.columns) :
            IsSequence(index.columns[k]) /\ index.columns[k] # <<"">>
  /\ \A i \in 1..Len(d.foreignKeys) :
       LET fk == d.foreignKeys[i] IN
       /\ IsSequence(fk.columns) /\ IsSequence(fk.references)
       /\ Len(fk.columns) = Len(fk.references) /\ fk.columns # <<>>
       /\ \A k \in 1..(i - 1) : d.foreignKeys[k].constraint # fk.constraint

ASSUME ScanAssumption ==
  /\ N \in Nat /\ MaxDdl \in Nat
  /\ Absent \notin Shapes
  /\ \A d \in Shapes : ShapeForm(d)

Names == 1..N

VARIABLES
  reader,   \* which of the two scans this is
  db,       \* name -> its definition on the server, or Absent
  past,     \* name -> the definitions it has had since the scan began
  asked,    \* queries answered so far
  catalog,  \* schemas: what the scan has put together
  ended,    \* "no", "ok" or "failed"
  ddl       \* DDL statements so far

vars == <<reader, db, past, asked, catalog, ended, ddl>>

Queries(r) ==
  IF r = "driver" THEN <<"objects", "columns">>
  ELSE <<"objects", "columns", "indexes", "primaryKeys", "foreignKeys", "routines">>

IsRelation(d) == d # Absent /\ d.kind \in RelationKinds
IsTable(d) == d # Absent /\ d.kind = "table"
IsRoutine(d) == d # Absent /\ d.kind \in RoutineKinds

(* A foreign key refers to columns of a table that is there.               *)
Consistent(d) == \A n \in Names : d[n] # Absent =>
  \A i \in DOMAIN d[n].foreignKeys :
    LET fk == d[n].foreignKeys[i] IN
      IsTable(d[fk.table]) /\ Range(fk.references) \subseteq Range(d[fk.table].columns)

TypeOK ==
  /\ reader \in {"driver", "adapter"}
  /\ db \in [Names -> Shapes \cup {Absent}] /\ Consistent(db)
  /\ past \in [Names -> SUBSET (Shapes \cup {Absent})]
  /\ asked \in 0..6
  /\ DOMAIN catalog \subseteq Names
  /\ ended \in {"no", "ok", "failed"}
  /\ ended = "failed" => catalog = EmptyCatalog
  /\ ddl \in 0..MaxDdl

Init ==
  /\ reader \in {"driver", "adapter"}
  /\ db \in [Names -> Shapes \cup {Absent}] /\ Consistent(db)
  /\ past = [n \in Names |-> {db[n]}]
  /\ asked = 0
  /\ catalog = EmptyCatalog
  /\ ended = "no"
  /\ ddl = 0

-----------------------------------------------------------------------------
(* The rows of each query, by name.  Part gives an object's own, in order. *)

RowsOf(Has(_), Part(_, _)) ==
  FlattenSeq([n \in Names |-> IF Has(db[n]) THEN Part(n, db[n]) ELSE <<>>])

ObjectRows == RowsOf(IsRelation, LAMBDA n, d : <<[name |-> n, kind |-> d.kind]>>)
RoutineRows == RowsOf(IsRoutine, LAMBDA n, d : <<[name |-> n, kind |-> d.kind]>>)
ColumnRows == RowsOf(IsRelation, LAMBDA n, d :
  [i \in DOMAIN d.columns |-> [name |-> n, value |-> d.columns[i]]])
(* An index's columns come joined with commas, in one text, and are taken  *)
(* apart at commas.                                                        *)
Listed(columns) ==
  LET parts == FlattenSeq(columns)
  IN FlattenSeq([i \in DOMAIN parts |-> IF parts[i] = "" THEN <<>> ELSE <<<<parts[i]>>>>])
IndexRows == RowsOf(IsTable, LAMBDA n, d :
  [i \in DOMAIN d.indexes |->
    [name |-> n, value |-> [d.indexes[i] EXCEPT !.columns = Listed(@)]]])
KeyRows == RowsOf(IsTable, LAMBDA n, d :
  [i \in DOMAIN d.primaryKey |-> [name |-> n, value |-> d.primaryKey[i]]])
(* One row for each column of each constraint. *)
ForeignRows == RowsOf(IsTable, LAMBDA n, d :
  FlattenSeq([i \in DOMAIN d.foreignKeys |->
    LET fk == d.foreignKeys[i] IN
      [k \in DOMAIN fk.columns |->
        [name |-> n, constraint |-> fk.constraint, column |-> fk.columns[k],
         table |-> fk.table, reference |-> fk.references[k]]]]))

Rows(query) ==
  CASE query = "objects" -> ObjectRows
    [] query = "columns" -> ColumnRows
    [] query = "indexes" -> IndexRows
    [] query = "primaryKeys" -> KeyRows
    [] query = "foreignKeys" -> ForeignRows
    [] query = "routines" -> RoutineRows

-----------------------------------------------------------------------------
(* What is made of the rows.                                               *)

(* A mutant: an object that is not listed is registered, as a table.       *)
AttachRegistering(c, row, part) ==
  LET known == IF row.name \in DOMAIN c THEN c ELSE AddObject(c, row.name, "table")
  IN [known EXCEPT ![row.name][part] = Append(@, row.value)]

(* The row of an object that is not listed is passed over. *)
Attach(c, row, part) ==
  ObjectMut(c, row.name, LAMBDA o : [o EXCEPT ![part] = Append(@, row.value)])

(* The driver's column loop registers an object it does not know, as a     *)
(* table.                                                                  *)
AddColumnDriver(c, row) ==
  LET known == IF row.name \in DOMAIN c THEN c ELSE AddObject(c, row.name, "table")
  IN ObjectMut(known, row.name, LAMBDA o : [o EXCEPT !.columns = Append(@, row.value)])

(* A mutant: the rows of one table are one foreign key.                    *)
KeyOfByTable(row) == <<row.name>>

(* Rows with the same key belong to one foreign key.                       *)
KeyOf(row) == <<row.name, row.constraint>>

(* current is the key of the foreign key under construction. A row of an   *)
(* object that is not listed leaves it alone.                              *)
AddForeignRow(s, row) ==
  IF row.name \notin DOMAIN s.catalog THEN s
  ELSE LET fks == s.catalog[row.name].foreignKeys
           open == IF s.current = KeyOf(row) THEN fks
                   ELSE Append(fks, [columns |-> <<>>, table |-> row.table, references |-> <<>>])
           last == [open[Len(open)] EXCEPT !.columns = Append(@, row.column),
                                           !.references = Append(@, row.reference)]
       IN [catalog |-> [s.catalog EXCEPT ![row.name].foreignKeys = [open EXCEPT ![Len(open)] = last]],
           current |-> KeyOf(row)]

(* One row of a query's answer.                                            *)
AddRow(query, s, row) ==
  CASE query \in {"objects", "routines"} ->
         [s EXCEPT !.catalog = AddObject(@, row.name, row.kind)]
    [] query = "columns" /\ reader = "driver" ->
         [s EXCEPT !.catalog = AddColumnDriver(@, row)]
    [] query = "columns" /\ reader # "driver" ->
         [s EXCEPT !.catalog = Attach(@, row, "columns")]
    [] query = "indexes" -> [s EXCEPT !.catalog = Attach(@, row, "indexes")]
    [] query = "primaryKeys" -> [s EXCEPT !.catalog = Attach(@, row, "primaryKey")]
    [] query = "foreignKeys" -> AddForeignRow(s, row)

(* The rows of an answer, one after the other, from a state s.             *)
Fold(query, s, rows) ==
  LET after[i \in 0..Len(rows)] ==
        IF i = 0 THEN s ELSE AddRow(query, after[i - 1], rows[i])
  IN after[Len(rows)]

(* The catalog as a query's answer leaves it.                              *)
Answered(query, c) == Fold(query, [catalog |-> c, current |-> <<>>], Rows(query)).catalog

(* One query, from its statement to the last row of its answer.            *)
Query ==
  /\ ended = "no"
  /\ asked' = asked + 1
  /\ catalog' = Answered(Queries(reader)[asked + 1], catalog)
  /\ ended' = IF asked' = Len(Queries(reader)) THEN "ok" ELSE "no"
  /\ UNCHANGED <<reader, db, past, ddl>>

(* It fails, at its statement or in the middle of its answer: the scan     *)
(* ends and what it has put together is dropped.                           *)
QueryFails ==
  /\ ended = "no"
  /\ ended' = "failed"
  /\ catalog' = EmptyCatalog
  /\ UNCHANGED <<reader, db, past, asked, ddl>>

(* Another session creates, drops or replaces an object.                   *)
Ddl(n, d) ==
  /\ ended = "no" /\ ddl < MaxDdl
  /\ d # db[n]
  /\ db' = [db EXCEPT ![n] = d] /\ Consistent(db')
  /\ past' = [past EXCEPT ![n] = @ \cup {d}]
  /\ ddl' = ddl + 1
  /\ UNCHANGED <<reader, asked, catalog, ended>>

Next ==
  \/ Query \/ QueryFails
  \/ \E n \in Names, d \in Shapes \cup {Absent} : Ddl(n, d)

Spec == Init /\ [][Next]_vars

-----------------------------------------------------------------------------

(* What a scan is to report of an object that stays as it is.              *)
Faithful(d) ==
  IF reader = "driver" THEN [NewObject(d.kind) EXCEPT !.columns = d.columns]
  ELSE [kind |-> d.kind, columns |-> d.columns,
        indexes |-> d.indexes, primaryKey |-> d.primaryKey,
        foreignKeys |-> [i \in DOMAIN d.foreignKeys |->
          [columns |-> d.foreignKeys[i].columns, table |-> d.foreignKeys[i].table,
           references |-> d.foreignKeys[i].references]]]

(* One part of a report against the definition. An index is reported under *)
(* its name, and with its columns unless the name of one has a comma.      *)
Agrees(part, seen, d) ==
  IF part # "indexes" THEN seen = Faithful(d)[part]
  ELSE LET indexes == Faithful(d).indexes IN
    /\ Len(seen) = Len(indexes)
    /\ \A i \in DOMAIN seen :
         /\ seen[i].name = indexes[i].name
         /\ (\A k \in DOMAIN indexes[i].columns : Len(indexes[i].columns[k]) = 1)
              => seen[i].columns = indexes[i].columns

Reported(d) == IF reader = "driver" THEN IsRelation(d) ELSE d # Absent

(* Whatever other sessions do to other objects between the queries, an     *)
(* object that nobody touches is reported once, with its kind, its columns *)
(* in order, its indexes, its key and each of its foreign keys by itself;  *)
(* and one that is not there is not reported (load_metadata, metadata).  A *)
(* comma in a column's name spoils the column list of the indexes over     *)
(* that column, and nothing else.                                          *)
UntouchedIsExact == ended = "ok" => \A n \in Names : past[n] = {db[n]} =>
  IF Reported(db[n])
    THEN /\ n \in DOMAIN catalog
         /\ \A part \in DOMAIN catalog[n] : Agrees(part, catalog[n][part], db[n])
    ELSE n \notin DOMAIN catalog

(* An object that changes during the scan may be reported in parts, but    *)
(* each part whole and from a definition it had meanwhile, or missing; and *)
(* nothing is reported under a name that was never taken.  The kind is one *)
(* the object had, except that the driver calls a table whatever was       *)
(* created after it read the list of objects.                              *)
PartsAreWhole == ended = "ok" => \A n \in DOMAIN catalog :
  LET had == {d \in past[n] \ {Absent} : Reported(d)} IN
  /\ had # {}
  /\ \E d \in had : catalog[n].kind = d.kind \/ (reader = "driver" /\ past[n] # {d})
  /\ \A part \in {"columns", "indexes", "primaryKey", "foreignKeys"} :
       catalog[n][part] = <<>> \/ \E d \in had : Agrees(part, catalog[n][part], d)

(* The catalog survives its way into a snapshot for completion and back:   *)
(* the same objects with the same columns, indexes and foreign keys, and   *)
(* with the same key, as long as the key's own index is there with its     *)
(* columns, and no other lies within the key or is named like one of its   *)
(* columns (convert_metadata_to_snapshot, convert_snapshot_to_metadata).   *)
SnapshotKeepsCatalog == ended = "ok" =>
  LET back == FromSnapshot(ToSnapshot(catalog)) IN
  /\ DOMAIN back = DOMAIN catalog
  /\ \A n \in DOMAIN catalog :
       LET o == catalog[n] IN
       /\ [back[n] EXCEPT !.primaryKey = o.primaryKey] = o
       /\ /\ o.primaryKey = <<>> \/ \E i \in DOMAIN o.indexes : o.indexes[i].columns = o.primaryKey
          /\ \A i \in DOMAIN o.indexes :
               /\ Range(o.indexes[i].columns) \subseteq Range(o.primaryKey) =>
                    o.indexes[i].columns = o.primaryKey
               /\ o.indexes[i].name \notin Range(o.primaryKey)
          => back[n].primaryKey = o.primaryKey

-----------------------------------------------------------------------------
(* What they rest on.                                                      *)

Parts == {"columns", "indexes", "primaryKey", "foreignKeys"}

(* The number of the query that reads a part; the driver sends but two.    *)
ReadBy(part) ==
  CASE part = "columns" -> 2
    [] part = "indexes" -> 3
    [] part = "primaryKey" -> 4
    [] part = "foreignKeys" -> 5

(* Has a query asked for objects like this one? *)
AskedFor(d) == (IsRelation(d) /\ asked >= 1) \/ (IsRoutine(d) /\ asked >= 6)

Progress ==
  /\ ended = "no" => asked < Len(Queries(reader))
  /\ ended = "ok" => asked = Len(Queries(reader))
  /\ \A n \in Names : db[n] \in past[n]

ObjectForm(o) ==
  /\ o = [kind |-> o.kind, columns |-> o.columns, indexes |-> o.indexes,
          primaryKey |-> o.primaryKey, foreignKeys |-> o.foreignKeys]
  /\ o.kind \in RelationKinds \cup RoutineKinds
  /\ o.kind \in RoutineKinds => o = NewObject(o.kind)
  /\ \A i \in DOMAIN o.indexes :
       o.indexes[i] = [name |-> o.indexes[i].name, columns |-> o.indexes[i].columns]
  /\ IsSequence(o.indexes)

(* Each part of a report is of a definition that the object had.           *)
Attributed == \A n \in DOMAIN catalog :
  LET had == {d \in past[n] : AskedFor(d)}
      o == catalog[n]
  IN /\ ObjectForm(o) /\ (o.kind \in RoutineKinds => asked >= 6)
     /\ had # {}
     /\ \E d \in had : o.kind = d.kind \/ (reader = "driver" /\ past[n] # {d})
     /\ \A part \in Parts :
          \/ o[part] = <<>>
          \/ asked >= ReadBy(part) /\ \E d \in had : Agrees(part, o[part], d)

(* What nobody touches is there as soon as it has been asked for.          *)
Exact == \A n \in Names : past[n] = {db[n]} =>
  /\ n \in DOMAIN catalog <=> ended # "failed" /\ AskedFor(db[n])
  /\ n \in DOMAIN catalog =>
       /\ catalog[n].kind = db[n].kind
       /\ \A part \in Parts :
            asked >= ReadBy(part) => Agrees(part, catalog[n][part], db[n])

(* The inductive invariant of a scan: what has been put together so far is *)
(* traced to what the objects were since it began, and exact where nothing *)
(* has changed (load_metadata, metadata).                                  *)
IInv == TypeOK /\ Progress /\ Attributed /\ Exact
=============================================================================
