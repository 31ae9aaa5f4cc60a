------------------------------ MODULE Catalog -------------------------------
(***************************************************************************)
(* The catalog model of the desktop application (db/meta.rs): the builder  *)
(* that collects objects under their names, and the two conversions        *)
(* between a catalog and the snapshot that completion works on.            *)
(*                                                                         *)
(* A catalog is a function from names to objects; its domain is what the   *)
(* nested BTreeMaps hold, so that it is sorted and free of duplicates.     *)
(***************************************************************************)
EXTENDS Integers, FiniteSets, Sequences, SequencesExt, FiniteSetsExt

EmptyCatalog == <<>>

(* An object as it is registered, before anything is attached to it.       *)
NewObject(kind) ==
  [kind |-> kind, columns |-> <<>>, indexes |-> <<>>,
   primaryKey |-> <<>>, foreignKeys |-> <<>>]

(* A mutant: what was under the name keeps what was attached to it.        *)
AddObjectOver(c, n, kind) ==
  [m \in {n} \cup DOMAIN c |->
    IF m # n THEN c[m]
    ELSE IF n \in DOMAIN c THEN [c[n] EXCEPT !.kind = kind] ELSE NewObject(kind)]

(* MetaBuilder::add_object, which replaces what was under the name.        *)
AddObject(c, n, kind) ==
  [m \in {n} \cup DOMAIN c |-> IF m = n THEN NewObject(kind) ELSE c[m]]

(* MetaBuilder::object_mut: Change what is registered, if it is.           *)
ObjectMut(c, n, Change(_)) ==
  IF n \in DOMAIN c THEN [c EXCEPT ![n] = Change(@)] ELSE c

-----------------------------------------------------------------------------
(* convert_metadata_to_snapshot: tables and views on one list, routines on *)
(* another, anything else dropped; an index is marked primary.             *)

(* A mutant: any index that shares a column with the key is primary.       *)
MarkedPrimaryBySharing(object, index) ==
  \E i \in DOMAIN index.columns : index.columns[i] \in Range(object.primaryKey)

MarkedPrimary(object, index) ==
  \/ index.name \in Range(object.primaryKey)
  \/ \A i \in DOMAIN index.columns : index.columns[i] \in Range(object.primaryKey)

ToSnapshotObject(object) ==
  [kind |-> object.kind, columns |-> object.columns,
   indexes |-> [i \in DOMAIN object.indexes |->
     [name |-> object.indexes[i].name, columns |-> object.indexes[i].columns,
      primary |-> MarkedPrimary(object, object.indexes[i])]],
   foreignKeys |-> object.foreignKeys]

ToSnapshot(c) ==
  LET of(kinds) == {n \in DOMAIN c : c[n].kind \in kinds} IN
    [objects |-> [n \in of({"table", "view"}) |-> ToSnapshotObject(c[n])],
     routines |-> [n \in of({"procedure", "function"}) |-> c[n].kind]]

(* snapshot_object: the key is the columns of the first primary index.     *)
FromSnapshotObject(object) ==
  LET primary == {i \in DOMAIN object.indexes : object.indexes[i].primary} IN
    [kind |-> object.kind, columns |-> object.columns,
     indexes |-> [i \in DOMAIN object.indexes |->
       [name |-> object.indexes[i].name, columns |-> object.indexes[i].columns]],
     primaryKey |-> IF primary = {} THEN <<>> ELSE object.indexes[Min(primary)].columns,
     foreignKeys |-> object.foreignKeys]

(* convert_snapshot_to_metadata.                                           *)
FromSnapshot(s) ==
  [n \in DOMAIN s.objects \cup DOMAIN s.routines |->
    IF n \in DOMAIN s.objects THEN FromSnapshotObject(s.objects[n])
                              ELSE NewObject(s.routines[n])]
=============================================================================
