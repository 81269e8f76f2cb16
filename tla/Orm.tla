-------------------------------- MODULE Orm --------------------------------
(***************************************************************************)
(* How TypeORM's Repository.save(entity) persists an entity that a handler *)
(* loaded earlier and changed in memory (external code; modelled from the  *)
(* way the services use it).                                               *)
(*                                                                         *)
(*   save(e):  SELECT the row with e's id            (Reload)              *)
(*             no row   -> INSERT every column of e                        *)
(*             a row    -> UPDATE the columns in which e differs from it   *)
(*                                                                         *)
(* The entity carries ALL the columns as they were when it was loaded, so  *)
(* a column another request has changed meanwhile differs from the row and *)
(* is written back with its old value.  The SELECT and the UPDATE are two  *)
(* statements: a change that commits between them is not seen by the diff. *)
(* A row is a record with one field per column.                            *)
(***************************************************************************)

\* The columns save() will update: those in which the entity differs from
\* the row it has just re-read.
Dirty(entity, row) == {c \in DOMAIN row : entity[c] # row[c]}

\* The row after UPDATE ... SET <columns> = <the entity's values>.
WriteBack(row, entity, columns) ==
    [c \in DOMAIN row |-> IF c \in columns THEN entity[c] ELSE row[c]]
=============================================================================
