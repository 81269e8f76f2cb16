------------------------------- MODULE Schema -------------------------------
(***************************************************************************)
(* What PostgreSQL makes of the statements the migrations send it.  The    *)
(* schema is a function from the things that exist to what matters of      *)
(* them.  A thing is <<kind, owner, name>>: a table, a column, constraint, *)
(* index or row of a table, an enumerated type or a label of one.  A       *)
(* column is "required" when it is NOT NULL without a default; a foreign   *)
(* key is [column, to, rule]; nothing matters of the others.  Column types *)
(* and lengths are left out, and so is how often a row occurs.             *)
(*                                                                         *)
(* A statement is [verb, things].  A query is a sequence of statements,    *)
(* run as one: PostgreSQL puts a query of several statements in a          *)
(* transaction of its own when none is open.                               *)
(***************************************************************************)
EXTENDS Functions, SequencesExt, TLC

Things(kind, owner, names, note) == [i \in {<<kind, owner, n>> : n \in names} |-> note]

(* What a statement may be about. *)
Columns(t, required, optional) ==
  Things("column", t, required, "required") @@ Things("column", t, optional, "optional")
Table(t, required, optional) ==
  Things("table", t, {t}, "") @@ Columns(t, required, optional \cup {"id"})
Key(t, name, column, to, rule) ==
  Things("constraint", t, {name}, [column |-> column, to |-> to, rule |-> rule])
Constraint(t, name, column) == Key(t, name, column, t, "NONE")
Index(t, names) == Things("index", t, names, "")
Type(type, labels) ==
  Things("type", type, {type}, "") @@ Things("label", type, labels, "")
Rows(t, names) == Things("row", t, names, "")

(* The verbs: CREATE or ADD; the same IF NOT EXISTS, or by an INSERT that  *)
(* may repeat a row; the same if no constraint has the name; DROP; DROP IF *)
(* EXISTS or DELETE; ALTER; what PostgreSQL does not parse; COMMIT.        *)
Create(f)  == [verb |-> "create", things |-> f]
Ensure(f)  == [verb |-> "ensure", things |-> f]
EnsureNamed(f) == [verb |-> "ensureNamed", things |-> f]
Drop(f)    == [verb |-> "drop", things |-> f]
Discard(f) == [verb |-> "discard", things |-> f]
Alter(f)   == [verb |-> "alter", things |-> f]
Nonsense   == [verb |-> "nonsense", things |-> <<>>]
Commit     == [verb |-> "commit", things |-> <<>>]
Nothing == <<>>                                  \* the schema of a new database

(***************************************************************************)
(* What an IF NOT EXISTS leaves to add.  A table or a type that exists     *)
(* stays as it is, whatever its columns or labels; a constraint looked up  *)
(* by its name alone is found on any table.                                *)
(***************************************************************************)
Absent(s, db) ==
  LET wanted == DOMAIN s.things
      there  == wanted \cap DOMAIN db IN
  IF \/ \E i \in there : i[1] \in {"table", "type"}
     \/ s.verb = "ensureNamed" /\ \E i \in wanted, j \in DOMAIN db : i[1] = j[1] /\ i[3] = j[3]
  THEN {} ELSE wanted \ there

(* Things that go with the ones dropped: what belongs to a table, and the  *)
(* constraints over a column.                                              *)
Dependent(D, db) ==
  {i \in DOMAIN db : \/ <<"table", i[2], i[2]>> \in D
                     \/ <<"type", i[2], i[2]>> \in D
                     \/ i[1] = "constraint" /\ <<"column", i[2], db[i].column>> \in D}

(***************************************************************************)
(* What must hold of a statement that adds the things new: their table or  *)
(* type exists, a key finds its column and the table it points to, and no  *)
(* required column meets rows that have no value for it.                   *)
(***************************************************************************)
CanAdd(new, f, db) ==
  LET all == DOMAIN db \cup new IN
  \A i \in new :
    /\ CASE i[1] = "label" -> <<"type", i[2], i[2]>> \in all
         [] i[1] \in {"type", "extension", "function"} -> TRUE
         [] OTHER -> <<"table", i[2], i[2]>> \in all
    /\ i[1] = "constraint" => /\ <<"column", i[2], f[i].column>> \in all
                              /\ <<"table", f[i].to, f[i].to>> \in all
    /\ i[1] = "column" /\ f[i] = "required" /\ <<"table", i[2], i[2]>> \notin new =>
         ~ \E r \in DOMAIN db : r[1] = "row" /\ r[2] = i[2]

(* A table another table's key points to cannot be dropped. *)
CanDrop(D, db) ==
  \A i \in DOMAIN db \ Dependent(D, db) :
    i[1] = "constraint" => <<"table", db[i].to, db[i].to>> \notin D

Succeeds(s, db) ==
  CASE s.verb = "create"  -> /\ DOMAIN s.things \cap DOMAIN db = {}
                             /\ CanAdd(DOMAIN s.things, s.things, db)
    [] s.verb \in {"ensure", "ensureNamed"} -> CanAdd(Absent(s, db), s.things, db)
    [] s.verb = "drop"    -> /\ DOMAIN s.things \subseteq DOMAIN db
                             /\ CanDrop(DOMAIN s.things, db)
    [] s.verb = "discard" -> CanDrop(DOMAIN s.things, db)
    [] s.verb = "alter"   -> DOMAIN s.things \subseteq DOMAIN db
    [] s.verb = "commit"  -> TRUE
    [] OTHER              -> FALSE

Effect(s, db) ==
  CASE s.verb = "create" -> s.things @@ db
    [] s.verb \in {"ensure", "ensureNamed"} -> Restrict(s.things, Absent(s, db)) @@ db
    [] s.verb \in {"drop", "discard"} ->
         Restrict(db, DOMAIN db \ (DOMAIN s.things \cup Dependent(DOMAIN s.things, db)))
    [] s.verb = "alter"  -> s.things @@ db
    [] OTHER             -> db

(* After a query: FALSE in ok once a statement has failed. *)
Run(query, db) ==
  FoldLeft(LAMBDA at, s : IF at.ok /\ Succeeds(s, at.db)
                          THEN [ok |-> TRUE, db |-> Effect(s, at.db)]
                          ELSE [at EXCEPT !.ok = FALSE],
           [ok |-> TRUE, db |-> db], query)
==============================================================================
