------------------------------- MODULE Boards -------------------------------
(***************************************************************************)
(* DashboardRepository: the moves of a learner from one dashboard table to *)
(* the next.  A move finds the row, saves it to the next table (a SELECT,  *)
(* and an INSERT if it is not there) and deletes it from its own, without  *)
(* a transaction.  Nothing ever inserts into recruiter_dashboard, so that  *)
(* moveStudent takes the learner from prospective_students, where it       *)
(* stays, and its DELETE finds nothing.                                    *)
(***************************************************************************)
EXTENDS Records

Origin(r) == CASE req[r].call = "moveStudentToAccessor" -> "bksd"
               [] req[r].call = "moveStudentToInductor" -> "accessor"
               [] OTHER -> "recruiter"
Target(r) == CASE req[r].call = "moveStudentToAccessor" -> "accessor"
               [] req[r].call = "moveStudentToInductor" -> "inductor"
               [] OTHER -> "bksd"

Move(r, name, ids) ==
    /\ \E id \in ids : Enter(r, name, [Fresh EXCEPT !.pc = "move.select", !.id = id])
    /\ UNCHANGED tables

MoveStudent(r) == Move(r, "moveStudent", {id \in DOMAIN learners : Row(learners, id)})
MoveStudentToAccessor(r) == Move(r, "moveStudentToAccessor", boards["bksd"])
MoveStudentToInductor(r) == Move(r, "moveStudentToInductor", boards["accessor"])

\* Mutant of MoveSelect: the row is deleted before the save.
MoveSelectDeleting(r) ==
    /\ At(r, "move.select")
    /\ boards' = [b \in Board |-> IF b = Origin(r) THEN boards[b] \ {req[r].id} ELSE boards[b]]
    /\ Goto(r, IF req[r].id \in boards[Target(r)] THEN "move.delete" ELSE "move.insert")
    /\ UNCHANGED <<learners, folders, documents, files, trashed>>
MoveSelect(r) ==
    /\ At(r, "move.select")
    /\ Goto(r, IF req[r].id \in boards[Target(r)] THEN "move.delete" ELSE "move.insert")
    /\ UNCHANGED tables

\* The primary key refuses the second of two inserts.
MoveInsert(r) ==
    /\ At(r, "move.insert")
    /\ IF req[r].id \in boards[Target(r)] THEN Return(r) ELSE Goto(r, "move.delete")
    /\ boards' = [boards EXCEPT ![Target(r)] = @ \cup {req[r].id}]
    /\ UNCHANGED <<learners, folders, documents, files, trashed>>

MoveDelete(r) ==
    /\ At(r, "move.delete")
    /\ boards' = [b \in Board |-> IF b = Origin(r) THEN boards[b] \ {req[r].id} ELSE boards[b]]
    /\ Return(r)
    /\ UNCHANGED <<learners, folders, documents, files, trashed>>

BoardCall(r) == MoveStudent(r) \/ MoveStudentToAccessor(r) \/ MoveStudentToInductor(r)
BoardStep(r) == MoveSelect(r) \/ MoveInsert(r) \/ MoveDelete(r)
=============================================================================
