----------------------------- MODULE Milestones -----------------------------
(***************************************************************************)
(* What the pipeline promises about one learner's progress.  A learner     *)
(* goes through milestones, each only after the one it depends on; the     *)
(* dashboards show some of them.  What is shown may be out of date or go   *)
(* back, but nothing is ever shown that has not happened.                  *)
(***************************************************************************)
CONSTANT Learner
VARIABLES
    reached,   \* [Learner -> milestones gone through]
    shown      \* [Learner -> milestones the learner's record shows]

Milestone == { "created", "account", "mailed", "sent",
               "approved", "rejected", "linked", "present" }

\* The milestones that must have come before m.
Before(m) ==
    CASE m = "created"                -> {}
      [] m = "account"                -> {"created"}
      [] m = "mailed"                 -> {"created", "account"}
      [] m = "sent"                   -> {"created", "account", "mailed"}
      [] m \in {"approved", "rejected"} ->
            {"created", "account", "mailed", "sent"}
      [] m \in {"linked", "present"}  ->
            {"created", "account", "mailed", "sent", "approved"}

Init ==
    /\ reached \in [Learner -> {{}, {"created"}}]
    /\ shown = [l \in Learner |-> {}]

\* The record of l changes: it shows milestones l has reached.
Show(l) ==
    /\ \E S \in SUBSET reached'[l] : shown' = [shown EXCEPT ![l] = S]

Advance(l) ==
    /\ \E m \in Milestone :
          /\ Before(m) \subseteq reached[l]
          /\ reached' = [reached EXCEPT ![l] = @ \cup {m}]
    /\ Show(l)

Refresh(l) ==
    /\ UNCHANGED reached
    /\ Show(l)

Next == \E l \in Learner : Advance(l) \/ Refresh(l)

Spec == Init /\ [][Next]_<<reached, shown>>
=============================================================================
