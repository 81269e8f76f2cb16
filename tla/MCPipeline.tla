----------------------------- MODULE MCPipeline -----------------------------
(***************************************************************************)
(* Values of the constants for the model checker.                          *)
(***************************************************************************)
EXTENDS Pipeline, TLC

\* Accounts, decisions and the removals around them.
AccountHandlers ==
    { "sendLearnerMail", "deleteUser", "editInformation", "deleteStudent",
      "approveApplication" }

\* The handlers of the application and accessor teams.
DecisionHandlers ==
    { "sendLearnerMail", "approveApplication", "rejectApplication" }

StageHandlers ==
    { "sendLearnerMail", "approveApplication", "rejectApplication",
      "sendMeetingLink", "archiveStudent" }

\* The handlers that wait for a row lock or for their forms' saves, and a
\* decision that holds the locks (rejectApplication takes the same steps).
LockingHandlers ==
    { "approveApplication", "archiveStudent",
      "deleteStudent", "deleteUser", "submitForm", "updateDraft",
      "reviewSubmission" }

\* All requests are alike, and so are learners, e-mails and ids.
Alike == Permutations(Request) \cup Permutations(Learner)
         \cup Permutations(Email) \cup Permutations(UserId)
         \cup Permutations(Submission)

\* A later state of the program, in which the sends and the first forms are
\* behind: every learner has been sent credentials for an account of its own,
\* and each form is a draft of one of the learners.
EstablishedInit ==
    /\ \E mail \in [Learner -> Email], id \in [Learner -> UserId] :
          /\ \A k, l \in Learner :
                k # l => mail[k] # mail[l] /\ id[k] # id[l]
          /\ learner = [l \in Learner |->
                [NewLearner(mail[l]) EXCEPT !.application_mail = "Sent"]]
          /\ issued = {id[l] : l \in Learner}
          /\ users = [u \in UserId |->
                IF \E l \in Learner : id[l] = u
                  THEN mail[CHOOSE l \in Learner : id[l] = u] ELSE None]
          /\ student = [l \in Learner |->
                [user |-> id[l], email |-> mail[l],
                 application_status |-> "Pending"]]
    /\ \E owner \in [Submission -> Learner] :
          submission = [s \in Submission |->
             [student |-> owner[s], status |-> "draft", is_submitted |-> FALSE, data |-> {}]]
    /\ turnedIn = {}
    /\ lock = [l \in Learner |-> None]
    /\ studentLock = [l \in Learner |-> None]
    /\ req = [r \in Request |-> Idle]
    /\ past = [l \in Learner |-> {"created", "account", "mailed", "sent"}]

FairEstablishedSpec == EstablishedInit /\ [][Next]_vars /\ Fairness
=============================================================================
