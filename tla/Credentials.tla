---------------------------- MODULE Credentials ----------------------------
(***************************************************************************)
(* AuthService, and BksdService.resendLearnerCredentials: what reads and   *)
(* changes the password of an account.  None of it is in a transaction;    *)
(* each UPDATE waits for the row and then changes it for good.             *)
(***************************************************************************)
EXTENDS Directory

Present == {a \in Account : users[a] # None}

\* UPDATE users SET <the columns of row> WHERE id: there may be none left.
Update(r, row) ==
    /\ UserFree(r, req[r].id)
    /\ users' = IF users[req[r].id] = None THEN users ELSE [users EXCEPT ![req[r].id] = row]
    /\ UNCHANGED <<staff, draft>>

Choose(r) == known' = known \cup {<<r, 0>>}

-----------------------------------------------------------------------------
(* resendLearnerCredentials: a new password, then the mail with it.         *)

ResendLearnerCredentials(r) ==
    /\ \E a \in Present : Enter(r, "resendLearnerCredentials", [Fresh EXCEPT !.pc = "resend.update", !.id = a])
    /\ UNCHANGED <<tables, redis, history>>

ResendUpdate(r) ==
    /\ At(r, "resend.update")
    /\ Update(r, [users[req[r].id] EXCEPT !.password = <<r, 0>>, !.changed = FALSE])
    /\ Goto(r, "resend.mail")
    /\ UNCHANGED <<redis, history>>

ResendMail(r) ==
    /\ At(r, "resend.mail")
    /\ Choose(r) /\ Return(r)
    /\ UNCHANGED <<tables, redis, mailed, spent, missed>>

-----------------------------------------------------------------------------
(* changePassword: the current password is compared, the new one hashed.    *)

ChangePassword(r) ==
    /\ \E a \in Present : \E p \in known :
          Enter(r, "changePassword", IF p # users[a].password THEN [Fresh EXCEPT !.pc = "done"]
             ELSE [Fresh EXCEPT !.pc = "change.update", !.id = a])
    /\ UNCHANGED <<tables, redis, history>>

ChangeUpdate(r) ==
    /\ At(r, "change.update")
    /\ Update(r, [users[req[r].id] EXCEPT !.password = <<r, 0>>, !.changed = TRUE])
    /\ Choose(r) /\ Return(r)
    /\ UNCHANGED <<redis, mailed, spent, missed>>

-----------------------------------------------------------------------------
(* initiatePasswordReset and resetPassword: redis has the account under a   *)
(* random key for a day.                                                    *)

InitiatePasswordReset(r) ==
    /\ \E a \in Present : Enter(r, "initiatePasswordReset", [Fresh EXCEPT !.pc = "reset.key", !.id = a])
    /\ UNCHANGED <<tables, redis, history>>

ResetKey(r) ==
    /\ At(r, "reset.key")
    /\ redis' = [redis EXCEPT !.reset[r] = req[r].id]
    /\ Goto(r, "reset.mail")
    /\ UNCHANGED <<tables, history>>

ResetMail(r) ==
    /\ At(r, "reset.mail")
    /\ mailed' = mailed \cup {r}
    /\ Return(r)
    /\ UNCHANGED <<tables, redis, known, spent, missed>>

ResetPassword(r) ==
    /\ \E k \in mailed :
          Enter(r, "resetPassword", IF redis.reset[k] = None THEN [Fresh EXCEPT !.pc = "done"]
             ELSE [Fresh EXCEPT !.pc = "reset.find", !.id = redis.reset[k], !.key = k])
    /\ UNCHANGED <<tables, redis, history>>

ResetFind(r) ==
    /\ At(r, "reset.find")
    /\ IF users[req[r].id] = None THEN Return(r) ELSE Goto(r, "reset.update")
    /\ UNCHANGED <<tables, redis, history>>

\* is_password_changed stays what it was.
ResetUpdate(r) ==
    /\ At(r, "reset.update")
    /\ Update(r, [users[req[r].id] EXCEPT !.password = <<r, 0>>])
    /\ Choose(r) /\ Goto(r, "reset.del")
    /\ UNCHANGED <<redis, mailed, spent, missed>>

\* Mutant of ResetDel: the key is not deleted.
ResetDelForgotten(r) ==
    /\ At(r, "reset.del")
    /\ spent' = spent \cup {req[r].key}
    /\ Return(r)
    /\ UNCHANGED <<tables, redis, known, mailed, missed>>
ResetDel(r) ==
    /\ At(r, "reset.del")
    /\ redis' = [redis EXCEPT !.reset[req[r].key] = None]
    /\ spent' = spent \cup {req[r].key}
    /\ Return(r)
    /\ UNCHANGED <<tables, known, mailed, missed>>

-----------------------------------------------------------------------------
(* login: the account and the password; its role; the refresh token; and    *)
(* the time of the login.  The token table is not tied to the account.      *)

Login(r) ==
    /\ \E a \in Present : \E p \in known :
          Enter(r, "login", IF users[a].username = None \/ p # users[a].password
             THEN [Fresh EXCEPT !.pc = "done"]
             ELSE [Fresh EXCEPT !.pc = "login.role", !.id = a])
    /\ UNCHANGED <<tables, redis, history>>

\* getUserRoleById throws when the account is gone.
LoginRole(r) ==
    /\ At(r, "login.role")
    /\ IF users[req[r].id] = None THEN Return(r) ELSE Goto(r, "login.stamp")
    /\ UNCHANGED <<tables, redis, history>>

LoginStamp(r) ==
    /\ At(r, "login.stamp")
    /\ Update(r, users[req[r].id])
    /\ Return(r)
    /\ UNCHANGED <<redis, history>>

-----------------------------------------------------------------------------
(* send2faEmail and verify2fa: one code for each account, for five minutes. *)

Send2faEmail(r) ==
    /\ \E a \in Present : Enter(r, "send2faEmail", [Fresh EXCEPT !.pc = "2fa.code", !.id = a])
    /\ UNCHANGED <<tables, redis, history>>

TwoFactorCode(r) ==
    /\ At(r, "2fa.code")
    /\ redis' = [redis EXCEPT !.code[req[r].id] = r]
    /\ Goto(r, "2fa.mail")
    /\ UNCHANGED <<tables, history>>

TwoFactorMail(r) ==
    /\ At(r, "2fa.mail")
    /\ mailed' = mailed \cup {r}
    /\ Return(r)
    /\ UNCHANGED <<tables, redis, known, spent, missed>>

Verify2fa(r) ==
    /\ \E a \in Present : \E k \in mailed :
          Enter(r, "verify2fa", [Fresh EXCEPT !.pc = "verify.code", !.id = a, !.key = k])
    /\ UNCHANGED <<tables, redis, history>>

\* The code stays; the role of an account that is gone throws.
VerifyCode(r) ==
    /\ At(r, "verify.code")
    /\ IF redis.code[req[r].id] = req[r].key THEN Goto(r, "verify.role") ELSE Return(r)
    /\ UNCHANGED <<tables, redis, history>>

VerifyRole(r) ==
    /\ At(r, "verify.role")
    /\ Return(r)
    /\ UNCHANGED <<tables, redis, history>>

\* Redis forgets a key or a code when its time is over.
Expire ==
    /\ \/ \E k \in Keys : redis.reset[k] # None /\ redis' = [redis EXCEPT !.reset[k] = None]
       \/ \E a \in Account : redis.code[a] # None /\ redis' = [redis EXCEPT !.code[a] = None]
    /\ UNCHANGED <<tables, req, history>>

-----------------------------------------------------------------------------
CredentialsCall(r) ==
    \/ ResendLearnerCredentials(r) \/ ChangePassword(r) \/ InitiatePasswordReset(r)
    \/ ResetPassword(r) \/ Login(r) \/ Send2faEmail(r) \/ Verify2fa(r)

CredentialsStep(r) ==
    \/ ResendUpdate(r) \/ ResendMail(r) \/ ChangeUpdate(r)
    \/ ResetKey(r) \/ ResetMail(r) \/ ResetFind(r) \/ ResetUpdate(r) \/ ResetDel(r)
    \/ LoginRole(r) \/ LoginStamp(r)
    \/ TwoFactorCode(r) \/ TwoFactorMail(r) \/ VerifyCode(r) \/ VerifyRole(r)
=============================================================================
