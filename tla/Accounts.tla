------------------------------- MODULE Accounts -------------------------------
(***************************************************************************)
(* Users, their sessions and the setup form.  A request reads what it      *)
(* needs, answers or decides, and commits later; other requests commit in  *)
(* between (READ COMMITTED), and any request may be cut off between its    *)
(* steps.  What is written is what the request changed of the row it had   *)
(* read.  A user is known by the name; no name is given twice.             *)
(***************************************************************************)
EXTENDS Naturals, FiniteSets

CONSTANTS AccNames, AccSlots,
          AccPasswords,   \* bound: passwords ever set
          AccTokens,      \* bound: sessions ever opened
          AccDirectory    \* roles the LDAP directory may give; none where LDAP is off

ASSUME AccAssumption == {AccPasswords, AccTokens} \subseteq Nat /\ AccDirectory \subseteq {"admin", "readonly"}

VARIABLES accUsers,     \* the table users: name -> [role, pw, ldap]
          accDone,      \* the setting setup_complete
          accSessions,  \* the table sessions: token, user, live (not expired); of the login: pw
                        \* (the password checked), late (changed since, or its change is
                        \* under way); own (kept by its user)
          accReqs,      \* the requests between their steps
          accEver,      \* names that were ever given
          accPw,        \* the last password set
          accToken      \* the last token given

accTables == <<accUsers, accDone, accSessions>>
accCounts == <<accEver, accPw, accToken>>
accVars == <<accTables, accReqs, accCounts>>

Free == [kind |-> "free"]
Named == DOMAIN accUsers
Admins == {u \in Named : accUsers[u].role = "admin"}
AdminCookies == {t \in accSessions : t.live /\ t.user \in Admins}

AccInit ==
    /\ accUsers = [u \in {} |-> Free] /\ accSessions = {} /\ accDone = FALSE
    /\ accReqs = [s \in AccSlots |-> Free]
    /\ accEver = {} /\ accPw = 0 /\ accToken = 0

Begin(s, request) == accReqs[s] = Free /\ accReqs' = [accReqs EXCEPT ![s] = request]
Go(s, step) == accReqs' = [accReqs EXCEPT ![s].kind = step]
EndOf(s) == accReqs' = [accReqs EXCEPT ![s] = Free]

WithUser(u, row) == [n \in Named \cup {u} |-> IF n = u THEN row ELSE accUsers[n]]
AddUser(u, row) == u \notin accEver /\ accEver' = accEver \cup {u} /\ accUsers' = WithUser(u, row)
NewPassword == accPw < AccPasswords /\ accPw' = accPw + 1

-----------------------------------------------------------------------------
(* The setup form                                                            *)

BeginSetup(s, u) ==
    /\ ~accDone
    /\ Begin(s, [kind |-> "setup", user |-> u, first |-> Named = {}])
    /\ UNCHANGED <<accTables, accCounts>>

\* set_setting commits: the user goes with the first of the settings, site_name.
SetupUser(s) ==
    /\ accReqs[s].kind = "setup"
    /\ IF accReqs[s].first
       THEN NewPassword /\ AddUser(accReqs[s].user, [role |-> "admin", pw |-> accPw', ldap |-> FALSE])
       ELSE UNCHANGED <<accUsers, accEver, accPw>>
    /\ Go(s, "settings")
    /\ UNCHANGED <<accDone, accSessions, accToken>>

\* A user of the name is there already: the request fails.
SetupRefused(s) ==
    /\ accReqs[s].kind = "setup" /\ accReqs[s].first /\ accReqs[s].user \in Named
    /\ EndOf(s)
    /\ UNCHANGED <<accTables, accCounts>>

FinishSetup(s) ==
    /\ accReqs[s].kind = "settings"
    /\ accDone' = TRUE
    /\ EndOf(s)
    /\ UNCHANGED <<accUsers, accSessions, accCounts>>

-----------------------------------------------------------------------------
(* What administrators do to users                                           *)

\* The middleware has let the request in, the handler reads and decides.
Admitted(s, request) ==
    /\ accDone
    /\ Begin(s, request)
    /\ UNCHANGED <<accTables, accCounts>>

BeginAddUser(s, u, role) ==
    /\ AdminCookies # {} /\ u \notin Named
    /\ Admitted(s, [kind |-> "add", user |-> u, role |-> role])

CommitAddUser(s) ==
    /\ accReqs[s].kind = "add"
    /\ NewPassword
    /\ AddUser(accReqs[s].user, [role |-> accReqs[s].role, pw |-> accPw', ldap |-> FALSE])
    /\ EndOf(s)
    /\ UNCHANGED <<accDone, accSessions, accToken>>

NotLastUnchecked(u, role) == TRUE

\* An administrator loses the role only while there is another.
NotLast(u, role) == u \in Admins /\ role \notin {"admin", "same"} => Cardinality(Admins) > 1

\* A request that has written the row and not committed holds its lock.
Locked(u) == \E s \in AccSlots : accReqs[s].kind = "ending" /\ accReqs[s].user = u

\* The sessions of u that a new password ends: all of them, or all but the one it came with.
EndedByOwner(u, kept) == {t \in accSessions : t.user = u /\ kept \notin {0, t.token}}
Ended(u, kept) == {t \in accSessions : t.user = u /\ t.token # kept}

\* PATCH /users/{id} with a role, a password or both, and the two forms.
BeginEdit(s, u, role, reset) ==
    /\ AdminCookies # {} /\ u \in Named
    /\ NotLast(u, role)
    /\ Admitted(s, [kind |-> "edit", user |-> u, role |-> role, reset |-> reset, kept |-> 0,
                    read |-> accUsers[u].role, admins |-> Admins])

\* A user's own form, which comes with a session.
BeginOwnPassword(s, t) ==
    /\ t \in accSessions /\ t.live /\ t.user \in Named
    /\ Admitted(s, [kind |-> "edit", user |-> t.user, role |-> "same", reset |-> TRUE, kept |-> t.token,
                    read |-> accUsers[t.user].role, admins |-> Admins])

\* The row of an edit: a role that is the one read is not written.  Where the row is gone
\* the request fails.
Edited(q) ==
    LET old == accUsers[q.user]
    IN  [old EXCEPT !.role = IF q.role \in {"same", q.read} THEN @ ELSE q.role]

CommitRole(s) ==
    /\ accReqs[s].kind = "edit" /\ ~accReqs[s].reset
    /\ accReqs[s].user \in Named /\ ~Locked(accReqs[s].user)
    /\ accUsers' = WithUser(accReqs[s].user, Edited(accReqs[s]))
    /\ EndOf(s)
    /\ UNCHANGED <<accDone, accSessions, accCounts>>

\* With a new password the sessions are deleted, those there are now, which writes the row
\* before: nobody else sees either until the commit.
EndSessions(s) ==
    /\ accReqs[s].kind = "edit" /\ accReqs[s].reset
    /\ accReqs[s].user \in Named /\ ~Locked(accReqs[s].user)
    /\ LET q == accReqs[s]
       IN accReqs' = [accReqs EXCEPT ![s] =
              [kind |-> "ending", user |-> q.user, role |-> q.role, read |-> q.read, admins |-> q.admins,
               kept |-> q.kept, ended |-> {t.token : t \in Ended(q.user, q.kept)}]]
    /\ UNCHANGED <<accTables, accCounts>>

CommitPassword(s) ==
    /\ accReqs[s].kind = "ending"
    /\ NewPassword
    /\ LET q == accReqs[s]
       IN /\ accUsers' = WithUser(q.user, [Edited(q) EXCEPT !.pw = accPw'])
          /\ accSessions' = {IF t.token = q.kept THEN [t EXCEPT !.own = TRUE] ELSE t :
                               t \in {r \in accSessions : r.token \notin q.ended}}
    /\ EndOf(s)
    /\ UNCHANGED <<accDone, accEver, accToken>>

BeginDelete(s, u) ==
    /\ \E t \in AdminCookies : t.user # u
    /\ u \in Named /\ NotLast(u, "none")
    /\ Admitted(s, [kind |-> "delete", user |-> u, admins |-> Admins])

\* sessions.user_id refers to the row: while any session of the user is there, live or
\* expired, the DELETE fails.
CommitDelete(s) ==
    /\ accReqs[s].kind = "delete" /\ ~Locked(accReqs[s].user)
    /\ LET u == accReqs[s].user
       IN accUsers' = [n \in (IF \E t \in accSessions : t.user = u THEN Named ELSE Named \ {u}) |->
                           accUsers[n]]
    /\ EndOf(s)
    /\ UNCHANGED <<accDone, accSessions, accCounts>>

-----------------------------------------------------------------------------
(* Logging in and out                                                        *)

\* bcrypt has found the password to be the one stored; users of LDAP have none here.
BeginLogin(s, u) ==
    /\ u \in Named /\ ~accUsers[u].ldap
    /\ Begin(s, [kind |-> "login", user |-> u, pw |-> accUsers[u].pw])
    /\ UNCHANGED <<accTables, accCounts>>

\* The directory, which is configured once setup is complete, has accepted the password and
\* named a role.
BeginLdapLogin(s, u, role) ==
    /\ accDone
    /\ Begin(s, [kind |-> "ldap", user |-> u, role |-> role, found |-> u \in Named,
                 read |-> IF u \in Named THEN accUsers[u].role ELSE "none"])
    /\ UNCHANGED <<accTables, accCounts>>

\* The row takes the role of the directory; clearing the failed attempts commits it.
LdapRow(s) ==
    /\ accReqs[s].kind = "ldap"
    /\ LET q == accReqs[s]
       IN IF q.found
          THEN /\ q.user \in Named
               /\ accUsers' = [accUsers EXCEPT ![q.user].ldap = TRUE,
                                               ![q.user].role = IF q.role # q.read THEN q.role ELSE @]
               /\ accUsers' # accUsers => ~Locked(q.user)
               /\ UNCHANGED accEver
          ELSE AddUser(q.user, [role |-> q.role, pw |-> 0, ldap |-> TRUE])
    /\ accReqs' = [accReqs EXCEPT ![s] = [kind |-> "login", user |-> accReqs[s].user, pw |-> 0]]
    /\ UNCHANGED <<accDone, accSessions, accPw, accToken>>

OpenSession(s) ==
    /\ accReqs[s].kind = "login" /\ accReqs[s].user \in Named
    /\ accToken < AccTokens /\ accToken' = accToken + 1
    /\ LET q == accReqs[s]
       IN accSessions' = accSessions \cup
              {[token |-> accToken', user |-> q.user, live |-> TRUE, own |-> FALSE,
                pw |-> q.pw, late |-> q.pw # accUsers[q.user].pw \/ Locked(q.user)]}
    /\ EndOf(s)
    /\ UNCHANGED <<accUsers, accDone, accEver, accPw>>

Logout(t) ==
    /\ accSessions' = accSessions \ {t}
    /\ UNCHANGED <<accUsers, accDone, accReqs, accCounts>>

\* Nothing ever deletes a session that has expired.
ExpireSession(t) ==
    /\ t.live
    /\ accSessions' = (accSessions \ {t}) \cup {[t EXCEPT !.live = FALSE]}
    /\ UNCHANGED <<accUsers, accDone, accReqs, accCounts>>

\* An error, or the end of the process.
CutOff(s) ==
    /\ accReqs[s] # Free
    /\ EndOf(s)
    /\ UNCHANGED <<accTables, accCounts>>

AccNext ==
    \/ \E s \in AccSlots :
        \/ SetupUser(s) \/ SetupRefused(s) \/ FinishSetup(s)
        \/ CommitAddUser(s) \/ CommitRole(s) \/ EndSessions(s) \/ CommitPassword(s) \/ CommitDelete(s)
        \/ LdapRow(s) \/ OpenSession(s) \/ CutOff(s)
        \/ \E u \in AccNames :
            \/ BeginSetup(s, u) \/ BeginDelete(s, u) \/ BeginLogin(s, u)
            \/ \E role \in {"admin", "readonly"} : BeginAddUser(s, u, role)
            \/ \E role \in {"admin", "readonly", "same"}, reset \in BOOLEAN :
                  (role # "same" \/ reset) /\ BeginEdit(s, u, role, reset)
            \/ \E role \in AccDirectory : BeginLdapLogin(s, u, role)
        \/ \E t \in accSessions : BeginOwnPassword(s, t)
    \/ \E t \in accSessions : Logout(t) \/ ExpireSession(t)

AccSpec == AccInit /\ [][AccNext]_accVars

-----------------------------------------------------------------------------

\* Once setup is complete the installation keeps an administrator (routers/setup.py:51 "Set
\* setup_complete last", users.py:216): the last one goes only by the role of the directory,
\* or by a request that had counted other administrators than there are when it commits.
AdminRemains ==
    [][accDone' /\ Admins' = {} /\ (Admins # {} \/ ~accDone) =>
         \E s \in AccSlots :
            /\ accReqs[s].kind \in {"edit", "ending", "delete", "ldap"} /\ accReqs'[s] # accReqs[s]
            /\ accReqs[s].kind = "ldap" \/ accReqs[s].admins # Admins]_accVars

\* A session stands on the password its user has now (users.py:119, :145, :242): on an older
\* one only if it is the one the user changed it with, if the user logged in by LDAP, or if
\* the login had checked the password before it changed and committed after, or after the
\* sessions were deleted and before that was committed.
SessionsAreCurrent ==
    \A t \in accSessions : t.pw = accUsers[t.user].pw \/ t.own \/ t.late
=============================================================================
