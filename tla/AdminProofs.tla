---------------------------- MODULE AdminProofs -----------------------------
(***************************************************************************)
(* What administrators rely on: accounts and sessions, API keys, restores  *)
(* of the database, the backups they are shown and the limits of requests. *)
(* For any names, keys, tables, days and numbers of requests at a time.    *)
(***************************************************************************)
EXTENDS Accounts, ApiKeys, DataExport, BackupMonitor, SharedCounters, FiniteSetTheorems,
        WellFoundedInduction, TLAPS

-----------------------------------------------------------------------------
(***************************************************************************)
(* For any names, passwords and numbers of requests at a time: what may    *)
(* leave a session on an old password, and what may leave the installation *)
(* without an administrator, are the races the two properties name and     *)
(* nothing else.                                                           *)
(***************************************************************************)

Roles == {"admin", "readonly"}
UserRow == [role : Roles, pw : Nat, ldap : BOOLEAN]
SessionRow == [token : Nat \ {0}, user : AccNames, live : BOOLEAN, own : BOOLEAN,
               pw : Nat, late : BOOLEAN]

SetupRequest == [kind : {"setup", "settings"}, user : AccNames, first : BOOLEAN]
AddRequest == [kind : {"add"}, user : AccNames, role : Roles]
EditRequest == [kind : {"edit"}, user : AccNames, role : Roles \cup {"same"}, reset : BOOLEAN,
                kept : Nat, read : Roles, admins : SUBSET AccNames]
EndingRequest == [kind : {"ending"}, user : AccNames, role : Roles \cup {"same"}, read : Roles,
                  admins : SUBSET AccNames, kept : Nat, ended : SUBSET Nat]
DeleteRequest == [kind : {"delete"}, user : AccNames, admins : SUBSET AccNames]
LoginRequest == [kind : {"login"}, user : AccNames, pw : Nat]
LdapRequest == [kind : {"ldap"}, user : AccNames, role : Roles, found : BOOLEAN,
                read : Roles \cup {"none"}]
Requests == {Free} \cup SetupRequest \cup AddRequest \cup EditRequest \cup DeleteRequest
              \cup EndingRequest \cup LoginRequest \cup LdapRequest

TableTypes ==
    /\ accUsers \in [Named -> UserRow] /\ Named \subseteq accEver /\ accEver \subseteq AccNames
    /\ accSessions \subseteq SessionRow
    /\ accDone \in BOOLEAN /\ accPw \in Nat /\ accToken \in Nat

RequestTypes == accReqs \in [AccSlots -> Requests]

\* A session belongs to a user, and stands as SessionsAreCurrent says.
SessionsHold ==
    \A t \in accSessions :
        t.user \in Named /\ (t.pw = accUsers[t.user].pw \/ t.own \/ t.late)

\* A request that would take the last administrator of those it has counted is refused.
Counted(q) ==
    /\ q.kind \in {"edit", "ending"} /\ q.user \in q.admins /\ q.role \notin {"admin", "same"}
         => Cardinality(q.admins) > 1
    /\ q.kind = "delete" /\ q.user \in q.admins => Cardinality(q.admins) > 1

\* Before setup is complete there are only administrators, and requests that do not
\* change that.
BeforeSetup(q) ==
    /\ q.kind \in {"free", "setup", "settings", "login"}
    /\ q.kind = "settings" \/ (q.kind = "setup" /\ ~q.first) => Named # {}

SetupHolds ==
    ~accDone => /\ \A u \in Named : accUsers[u].role = "admin"
                /\ \A s \in AccSlots : BeforeSetup(accReqs[s])

\* A request that has deleted sessions and not committed holds the row of its user.  The
\* sessions of that user it has not deleted are the one it keeps and those that came later.
EndingHolds(q) ==
    q.kind = "ending" =>
        /\ q.user \in Named
        /\ \A t \in accSessions : t.user = q.user => t.token \in q.ended \/ t.token = q.kept \/ t.late

EndingsHold == \A s \in AccSlots : EndingHolds(accReqs[s])

AccInv ==
    /\ TableTypes /\ RequestTypes /\ SessionsHold /\ EndingsHold /\ SetupHolds
    /\ \A s \in AccSlots : Counted(accReqs[s])

\* The invariant holds of an installation whose tables are empty.
LEMMA AccInvInit == AccInit => AccInv
<1> SUFFICES ASSUME AccInit PROVE AccInv
  OBVIOUS
<1> USE DEF AccInit
<1>1. TableTypes
  BY DEF TableTypes, Named
<1>2. RequestTypes
  BY DEF RequestTypes, Requests
<1>3. SessionsHold
  BY DEF SessionsHold
<1>4. SetupHolds
  BY DEF SetupHolds, BeforeSetup, Named, Free
<1>5. EndingsHold /\ \A s \in AccSlots : Counted(accReqs[s])
  BY DEF EndingsHold, EndingHolds, Counted, Free
<1> QED BY <1>1, <1>2, <1>3, <1>4, <1>5 DEF AccInv

\* What a request is, by its kind.
LEMMA RequestKinds ==
  ASSUME RequestTypes, NEW s \in AccSlots
  PROVE  /\ accReqs[s].kind \in {"setup", "settings"} => accReqs[s] \in SetupRequest
         /\ accReqs[s].kind = "add" => accReqs[s] \in AddRequest
         /\ accReqs[s].kind = "edit" => accReqs[s] \in EditRequest
         /\ accReqs[s].kind = "delete" => accReqs[s] \in DeleteRequest
         /\ accReqs[s].kind = "ending" => accReqs[s] \in EndingRequest
         /\ accReqs[s].kind = "login" => accReqs[s] \in LoginRequest
         /\ accReqs[s].kind = "ldap" => accReqs[s] \in LdapRequest
  BY DEF RequestTypes, Requests, Free, SetupRequest, AddRequest, EditRequest, DeleteRequest,
         EndingRequest, LoginRequest, LdapRequest

-----------------------------------------------------------------------------
(* Steps that leave the tables alone                                         *)

\* One request goes on to q.
LEMMA RequestMoves ==
  ASSUME AccInv, NEW s \in AccSlots, NEW q \in Requests, accReqs' = [accReqs EXCEPT ![s] = q],
         UNCHANGED <<accTables, accCounts>>, Counted(q), EndingHolds(q), ~accDone => BeforeSetup(q)
  PROVE  AccInv'
<1> USE DEF AccInv, accTables, accCounts
<1>1. \A r \in AccSlots : accReqs'[r] = IF r = s THEN q ELSE accReqs[r]
  BY DEF RequestTypes
<1>2. TableTypes'
  BY DEF TableTypes, Named
<1>3. RequestTypes'
  BY DEF RequestTypes
<1>4. SessionsHold'
  BY DEF SessionsHold, Named
<1>5. SetupHolds'
  BY <1>1 DEF SetupHolds, BeforeSetup, Named
<1>6. \A r \in AccSlots : Counted(accReqs[r])'
  BY <1>1 DEF Counted
<1>7. EndingsHold'
  BY <1>1 DEF EndingsHold, EndingHolds, Named
<1> QED BY <1>2, <1>3, <1>4, <1>5, <1>6, <1>7

\* A slot without a request has all a request must have.
LEMMA FreeIsHarmless ==
  Free \in Requests /\ Counted(Free) /\ BeforeSetup(Free) /\ Free.kind # "ending" /\ EndingHolds(Free)
  BY DEF Requests, Free, Counted, BeforeSetup, EndingHolds

\* A request that is refused or cut off writes nothing.
LEMMA RequestEnds ==
  ASSUME AccInv, NEW s \in AccSlots, SetupRefused(s) \/ CutOff(s)
  PROVE  AccInv'
<1>1. accReqs' = [accReqs EXCEPT ![s] = Free] /\ UNCHANGED <<accTables, accCounts>>
  BY DEF SetupRefused, CutOff, EndOf
<1> QED BY <1>1, FreeIsHarmless, RequestMoves

\* The forms nobody has to be logged in for: the setup and the login.
LEMMA FormBegins ==
  ASSUME AccInv, NEW s \in AccSlots, NEW u \in AccNames, BeginSetup(s, u) \/ BeginLogin(s, u)
  PROVE  AccInv'
<1>1. CASE BeginSetup(s, u)
  <2> DEFINE q == [kind |-> "setup", user |-> u, first |-> Named = {}]
  <2>1. q \in Requests
    BY DEF Requests, SetupRequest
  <2>2. Counted(q) /\ BeforeSetup(q) /\ EndingHolds(q)
    BY DEF Counted, BeforeSetup, EndingHolds
  <2> HIDE DEF q
  <2> QED BY <1>1, <2>1, <2>2, RequestMoves DEF BeginSetup, Begin, q
<1>2. CASE BeginLogin(s, u)
  <2> DEFINE q == [kind |-> "login", user |-> u, pw |-> accUsers[u].pw]
  <2>1. q \in Requests
    BY <1>2 DEF BeginLogin, Requests, LoginRequest, AccInv, TableTypes, UserRow
  <2>2. Counted(q) /\ BeforeSetup(q) /\ EndingHolds(q)
    BY DEF Counted, BeforeSetup, EndingHolds
  <2> HIDE DEF q
  <2> QED BY <1>2, <2>1, <2>2, RequestMoves DEF BeginLogin, Begin, q
<1> QED BY <1>1, <1>2

\* The middleware lets nothing in before setup is complete.
LEMMA AdmittedBegins ==
  ASSUME AccInv, NEW s \in AccSlots, NEW q \in Requests, Admitted(s, q), Counted(q), EndingHolds(q)
  PROVE  AccInv'
  BY RequestMoves DEF Admitted, Begin

\* The administrators are names.
LEMMA AdminsAreNames ==
  ASSUME AccInv
  PROVE  Admins \in SUBSET AccNames
  BY DEF AccInv, TableTypes, Admins

\* The requests of those who are logged in, and the login by the directory: those that
\* would take an administrator away have counted more than that one.
LEMMA AdministrationBegins ==
  ASSUME AccInv, NEW s \in AccSlots, NEW u \in AccNames,
         \/ BeginDelete(s, u)
         \/ \E role \in Roles : BeginAddUser(s, u, role)
         \/ \E role \in Roles \cup {"same"}, reset \in BOOLEAN : BeginEdit(s, u, role, reset)
         \/ \E role \in AccDirectory : BeginLdapLogin(s, u, role)
         \/ \E t \in accSessions : BeginOwnPassword(s, t)
  PROVE  AccInv'
<1>1. CASE BeginDelete(s, u)
  <2> DEFINE q == [kind |-> "delete", user |-> u, admins |-> Admins]
  <2>1. q \in Requests
    BY AdminsAreNames DEF Requests, DeleteRequest
  <2>2. Counted(q) /\ EndingHolds(q)
    BY <1>1 DEF BeginDelete, NotLast, Counted, EndingHolds
  <2> HIDE DEF q
  <2> QED BY <1>1, <2>1, <2>2, AdmittedBegins DEF BeginDelete, q
<1>2. ASSUME NEW role \in Roles, BeginAddUser(s, u, role) PROVE AccInv'
  <2> DEFINE q == [kind |-> "add", user |-> u, role |-> role]
  <2>1. q \in Requests /\ Counted(q) /\ EndingHolds(q)
    BY DEF Requests, AddRequest, Counted, EndingHolds
  <2> HIDE DEF q
  <2> QED BY <1>2, <2>1, AdmittedBegins DEF BeginAddUser, q
<1>3. ASSUME NEW role \in Roles \cup {"same"}, NEW reset \in BOOLEAN, BeginEdit(s, u, role, reset)
      PROVE  AccInv'
  <2> DEFINE q == [kind |-> "edit", user |-> u, role |-> role, reset |-> reset, kept |-> 0,
                   read |-> accUsers[u].role, admins |-> Admins]
  <2>1. accUsers[u].role \in Roles
    BY <1>3 DEF BeginEdit, AccInv, TableTypes, UserRow
  <2>2. q \in Requests
    BY <2>1, AdminsAreNames DEF Requests, EditRequest
  <2>3. Counted(q) /\ EndingHolds(q)
    BY <1>3 DEF BeginEdit, NotLast, Counted, EndingHolds
  <2> HIDE DEF q
  <2> QED BY <1>3, <2>2, <2>3, AdmittedBegins DEF BeginEdit, q
<1>4. ASSUME NEW role \in AccDirectory, BeginLdapLogin(s, u, role) PROVE AccInv'
  <2> DEFINE q == [kind |-> "ldap", user |-> u, role |-> role, found |-> u \in Named,
                   read |-> IF u \in Named THEN accUsers[u].role ELSE "none"]
  <2>1. q.read \in Roles \cup {"none"} /\ role \in Roles
    BY AccAssumption DEF AccInv, TableTypes, UserRow, Roles
  <2>2. q \in Requests /\ Counted(q) /\ EndingHolds(q)
    BY <2>1 DEF Requests, LdapRequest, Counted, EndingHolds
  <2> HIDE DEF q
  <2> QED BY <1>4, <2>2, RequestMoves DEF BeginLdapLogin, Begin, q
<1>5. ASSUME NEW t \in accSessions, BeginOwnPassword(s, t) PROVE AccInv'
  <2> DEFINE q == [kind |-> "edit", user |-> t.user, role |-> "same", reset |-> TRUE, kept |-> t.token,
                   read |-> accUsers[t.user].role, admins |-> Admins]
  <2>1. t \in SessionRow /\ accUsers[t.user].role \in Roles
    BY <1>5 DEF BeginOwnPassword, AccInv, TableTypes, UserRow
  <2>2. q \in Requests
    BY <2>1, AdminsAreNames DEF Requests, EditRequest, SessionRow
  <2>3. Counted(q) /\ EndingHolds(q)
    BY DEF Counted, EndingHolds
  <2> HIDE DEF q
  <2> QED BY <1>5, <2>2, <2>3, AdmittedBegins DEF BeginOwnPassword, q
<1> QED BY <1>1, <1>2, <1>3, <1>4, <1>5

-----------------------------------------------------------------------------
(* Steps that write                                                          *)

\* What the tables must keep of a request that has deleted sessions and not committed.
EndingKept(q) ==
    q.kind = "ending" =>
        /\ q.user \in Named'
        /\ \A t \in accSessions' : t.user = q.user => t.token \in q.ended \/ t.token = q.kept \/ t.late

\* The tables keep their types, sessions and deletions under way hold, and before setup is
\* complete nobody comes who is no administrator: then the rest holds as well.
LEMMA TablesMove ==
  ASSUME AccInv, NEW s \in AccSlots, NEW q \in Requests, accReqs' = [accReqs EXCEPT ![s] = q],
         Counted(q), q.kind # "ending", TableTypes', SessionsHold', accDone => accDone',
         \A r \in AccSlots \ {s} : EndingKept(accReqs[r]),
         ~accDone' => /\ BeforeSetup(q) \/ (q.kind = "settings" /\ Named' # {})
                      /\ Named \subseteq Named' /\ \A u \in Named' : accUsers'[u].role = "admin"
  PROVE  AccInv'
<1> USE DEF AccInv
<1>1. \A r \in AccSlots : accReqs'[r] = IF r = s THEN q ELSE accReqs[r]
  BY DEF RequestTypes
<1>2. RequestTypes'
  BY DEF RequestTypes
<1>3. SetupHolds'
  BY <1>1 DEF SetupHolds, BeforeSetup, TableTypes
<1>4. \A r \in AccSlots : Counted(accReqs[r])'
  BY <1>1 DEF Counted
<1>5. EndingsHold'
  BY <1>1 DEF EndingsHold, EndingHolds, EndingKept
<1> QED BY <1>2, <1>3, <1>4, <1>5

\* A step that takes neither users nor sessions away and adds no session disturbs none.
LEMMA EndingsKept ==
  ASSUME AccInv, accSessions' = accSessions, Named \subseteq Named'
  PROVE  \A r \in AccSlots : EndingKept(accReqs[r])
  BY DEF AccInv, EndingsHold, EndingHolds, EndingKept

\* The table with the row of u.
LEMMA WithUserRows ==
  ASSUME TableTypes, NEW u \in AccNames, NEW row \in UserRow, accUsers' = WithUser(u, row)
  PROVE  /\ Named' = Named \cup {u} /\ accUsers' \in [Named' -> UserRow]
         /\ \A n \in Named' : accUsers'[n] = IF n = u THEN row ELSE accUsers[n]
  BY DEF TableTypes, WithUser, Named

\* A new user has no sessions: the name was never given.
LEMMA UserAdded ==
  ASSUME AccInv, NEW u \in AccNames, NEW row \in UserRow, AddUser(u, row), accPw' \in Nat,
         UNCHANGED <<accDone, accSessions, accToken>>
  PROVE  /\ TableTypes' /\ SessionsHold' /\ Named' = Named \cup {u}
         /\ \A n \in Named' : accUsers'[n] = IF n = u THEN row ELSE accUsers[n]
<1> USE DEF AccInv
<1>1. u \notin accEver /\ accEver' = accEver \cup {u} /\ accUsers' = WithUser(u, row)
  BY DEF AddUser
<1>2. /\ Named' = Named \cup {u} /\ accUsers' \in [Named' -> UserRow]
      /\ \A n \in Named' : accUsers'[n] = IF n = u THEN row ELSE accUsers[n]
  BY <1>1, WithUserRows
<1>3. TableTypes'
  BY <1>1, <1>2 DEF TableTypes
<1>4. \A t \in accSessions : t.user # u
  BY <1>1 DEF TableTypes, SessionsHold
<1>5. SessionsHold'
  BY <1>2, <1>4 DEF SessionsHold
<1> QED BY <1>2, <1>3, <1>5

\* The two commits of a setup form: the administrator, and the mark that it is complete.
LEMMA SetupWrites ==
  ASSUME AccInv, NEW s \in AccSlots, SetupUser(s) \/ FinishSetup(s)
  PROVE  AccInv'
<1> USE DEF AccInv
<1>1. CASE SetupUser(s)
  <2> DEFINE q == [accReqs[s] EXCEPT !.kind = "settings"]
  <2>1. accReqs[s] \in SetupRequest /\ accReqs' = [accReqs EXCEPT ![s] = q]
    BY <1>1, RequestKinds DEF SetupUser, Go, RequestTypes
  <2>2. q \in Requests /\ Counted(q) /\ EndingHolds(q) /\ q.kind = "settings"
    BY <2>1 DEF Requests, SetupRequest, Counted, EndingHolds
  <2>3. UNCHANGED <<accDone, accSessions, accToken>>
    BY <1>1 DEF SetupUser
  <2> HIDE DEF q
  <2>4. CASE accReqs[s].first
    <3> DEFINE u == accReqs[s].user
               row == [role |-> "admin", pw |-> accPw', ldap |-> FALSE]
    <3>1. accPw' \in Nat /\ AddUser(u, row) /\ u \in AccNames
      BY <1>1, <2>1, <2>4 DEF SetupUser, NewPassword, TableTypes, SetupRequest
    <3>2. row \in UserRow /\ row.role = "admin"
      BY <3>1 DEF UserRow, Roles
    <3> HIDE DEF u, row
    <3>3. /\ TableTypes' /\ SessionsHold' /\ Named' = Named \cup {u}
          /\ \A n \in Named' : accUsers'[n] = IF n = u THEN row ELSE accUsers[n]
      BY <2>3, <3>1, <3>2, UserAdded
    <3>4. ~accDone => \A n \in Named' : accUsers'[n].role = "admin"
      BY <3>2, <3>3 DEF SetupHolds
    <3>5. \A r \in AccSlots : EndingKept(accReqs[r])
      BY <2>3, <3>3, EndingsKept
    <3> QED BY <2>1, <2>2, <2>3, <3>3, <3>4, <3>5, TablesMove
  <2>5. CASE ~accReqs[s].first
    <3>1. UNCHANGED <<accTables, accCounts>>
      BY <1>1, <2>3, <2>5 DEF SetupUser, accTables, accCounts
    <3>2. ~accDone => BeforeSetup(q)
      BY <1>1, <2>2, <2>5 DEF SetupUser, SetupHolds, BeforeSetup
    <3> QED BY <2>1, <2>2, <3>1, <3>2, RequestMoves
  <2> QED BY <2>1, <2>4, <2>5 DEF SetupRequest
<1>2. CASE FinishSetup(s)
  <2>1. accReqs' = [accReqs EXCEPT ![s] = Free] /\ accDone' = TRUE
          /\ UNCHANGED <<accUsers, accSessions, accCounts>>
    BY <1>2 DEF FinishSetup, EndOf
  <2>2. TableTypes' /\ SessionsHold' /\ \A r \in AccSlots : EndingKept(accReqs[r])
    BY <2>1, EndingsKept DEF TableTypes, SessionsHold, Named, accCounts
  <2> QED BY <2>1, <2>2, FreeIsHarmless, TablesMove
<1> QED BY <1>1, <1>2

\* An administrator's requests are there only once setup is complete.
LEMMA DoneBefore ==
  ASSUME AccInv, NEW s \in AccSlots, accReqs[s].kind \in {"add", "edit", "ending", "delete", "ldap"}
  PROVE  accDone
  BY DEF AccInv, SetupHolds, BeforeSetup

\* A request ends that has kept types and sessions.
LEMMA DoneMoves ==
  ASSUME AccInv, NEW s \in AccSlots, accDone, EndOf(s), TableTypes', SessionsHold', UNCHANGED accDone,
         \A r \in AccSlots \ {s} : EndingKept(accReqs[r])
  PROVE  AccInv'
  BY FreeIsHarmless, TablesMove DEF EndOf

\* A new user comes without sessions.
LEMMA AddCommits ==
  ASSUME AccInv, NEW s \in AccSlots, CommitAddUser(s)
  PROVE  AccInv'
<1> DEFINE u == accReqs[s].user
           row == [role |-> accReqs[s].role, pw |-> accPw', ldap |-> FALSE]
<1>1. accReqs[s] \in AddRequest /\ accDone
  BY RequestKinds, DoneBefore DEF CommitAddUser, AccInv
<1>2. accPw' \in Nat /\ AddUser(u, row) /\ u \in AccNames
  BY <1>1 DEF CommitAddUser, NewPassword, AccInv, TableTypes, AddRequest
<1>3. row \in UserRow
  BY <1>1, <1>2 DEF UserRow, AddRequest
<1> HIDE DEF u, row
<1>4. TableTypes' /\ SessionsHold' /\ \A r \in AccSlots : EndingKept(accReqs[r])
  BY <1>2, <1>3, UserAdded, EndingsKept DEF CommitAddUser
<1> QED BY <1>1, <1>4, DoneMoves DEF CommitAddUser

\* The row of an edit is a row, with the password there was.
LEMMA EditedRow ==
  ASSUME TableTypes, NEW q, q \in EditRequest \/ q \in EndingRequest, q.user \in Named
  PROVE  Edited(q) \in UserRow /\ Edited(q).pw = accUsers[q.user].pw
<1> DEFINE old == accUsers[q.user]
<1>1. old \in UserRow
  BY DEF TableTypes
<1>2. q.role \in Roles \cup {"same"}
  BY DEF EditRequest, EndingRequest
<1>3. PICK role \in Roles : Edited(q) = [old EXCEPT !.role = role]
  <2>1. CASE q.role \in {"same", q.read}
    BY <1>1, <2>1 DEF Edited, UserRow
  <2>2. CASE q.role \notin {"same", q.read}
    BY <1>1, <1>2, <2>2 DEF Edited, UserRow
  <2> QED BY <2>1, <2>2
<1> QED BY <1>1, <1>3 DEF UserRow

\* An edit without a password changes a role.
LEMMA RoleCommits ==
  ASSUME AccInv, NEW s \in AccSlots, CommitRole(s)
  PROVE  AccInv'
<1> USE DEF AccInv
<1> DEFINE q == accReqs[s]
           u == q.user
           row == Edited(q)
<1>1. q \in EditRequest /\ accDone /\ EndOf(s) /\ u \in Named
        /\ accUsers' = WithUser(u, row) /\ UNCHANGED <<accDone, accSessions, accCounts>>
  BY RequestKinds, DoneBefore DEF CommitRole
<1>2. row \in UserRow /\ row.pw = accUsers[u].pw /\ u \in AccNames
  BY <1>1, EditedRow DEF EditRequest
<1> HIDE DEF row
<1>3. /\ Named' = Named /\ accUsers' \in [Named -> UserRow]
      /\ \A n \in Named : accUsers'[n].pw = accUsers[n].pw
  BY <1>1, <1>2, WithUserRows
<1>4. TableTypes' /\ SessionsHold'
  BY <1>1, <1>3 DEF TableTypes, SessionsHold, accCounts
<1> QED BY <1>1, <1>3, <1>4, EndingsKept, DoneMoves

\* Sessions are deleted, which nobody sees before the commit.
LEMMA SessionsEnd ==
  ASSUME AccInv, NEW s \in AccSlots, EndSessions(s)
  PROVE  AccInv'
<1> USE DEF AccInv
<1> DEFINE q == accReqs[s]
           gone == {t.token : t \in Ended(q.user, q.kept)}
           next == [kind |-> "ending", user |-> q.user, role |-> q.role, read |-> q.read,
                    admins |-> q.admins, kept |-> q.kept, ended |-> gone]
<1>1. q \in EditRequest /\ accDone /\ q.user \in Named /\ q.kind = "edit"
        /\ accReqs' = [accReqs EXCEPT ![s] = next] /\ UNCHANGED <<accTables, accCounts>>
  BY RequestKinds, DoneBefore DEF EndSessions
<1>2. gone \subseteq Nat
  BY DEF Ended, TableTypes, SessionRow
<1>3. \A t \in accSessions : t.user = q.user => t.token \in gone \/ t.token = q.kept
  BY DEF Ended
<1> HIDE DEF gone
<1>4. next \in Requests
  BY <1>1, <1>2 DEF EditRequest, EndingRequest, Requests
<1>5. Counted(q)
  OBVIOUS
<1>6. Counted(next)
  BY <1>1, <1>5 DEF Counted
<1>7. EndingHolds(next)
  BY <1>1, <1>3 DEF EndingHolds
<1> HIDE DEF next
<1> QED BY <1>1, <1>4, <1>6, <1>7, RequestMoves

\* The password of u changes, and the sessions that were deleted are gone: what is left of
\* u is the session the change came with, and those that came late.
LEMMA PasswordCommits ==
  ASSUME AccInv, NEW s \in AccSlots, CommitPassword(s)
  PROVE  AccInv'
<1> USE DEF AccInv
<1> DEFINE q == accReqs[s]
           u == q.user
           row == [Edited(q) EXCEPT !.pw = accPw']
           Kept(t) == IF t.token = q.kept THEN [t EXCEPT !.own = TRUE] ELSE t
<1>1. q \in EndingRequest /\ accDone /\ EndOf(s) /\ NewPassword /\ q.kind = "ending"
        /\ accUsers' = WithUser(u, row) /\ UNCHANGED <<accDone, accEver, accToken>>
  BY RequestKinds, DoneBefore DEF CommitPassword
<1>2. accSessions' = {Kept(t) : t \in {r \in accSessions : r.token \notin q.ended}}
  BY Zenon DEF CommitPassword
<1>3. /\ u \in Named
      /\ \A t \in accSessions : t.user = u => t.token \in q.ended \/ t.token = q.kept \/ t.late
  BY <1>1 DEF EndingsHold, EndingHolds
<1>4. accPw' \in Nat /\ u \in AccNames
  BY <1>1 DEF NewPassword, TableTypes, EndingRequest
<1>5. row \in UserRow
  BY <1>1, <1>3, <1>4, EditedRow DEF UserRow
<1> HIDE DEF row
<1>6. /\ Named' = Named /\ accUsers' \in [Named -> UserRow]
      /\ \A n \in Named \ {u} : accUsers'[n] = accUsers[n]
  BY <1>1, <1>3, <1>4, <1>5, WithUserRows
<1>7. ASSUME NEW r \in accSessions'
      PROVE  /\ r \in SessionRow /\ r.user \in Named
             /\ r.pw = accUsers'[r.user].pw \/ r.own \/ r.late
             /\ \E t \in accSessions : r.user = t.user /\ r.token = t.token /\ r.late = t.late
  <2>1. PICK t \in accSessions : r = Kept(t) /\ t.token \notin q.ended
    BY <1>2
  <2>2. t \in SessionRow /\ t.user \in Named /\ (t.pw = accUsers[t.user].pw \/ t.own \/ t.late)
    BY DEF TableTypes, SessionsHold
  <2>3. CASE t.token = q.kept
    <3>1. r = [t EXCEPT !.own = TRUE]
      BY <2>1, <2>3
    <3> QED BY <2>2, <3>1 DEF SessionRow
  <2>4. CASE t.token # q.kept
    <3>1. r = t
      BY <2>1, <2>4
    <3>2. CASE t.user = u
      BY <1>3, <2>1, <2>2, <2>4, <3>1, <3>2
    <3>3. CASE t.user # u
      BY <1>6, <2>2, <3>1, <3>3
    <3> QED BY <3>2, <3>3
  <2> QED BY <2>3, <2>4
<1> HIDE DEF Kept
<1>8. TableTypes'
  BY <1>1, <1>4, <1>6, <1>7 DEF TableTypes
<1>9. SessionsHold'
  BY <1>6, <1>7 DEF SessionsHold
<1>10. \A r \in AccSlots : EndingKept(accReqs[r])
  BY <1>6, <1>7 DEF EndingsHold, EndingHolds, EndingKept
<1> QED BY <1>1, <1>8, <1>9, <1>10, DoneMoves

\* A user goes who has no session left.
LEMMA DeleteCommits ==
  ASSUME AccInv, NEW s \in AccSlots, CommitDelete(s)
  PROVE  AccInv'
<1> USE DEF AccInv
<1> DEFINE u == accReqs[s].user
           left == IF \E t \in accSessions : t.user = u THEN Named ELSE Named \ {u}
<1>1. accDone /\ EndOf(s) /\ ~Locked(u) /\ UNCHANGED <<accDone, accSessions, accCounts>>
  BY DoneBefore DEF CommitDelete
<1>2. accUsers' = [n \in left |-> accUsers[n]]
  BY DEF CommitDelete
<1>3. left \subseteq Named /\ Named \ {u} \subseteq left /\ \A t \in accSessions : t.user \in left
  BY DEF SessionsHold
<1> HIDE DEF left
<1>4. Named' = left /\ accUsers' \in [left -> UserRow]
  BY <1>2, <1>3 DEF TableTypes, Named
<1>5. TableTypes'
  BY <1>1, <1>3, <1>4 DEF TableTypes, accCounts
<1>6. SessionsHold'
  BY <1>1, <1>2, <1>3, <1>4 DEF SessionsHold
<1>7. \A r \in AccSlots : EndingKept(accReqs[r])
  BY <1>1, <1>3, <1>4 DEF EndingKept, EndingsHold, EndingHolds, Locked
<1> QED BY <1>1, <1>5, <1>6, <1>7, DoneMoves

\* The directory's login adds the user or gives the role the groups say.
LEMMA LdapWrites ==
  ASSUME AccInv, NEW s \in AccSlots, LdapRow(s)
  PROVE  AccInv'
<1> USE DEF AccInv
<1> DEFINE q == accReqs[s]
           next == [kind |-> "login", user |-> q.user, pw |-> 0]
<1>1. q \in LdapRequest /\ accDone /\ UNCHANGED <<accDone, accSessions, accPw, accToken>>
        /\ accReqs' = [accReqs EXCEPT ![s] = next]
  BY RequestKinds, DoneBefore DEF LdapRow
<1>2. next \in Requests /\ Counted(next) /\ next.kind # "ending"
  BY <1>1 DEF Requests, LoginRequest, LdapRequest, Counted
<1> HIDE DEF next
<1>3. TableTypes' /\ SessionsHold' /\ Named \subseteq Named'
  <2>1. CASE q.found
    <3>1. /\ q.user \in Named /\ UNCHANGED accEver
          /\ accUsers' = [accUsers EXCEPT ![q.user].ldap = TRUE,
                                          ![q.user].role = IF q.role # q.read THEN q.role ELSE @]
      BY <2>1 DEF LdapRow
    <3>0. q.role \in Roles /\ \A n \in Named : accUsers[n] \in UserRow
      BY <1>1 DEF TableTypes, LdapRequest
    <3>2. Named' = Named /\ accUsers' \in [Named -> UserRow] /\ \A n \in Named : accUsers'[n].pw = accUsers[n].pw
      <4>1. Named' = Named /\ accUsers' = [n \in Named |-> accUsers'[n]]
        BY <3>1 DEF Named, TableTypes
      <4>2. ASSUME NEW n \in Named PROVE accUsers'[n] \in UserRow /\ accUsers'[n].pw = accUsers[n].pw
        <5>1. CASE n # q.user
          BY <3>0, <3>1, <5>1 DEF Named
        <5>2. CASE n = q.user
          <6>1. accUsers[n] \in UserRow /\ n \in DOMAIN accUsers
            BY <3>0 DEF Named
          <6>2. \E r \in Roles : accUsers'[n] = [accUsers[n] EXCEPT !.ldap = TRUE, !.role = r]
            <7>1. CASE q.role # q.read
              BY <3>0, <3>1, <5>2, <6>1, <7>1 DEF UserRow
            <7>2. CASE q.role = q.read
              <8>1. accUsers[n].role \in Roles
                BY <6>1 DEF UserRow
              <8>. QED BY <3>1, <5>2, <6>1, <7>2, <8>1 DEF UserRow
            <7>. QED BY <7>1, <7>2
          <6>. QED BY <6>1, <6>2 DEF UserRow
        <5> QED BY <5>1, <5>2
      <4> QED BY <4>1, <4>2
    <3>3. TableTypes'
      BY <1>1, <3>1, <3>2 DEF TableTypes
    <3>4. SessionsHold'
      <4> SUFFICES ASSUME NEW t \in accSessions
                   PROVE  t.user \in Named' /\ (t.pw = accUsers'[t.user].pw \/ t.own \/ t.late)
        BY <1>1 DEF SessionsHold
      <4>1. t.user \in Named /\ (t.pw = accUsers[t.user].pw \/ t.own \/ t.late)
        BY DEF SessionsHold
      <4> QED BY <3>2, <4>1
    <3> QED BY <3>2, <3>3, <3>4
  <2>2. CASE ~q.found
    <3> DEFINE row == [role |-> q.role, pw |-> 0, ldap |-> TRUE]
    <3>1. AddUser(q.user, row)
      BY <2>2 DEF LdapRow
    <3>2. q.user \in AccNames /\ row \in UserRow /\ accPw' \in Nat
      BY <1>1 DEF LdapRequest, UserRow, TableTypes
    <3> HIDE DEF row
    <3> QED BY <1>1, <3>1, <3>2, UserAdded
  <2> QED BY <1>1, <2>1, <2>2 DEF LdapRequest
<1>4. \A r \in AccSlots : EndingKept(accReqs[r])
  BY <1>1, <1>3, EndingsKept
<1> QED BY <1>1, <1>2, <1>3, <1>4, TablesMove

\* A login opens a session on the password it has compared, or on none that is current:
\* then it was late.
LEMMA LoginOpens ==
  ASSUME AccInv, NEW s \in AccSlots, OpenSession(s)
  PROVE  AccInv'
<1> USE DEF AccInv
<1> DEFINE q == accReqs[s]
           late == q.pw # accUsers[q.user].pw \/ Locked(q.user)
           t == [token |-> accToken', user |-> q.user, live |-> TRUE, own |-> FALSE,
                 pw |-> q.pw, late |-> late]
<1>1. q \in LoginRequest /\ q.user \in Named /\ accToken' = accToken + 1
        /\ accSessions' = accSessions \cup {t}
        /\ EndOf(s) /\ UNCHANGED <<accUsers, accDone, accEver, accPw>>
  BY RequestKinds DEF OpenSession
<1>2. /\ t \in SessionRow /\ t.user = q.user /\ t.user \in Named
      /\ (t.pw = accUsers[t.user].pw \/ t.late) /\ (Locked(q.user) => t.late)
  <2>1. late \in BOOLEAN /\ (q.pw = accUsers[q.user].pw \/ late) /\ (Locked(q.user) => late)
    OBVIOUS
  <2>2. accToken' \in Nat \ {0} /\ q.user \in AccNames /\ q.pw \in Nat
    BY <1>1 DEF TableTypes, LoginRequest
  <2> HIDE DEF late
  <2>3. t \in SessionRow
    BY <2>1, <2>2 DEF SessionRow
  <2>4. t.user \in Named /\ t.pw = q.pw /\ t.late = late /\ t.user = q.user
    BY <1>1
  <2> QED BY <2>1, <2>3, <2>4
<1> HIDE DEF t
<1>3. TableTypes' /\ SessionsHold'
  BY <1>1, <1>2 DEF TableTypes, SessionsHold, Named
<1>4. ~accDone => \A n \in Named : accUsers[n].role = "admin"
  BY DEF SetupHolds
<1>5. \A r \in AccSlots : EndingKept(accReqs[r])
  BY <1>1, <1>2 DEF EndingKept, EndingsHold, EndingHolds, Locked, Named
<1> QED BY <1>1, <1>3, <1>4, <1>5, FreeIsHarmless, TablesMove DEF EndOf, BeforeSetup, Named, Free

\* Sessions end by logout and by age.
LEMMA SessionGoes ==
  ASSUME AccInv, NEW t \in accSessions, Logout(t) \/ ExpireSession(t)
  PROVE  AccInv'
<1> USE DEF AccInv
<1>1. UNCHANGED <<accUsers, accDone, accReqs, accCounts>>
  BY DEF Logout, ExpireSession
<1>2. \A r \in accSessions' : 
          \/ r \in accSessions
          \/ r \in SessionRow /\ r.user = t.user /\ r.pw = t.pw /\ r.own = t.own /\ r.late = t.late
               /\ r.token = t.token
  <2> DEFINE gone == [t EXCEPT !.live = FALSE]
  <2>1. t \in SessionRow
    BY DEF TableTypes
  <2>2. gone \in SessionRow /\ gone.user = t.user /\ gone.pw = t.pw /\ gone.own = t.own /\ gone.late = t.late
          /\ gone.token = t.token
    BY <2>1 DEF SessionRow
  <2>3. accSessions' \subseteq accSessions \cup {gone}
    BY DEF Logout, ExpireSession
  <2> HIDE DEF gone
  <2> QED BY <2>2, <2>3
<1>3. TableTypes'
  BY <1>1, <1>2 DEF TableTypes, Named, accCounts
<1>4. SessionsHold'
  BY <1>1, <1>2 DEF SessionsHold, Named
<1>5. RequestTypes' /\ SetupHolds' /\ \A s \in AccSlots : Counted(accReqs[s])'
  BY <1>1 DEF RequestTypes, SetupHolds, BeforeSetup, Named, Counted
<1>6. EndingsHold'
  BY <1>1, <1>2 DEF EndingsHold, EndingHolds, Named
<1> QED BY <1>3, <1>4, <1>5, <1>6

\* Every step preserves the invariant.
LEMMA AccInvStep == AccInv /\ [AccNext]_accVars => AccInv'
<1>1. CASE AccNext
  <2> USE <1>1
  <2>1. SUFFICES ASSUME AccInv PROVE AccInv'
    OBVIOUS
  <2>2. ASSUME NEW s \in AccSlots,
               \/ SetupUser(s) \/ SetupRefused(s) \/ FinishSetup(s)
               \/ CommitAddUser(s) \/ CommitRole(s) \/ EndSessions(s) \/ CommitPassword(s) \/ CommitDelete(s)
               \/ LdapRow(s) \/ OpenSession(s) \/ CutOff(s)
        PROVE  AccInv'
    BY <2>1, <2>2, RequestEnds, SetupWrites, AddCommits, RoleCommits, SessionsEnd,
       PasswordCommits, DeleteCommits, LdapWrites, LoginOpens
  <2>3. ASSUME NEW s \in AccSlots, NEW u \in AccNames, BeginSetup(s, u) \/ BeginLogin(s, u)
        PROVE  AccInv'
    BY <2>1, <2>3, FormBegins
  <2>4. ASSUME NEW s \in AccSlots, NEW u \in AccNames,
               \/ BeginDelete(s, u)
               \/ \E role \in Roles : BeginAddUser(s, u, role)
               \/ \E role \in Roles \cup {"same"}, reset \in BOOLEAN : BeginEdit(s, u, role, reset)
               \/ \E role \in AccDirectory : BeginLdapLogin(s, u, role)
        PROVE  AccInv'
    BY <2>1, <2>4, AdministrationBegins
  <2>5. ASSUME NEW s \in AccSlots, NEW t \in accSessions, BeginOwnPassword(s, t)
        PROVE  AccInv'
    <3>1. t.user \in AccNames
      BY <2>1 DEF AccInv, TableTypes, SessionRow
    <3> QED BY <2>1, <2>5, <3>1, AdministrationBegins
  <2>6. ASSUME NEW t \in accSessions, Logout(t) \/ ExpireSession(t)
        PROVE  AccInv'
    BY <2>1, <2>6, SessionGoes
  <2> QED BY <2>2, <2>3, <2>4, <2>5, <2>6 DEF AccNext, Roles
<1>2. CASE UNCHANGED accVars
  BY <1>2 DEF accVars, accTables, accCounts, AccInv, TableTypes, RequestTypes, SessionsHold,
              EndingsHold, EndingHolds, SetupHolds, BeforeSetup, Counted, Named
<1> QED BY <1>1, <1>2

\* Whatever requests, logins and setup forms overlap: the tables and the requests under
\* way keep their types, every session stands on a password its name has had, and nobody
\* works before the setup is complete.
THEOREM AccountsCorrect == AccSpec => []AccInv
  BY AccInvInit, AccInvStep, PTL DEF AccSpec

\* However logins, resets and changes of passwords overlap, a session stands on an older
\* password only as the one that came with a change, or when its login was late.
THEOREM SessionsStandOnPasswords == AccSpec => []SessionsAreCurrent
<1>1. AccInv => SessionsAreCurrent
  BY DEF AccInv, SessionsHold, SessionsAreCurrent
<1> QED BY <1>1, AccountsCorrect, PTL

-----------------------------------------------------------------------------
(* The last administrator                                                    *)

\* Who is an administrator stays one where no role changes.
LEMMA RolesKept ==
  ASSUME Named \subseteq Named', \A n \in Named : accUsers'[n].role = accUsers[n].role
  PROVE  Admins \subseteq Admins'
  BY DEF Admins

\* Most steps change no role; the setup that completes leaves an administrator.
LEMMA MostStepsKeepAdmins ==
  ASSUME AccInv, NEW s \in AccSlots, Admins # {} \/ (~accDone /\ accDone'),
         \/ SetupUser(s) \/ SetupRefused(s) \/ FinishSetup(s) \/ CommitAddUser(s)
         \/ EndSessions(s) \/ OpenSession(s) \/ CutOff(s)
  PROVE  Admins' # {}
<1> USE DEF AccInv
<1>1. Admins # {}
  <2>1. SUFFICES ASSUME ~accDone, accDone' PROVE Admins # {}
    OBVIOUS
  <2>2. FinishSetup(s)
    BY <2>1 DEF SetupUser, SetupRefused, CommitAddUser, EndSessions, OpenSession,
                CutOff, accTables
  <2> QED BY <2>1, <2>2 DEF FinishSetup, SetupHolds, BeforeSetup, Admins
<1>2. CASE SetupRefused(s) \/ FinishSetup(s) \/ EndSessions(s) \/ OpenSession(s) \/ CutOff(s)
  <2>1. accUsers' = accUsers
    BY <1>2 DEF SetupRefused, FinishSetup, EndSessions, OpenSession, CutOff, accTables
  <2> QED BY <1>1, <2>1 DEF Admins, Named
<1>3. ASSUME NEW u \in AccNames, NEW row \in UserRow, AddUser(u, row) PROVE Admins' # {}
  <2>1. u \notin Named /\ accUsers' = WithUser(u, row)
    BY <1>3 DEF AddUser, TableTypes
  <2> QED BY <1>1, <2>1, WithUserRows, RolesKept
<1>4. CASE SetupUser(s)
  <2>1. accReqs[s] \in SetupRequest
    BY <1>4, RequestKinds DEF SetupUser
  <2>2. CASE accReqs[s].first
    <3> DEFINE row == [role |-> "admin", pw |-> accPw', ldap |-> FALSE]
    <3>1. AddUser(accReqs[s].user, row) /\ accPw' \in Nat
      BY <1>4, <2>2 DEF SetupUser, NewPassword, TableTypes
    <3>2. row \in UserRow /\ accReqs[s].user \in AccNames
      BY <2>1, <3>1 DEF UserRow, Roles, SetupRequest
    <3> HIDE DEF row
    <3> QED BY <1>3, <3>1, <3>2
  <2>3. CASE ~accReqs[s].first
    BY <1>1, <1>4, <2>3 DEF SetupUser, Admins, Named
  <2> QED BY <2>2, <2>3
<1>5. CASE CommitAddUser(s)
  <2> DEFINE row == [role |-> accReqs[s].role, pw |-> accPw', ldap |-> FALSE]
  <2>1. accReqs[s] \in AddRequest
    BY <1>5, RequestKinds DEF CommitAddUser
  <2>2. AddUser(accReqs[s].user, row) /\ accPw' \in Nat
    BY <1>5 DEF CommitAddUser, NewPassword, TableTypes
  <2>3. row \in UserRow /\ accReqs[s].user \in AccNames
    BY <2>1, <2>2 DEF UserRow, AddRequest
  <2> HIDE DEF row
  <2> QED BY <1>3, <2>2, <2>3
<1> QED BY <1>2, <1>4, <1>5

\* An edit or a deletion that had counted the administrators there are takes none of
\* them away who is the last.
LEMMA CountedKeepsAdmins ==
  ASSUME AccInv, NEW s \in AccSlots, Admins # {}, CommitRole(s) \/ CommitPassword(s) \/ CommitDelete(s),
         accReqs[s].admins = Admins
  PROVE  Admins' # {}
<1> USE DEF AccInv
<1> DEFINE q == accReqs[s]
           u == q.user
<1>1. PICK a : a \in Admins
  OBVIOUS
<1>2. CASE CommitDelete(s)
  <2>1. \A n \in Named \ {u} : n \in Named' /\ accUsers'[n] = accUsers[n]
    BY <1>2 DEF CommitDelete, Named
  <2>2. CASE Admins # {u}
    <3>1. PICK b \in Admins : b # u
      BY <1>1, <2>2
    <3> QED BY <2>1, <3>1 DEF Admins
  <2>3. Admins # {u}
    BY <1>2, FS_Singleton DEF CommitDelete, Counted
  <2> QED BY <2>2, <2>3
<1>3. CASE CommitRole(s) \/ CommitPassword(s)
  <2>1. (q \in EditRequest \/ q \in EndingRequest) /\ q.kind \in {"edit", "ending"} /\ u \in Named
    BY <1>3, RequestKinds DEF CommitRole, CommitPassword, EndingsHold, EndingHolds
  <2>2. Edited(q) \in UserRow /\ u \in AccNames
    BY <2>1, EditedRow DEF TableTypes
  <2>3. PICK row \in UserRow : accUsers' = WithUser(u, row) /\ row.role = Edited(q).role
    <3>1. CASE CommitRole(s)
      BY <2>2, <3>1 DEF CommitRole
    <3>2. CASE CommitPassword(s)
      <4> DEFINE row == [Edited(q) EXCEPT !.pw = accPw']
      <4>1. accUsers' = WithUser(u, row) /\ accPw' \in Nat
        BY <3>2 DEF CommitPassword, NewPassword, TableTypes
      <4>2. row \in UserRow /\ row.role = Edited(q).role
        BY <2>2, <4>1 DEF UserRow
      <4> HIDE DEF row
      <4> QED BY <4>1, <4>2
    <3> QED BY <1>3, <3>1, <3>2
  <2>4. Named' = Named \cup {u} /\ \A n \in Named' : accUsers'[n] = IF n = u THEN row ELSE accUsers[n]
    BY <2>2, <2>3, WithUserRows
  <2>5. CASE Admins # {u}
    <3>1. PICK b \in Admins : b # u
      BY <1>1, <2>5
    <3> QED BY <2>4, <3>1 DEF Admins
  <2>6. CASE Admins = {u}
    <3>1. Cardinality(q.admins) = 1 /\ u \in q.admins /\ accUsers[u].role = "admin"
      BY <2>6, FS_Singleton DEF Admins
    <3>2. q.role \in {"admin", "same"}
      BY <2>1, <3>1 DEF Counted
    <3>3. Edited(q).role = "admin"
      <4>1. accUsers[u] \in UserRow
        BY <2>1 DEF TableTypes
      <4> QED BY <3>1, <3>2, <4>1 DEF Edited, UserRow
    <3> QED BY <2>3, <2>4, <3>3 DEF Admins
  <2> QED BY <2>5, <2>6
<1> QED BY <1>2, <1>3

\* Whatever requests overlap: an installation whose setup is complete loses its last
\* administrator only by the role the directory gives, or by a request that had counted
\* others than there are when it commits.
THEOREM AnAdminRemains == AccSpec => AdminRemains
<1> DEFINE Excused(s) ==
      /\ accReqs[s].kind \in {"edit", "ending", "delete", "ldap"} /\ accReqs'[s] # accReqs[s]
      /\ accReqs[s].kind = "ldap" \/ accReqs[s].admins # Admins
<1>1. AccInv /\ [AccNext]_accVars =>
        [accDone' /\ Admins' = {} /\ (Admins # {} \/ ~accDone) => \E s \in AccSlots : Excused(s)]_accVars
  <2> SUFFICES ASSUME AccInv, AccNext, accDone', Admins' = {}, Admins # {} \/ ~accDone,
                      ~\E s \in AccSlots : Excused(s)
               PROVE  FALSE
    OBVIOUS
  <2>1. ASSUME UNCHANGED <<accUsers, accDone>> PROVE FALSE
    BY <2>1 DEF Admins, Named
  <2>2. ASSUME NEW s \in AccSlots,
               \/ SetupUser(s) \/ SetupRefused(s) \/ FinishSetup(s) \/ CommitAddUser(s)
               \/ EndSessions(s) \/ OpenSession(s) \/ CutOff(s)
        PROVE  FALSE
    BY <2>2, MostStepsKeepAdmins
  <2>3. ASSUME NEW s \in AccSlots,
               CommitRole(s) \/ CommitPassword(s) \/ CommitDelete(s) \/ LdapRow(s)
        PROVE  FALSE
    <3>1. accReqs[s].kind \in {"edit", "ending", "delete", "ldap"} /\ accDone
      BY <2>3, DoneBefore DEF CommitRole, CommitPassword, CommitDelete, LdapRow
    <3>2. accReqs'[s].kind \in {"free", "login"}
      <4>1. \/ accReqs' = [accReqs EXCEPT ![s] = Free]
            \/ accReqs' = [accReqs EXCEPT ![s] = [kind |-> "login", user |-> accReqs[s].user, pw |-> 0]]
        BY <2>3, Zenon DEF CommitRole, CommitPassword, CommitDelete, LdapRow, EndOf
      <4> QED BY <4>1 DEF Free, AccInv, RequestTypes
    <3>3. accReqs[s].kind # "ldap" /\ accReqs[s].admins = Admins
      BY <3>1, <3>2
    <3>4. CommitRole(s) \/ CommitPassword(s) \/ CommitDelete(s)
      BY <2>3, <3>3 DEF LdapRow
    <3> QED BY <3>1, <3>3, <3>4, CountedKeepsAdmins
  <2>4. ASSUME NEW s \in AccSlots, NEW u \in AccNames,
               \/ BeginSetup(s, u) \/ BeginDelete(s, u) \/ BeginLogin(s, u)
               \/ \E role \in {"admin", "readonly"} : BeginAddUser(s, u, role)
               \/ \E role \in {"admin", "readonly", "same"}, reset \in BOOLEAN : BeginEdit(s, u, role, reset)
               \/ \E role \in AccDirectory : BeginLdapLogin(s, u, role)
        PROVE  FALSE
    BY <2>1, <2>4 DEF BeginSetup, BeginDelete, BeginLogin, BeginAddUser, BeginEdit, BeginLdapLogin,
                      Admitted, accTables
  <2>5. ASSUME NEW t \in accSessions,
               (\E s \in AccSlots : BeginOwnPassword(s, t)) \/ Logout(t) \/ ExpireSession(t)
        PROVE  FALSE
    BY <2>1, <2>5 DEF BeginOwnPassword, Admitted, Logout, ExpireSession, accTables
  <2> QED BY <2>2, <2>3, <2>4, <2>5 DEF AccNext
<1> QED BY <1>1, AccountsCorrect, PTL DEF AccSpec, AdminRemains

-----------------------------------------------------------------------------
(***************************************************************************)
(* For any keys and any number of requests at a time: the nightly job      *)
(* disables no key a request has used since revision 028.  The reason: a    *)
(* request that has authenticated leaves the algorithm in the row, and     *)
(* that no request overlapping it takes the algorithm away again.          *)
(***************************************************************************)

LookUp == [at : {"hmac", "sha256"}, key : KeyNames]
Found == [at : {"found"}, key : KeyNames, row : StoredKeys]

KeyTypeOK ==
  /\ keyRow \in [KeyNames -> StoredKeys \union {Unstored}]
  /\ keyReq \in [KeySlots -> {NoRequest} \union LookUp \union Found]
  /\ keyJob \in [runs : BOOLEAN, stale : SUBSET KeyNames]
  /\ keyUse \in [KeyNames -> Uses] /\ keyOld \in [KeyNames -> Uses]

\* A request that has found a key, and a job that has selected one, do so of a row
\* that is still there.
RowsStay ==
  /\ \A s \in KeySlots : keyReq[s].at = "found" => HasKey(keyReq[s].key)
  /\ \A k \in keyJob.stale : HasKey(k)

\* The algorithm, once noted in a row, stays noted.
AlgoStays ==
  \A s \in KeySlots : keyReq[s].at = "found" /\ keyReq[s].row.algo = "hmac"
                        => keyRow[keyReq[s].key].algo = "hmac"

\* What was used is marked, and what the job has selected had not been used.
UsedAreMarked ==
  /\ \A k \in KeyNames : keyUse[k] = "since" /\ HasKey(k) => keyRow[k].algo = "hmac"
  /\ \A k \in keyJob.stale : keyOld[k] # "since"

KeyInv == KeyTypeOK /\ RowsStay /\ AlgoStays /\ UsedAreMarked

\* A key without a row is told from every row.
LEMMA UnstoredIsNoRow == Unstored \notin StoredKeys
  BY DEF Unstored, StoredKeys

\* What a request holds, by where it stands.
LEMMA KeyRequestKinds ==
  ASSUME KeyTypeOK, NEW s \in KeySlots
  PROVE  /\ keyReq[s].at = "found" <=> keyReq[s] \in Found
         /\ keyReq[s].at \in {"hmac", "sha256"} <=> keyReq[s] \in LookUp
  BY DEF KeyTypeOK, NoRequest, LookUp, Found

\* The keys of an installation from before the algorithm was noted satisfy the invariant.
LEMMA KeyInvInit == KeyInit => KeyInv
<1> SUFFICES ASSUME KeyInit PROVE KeyInv
  OBVIOUS
<1> USE DEF KeyInit
<1>1. EarlyKeys \subseteq StoredKeys
  BY DEF EarlyKeys, StoredKeys
<1>2. KeyTypeOK
  BY <1>1 DEF KeyTypeOK, NoJob, Uses
<1>3. RowsStay /\ AlgoStays /\ UsedAreMarked
  BY DEF RowsStay, AlgoStays, UsedAreMarked, NoRequest, NoJob
<1> QED BY <1>2, <1>3 DEF KeyInv

\* The administrator, and time.
LEMMA AdministratorStep ==
  ASSUME KeyInv, NEW k \in KeyNames, CreateApiKey(k) \/ DeleteApiKey(k) \/ KeyAges(k)
  PROVE  KeyInv'
<1> USE DEF KeyInv
<1>1. CASE CreateApiKey(k)
  <2> USE <1>1 DEF CreateApiKey, keyHistory
  <2>1. KeyTypeOK'
    BY DEF KeyTypeOK, NewKey, StoredKeys
  <2>2. \A j \in KeyNames : keyRow'[j] = IF j = k THEN NewKey ELSE keyRow[j]
    BY DEF KeyTypeOK
  <2>3. NewKey # Unstored /\ NewKey.algo = "hmac"
    BY DEF NewKey, Unstored
  <2>4. RowsStay' /\ AlgoStays' /\ UsedAreMarked'
    BY <2>2, <2>3, KeyRequestKinds DEF KeyTypeOK, RowsStay, AlgoStays, UsedAreMarked, HasKey, Found
  <2> QED BY <2>1, <2>4
<1>2. CASE DeleteApiKey(k)
  <2> USE <1>2 DEF DeleteApiKey
  <2>1. \A j \in KeyNames : keyRow'[j] = IF j = k THEN Unstored ELSE keyRow[j]
    BY DEF KeyTypeOK
  <2>2. \A s \in KeySlots : keyReq'[s] = NoRequest \/ (keyReq'[s] = keyReq[s] /\ keyReq[s].key # k)
    OBVIOUS
  <2>3. keyJob' = [runs |-> keyJob.runs, stale |-> keyJob.stale \ {k}]
    BY DEF KeyTypeOK
  <2>4. KeyTypeOK'
    BY <2>3 DEF KeyTypeOK, Uses
  <2>5. RowsStay' /\ AlgoStays' /\ UsedAreMarked'
    BY <2>1, <2>2, <2>3, KeyRequestKinds
    DEF KeyTypeOK, RowsStay, AlgoStays, UsedAreMarked, HasKey, Found, NoRequest
  <2> QED BY <2>4, <2>5
<1>3. CASE KeyAges(k)
  <2> USE <1>3 DEF KeyAges, keyHistory
  <2>1. keyRow[k] \in StoredKeys
    BY DEF HasKey, KeyTypeOK
  <2>2. PICK row \in StoredKeys : keyRow' = [keyRow EXCEPT ![k] = row] /\ row.algo = keyRow[k].algo
    <3>1. [keyRow[k] EXCEPT !.aged = TRUE] \in StoredKeys /\ [keyRow[k] EXCEPT !.recent = FALSE] \in StoredKeys
      BY <2>1 DEF StoredKeys
    <3>2. \E row \in StoredKeys : keyRow' = [keyRow EXCEPT ![k] = row] /\ row.algo = keyRow[k].algo
      <4>1. [keyRow[k] EXCEPT !.aged = TRUE].algo = keyRow[k].algo
              /\ [keyRow[k] EXCEPT !.recent = FALSE].algo = keyRow[k].algo
        BY <2>1 DEF StoredKeys
      <4>2. CASE keyRow' = [keyRow EXCEPT ![k] = [keyRow[k] EXCEPT !.aged = TRUE]]
        BY <3>1, <4>1, <4>2
      <4>3. CASE keyRow' = [keyRow EXCEPT ![k] = [keyRow[k] EXCEPT !.recent = FALSE]]
        BY <3>1, <4>1, <4>3
      <4>4. \/ keyRow' = [keyRow EXCEPT ![k] = [keyRow[k] EXCEPT !.aged = TRUE]]
            \/ keyRow' = [keyRow EXCEPT ![k] = [keyRow[k] EXCEPT !.recent = FALSE]]
        OBVIOUS
      <4> QED BY <4>2, <4>3, <4>4
    <3> QED BY <3>2
  <2>3. KeyTypeOK'
    BY <2>2 DEF KeyTypeOK
  <2>4. \A j \in KeyNames : (HasKey(j) <=> HasKey(j)') /\ (HasKey(j) => keyRow'[j].algo = keyRow[j].algo)
    BY <2>1, <2>2, UnstoredIsNoRow DEF KeyTypeOK, HasKey
  <2>5. RowsStay' /\ AlgoStays' /\ UsedAreMarked'
    BY <2>4, KeyRequestKinds DEF KeyTypeOK, RowsStay, AlgoStays, UsedAreMarked, Found
  <2> QED BY <2>3, <2>5
<1> QED BY <1>1, <1>2, <1>3

\* A request: what it finds is remembered, what it changes of the row it writes.
LEMMA RequestStep ==
  ASSUME KeyInv, NEW s \in KeySlots,
         (\E k \in KeyNames : BeginUse(s, k)) \/ LookUpKey(s) \/ Authenticate(s)
  PROVE  KeyInv'
<1> USE DEF KeyInv
<1>1. CASE \E k \in KeyNames : BeginUse(s, k)
  <2> PICK k \in KeyNames : BeginUse(s, k)
    BY <1>1
  <2>1. KeyTypeOK'
    BY DEF BeginUse, keyHistory, KeyTypeOK, LookUp
  <2>2. \A q \in KeySlots : keyReq'[q].at = "found" => keyReq'[q] = keyReq[q]
    BY DEF BeginUse, KeyTypeOK
  <2>3. RowsStay' /\ AlgoStays' /\ UsedAreMarked'
    BY <2>2 DEF BeginUse, keyHistory, RowsStay, AlgoStays, UsedAreMarked, HasKey
  <2> QED BY <2>1, <2>3
<1>2. CASE LookUpKey(s)
  <2> DEFINE k == keyReq[s].key
             next == IF Matches(k, keyReq[s].at) THEN [at |-> "found", key |-> k, row |-> keyRow[k]]
                     ELSE IF keyReq[s].at = "hmac" THEN [at |-> "sha256", key |-> k]
                     ELSE NoRequest
  <2>1. k \in KeyNames
    BY <1>2, KeyRequestKinds DEF LookUpKey, LookUp
  <2>2. keyReq' = [keyReq EXCEPT ![s] = next] /\ UNCHANGED <<keyRow, keyJob, keyUse, keyOld>>
    BY <1>2 DEF LookUpKey, keyHistory
  <2>3. next.at = "found" => HasKey(k) /\ next.key = k /\ next.row = keyRow[k]
    BY DEF Matches, NoRequest
  <2>4. next \in {NoRequest} \union LookUp \union Found
    BY <2>1 DEF Matches, HasKey, KeyTypeOK, LookUp, Found
  <2>5. KeyTypeOK'
    BY <2>2, <2>4 DEF KeyTypeOK
  <2>6. RowsStay' /\ AlgoStays' /\ UsedAreMarked'
    BY <2>1, <2>2, <2>3 DEF KeyTypeOK, RowsStay, AlgoStays, UsedAreMarked, HasKey
  <2> QED BY <2>5, <2>6
<1>3. CASE Authenticate(s)
  <2> DEFINE k == keyReq[s].key
             was == keyReq[s].row
  <2>1. keyReq[s] \in Found /\ k \in KeyNames /\ was \in StoredKeys
    BY <1>3, KeyRequestKinds DEF Authenticate, Found
  <2>2. keyRow[k] \in StoredKeys
    BY <1>3, <2>1 DEF Authenticate, RowsStay, HasKey, KeyTypeOK
  <2>3. keyUse' = [keyUse EXCEPT ![k] = "since"] /\ keyReq' = [keyReq EXCEPT ![s] = NoRequest]
          /\ UNCHANGED <<keyJob, keyOld>>
    BY <1>3 DEF Authenticate
  <2> DEFINE row == Committed(keyRow[k], was)
  <2>4. \A j \in KeyNames : keyRow'[j] = IF j = k THEN row ELSE keyRow[j]
    BY <1>3 DEF Authenticate, KeyTypeOK
  <2>5. row \in StoredKeys /\ row.algo = IF was.algo # "hmac" THEN "hmac" ELSE keyRow[k].algo
    BY <2>1, <2>2 DEF Committed, Marked, StoredKeys
  <2>6. row.algo = "hmac"
    BY <1>3, <2>1, <2>5 DEF Authenticate, AlgoStays
  <2>7. KeyTypeOK'
    BY <1>3, <2>1, <2>3, <2>5 DEF Authenticate, KeyTypeOK, Uses
  <2> HIDE DEF row
  <2>9. \A q \in KeySlots : keyReq'[q].at = "found" => keyReq'[q] = keyReq[q] /\ keyReq[q] \in Found
    BY <2>3, KeyRequestKinds DEF KeyTypeOK, NoRequest
  <2>10. /\ RowsStay' /\ AlgoStays'
         /\ \A j \in KeyNames : keyUse'[j] = "since" /\ HasKey(j)' => keyRow'[j].algo = "hmac"
    <3>1. \A j \in KeyNames : HasKey(j) => HasKey(j)' 
      BY <2>4, <2>5, UnstoredIsNoRow DEF HasKey
    <3>2. RowsStay'
      BY <2>3, <2>9, <3>1 DEF RowsStay, KeyTypeOK, Found
    <3>3. AlgoStays'
      BY <2>4, <2>6, <2>9 DEF AlgoStays, Found
    <3>4. \A j \in KeyNames : keyUse'[j] = "since" /\ HasKey(j)' => keyRow'[j].algo = "hmac"
      BY <2>1, <2>3, <2>4, <2>6 DEF UsedAreMarked, HasKey, KeyTypeOK
    <3> QED BY <3>2, <3>3, <3>4
  <2>11. UsedAreMarked'
    BY <2>3, <2>10 DEF UsedAreMarked
  <2> QED BY <2>7, <2>10, <2>11
<1> QED BY <1>1, <1>2, <1>3

\* The job: it selects no key that is marked.
LEMMA JobStep ==
  ASSUME KeyInv, SelectStaleKeys \/ DisableStaleKeys
  PROVE  KeyInv'
<1> USE DEF KeyInv
<1>1. CASE SelectStaleKeys
  <2>1. \A k \in Stale : k \in KeyNames /\ HasKey(k) /\ keyUse[k] # "since"
    BY DEF Stale, UsedAreMarked
  <2>2. KeyTypeOK'
    BY <1>1, <2>1 DEF SelectStaleKeys, KeyTypeOK
  <2>3. RowsStay' /\ AlgoStays' /\ UsedAreMarked'
    BY <1>1, <2>1 DEF SelectStaleKeys, RowsStay, AlgoStays, UsedAreMarked, HasKey
  <2> QED BY <2>2, <2>3
<1>2. CASE DisableStaleKeys
  <2> USE <1>2 DEF DisableStaleKeys, keyHistory
  <2>1. \A k \in KeyNames : (HasKey(k) <=> HasKey(k)') /\ (HasKey(k) => keyRow'[k].algo = keyRow[k].algo)
                            /\ keyRow'[k] \in StoredKeys \union {Unstored}
    BY UnstoredIsNoRow DEF KeyTypeOK, HasKey, RowsStay, StoredKeys
  <2>2. KeyTypeOK'
    BY <2>1 DEF KeyTypeOK, NoJob
  <2>3. RowsStay' /\ AlgoStays' /\ UsedAreMarked'
    BY <2>1, KeyRequestKinds DEF KeyTypeOK, RowsStay, AlgoStays, UsedAreMarked, NoJob, Found
  <2> QED BY <2>2, <2>3
<1> QED BY <1>1, <1>2

\* Every step preserves the invariant.
LEMMA KeyInvStep == KeyInv /\ [KeyNext]_keyVars => KeyInv'
<1>1. CASE KeyNext
  BY <1>1, AdministratorStep, RequestStep, JobStep DEF KeyNext
<1>2. CASE UNCHANGED keyVars
  BY <1>2 DEF keyVars, keyHistory, KeyInv, KeyTypeOK, RowsStay, AlgoStays, UsedAreMarked, HasKey
<1> QED BY <1>1, <1>2

\* Whatever requests, deletions and runs of the job overlap: a key that was used keeps its
\* algorithm, and the job has selected none that had been used before.
THEOREM KeysKeepTheirMarks == KeySpec => []KeyInv
  BY KeyInvInit, KeyInvStep, PTL DEF KeySpec

\* However many keys there are and however many requests, deletions and runs of the
\* job overlap: a key that a request has used since revision 028, before the job
\* made its selection, is not disabled by it.
THEOREM UsedKeysAreSpared == KeySpec => UsedKeysStayEnabled
<1> DEFINE Spared == \A k \in KeyNames :
             HasKey(k) /\ keyRow[k].enabled /\ keyRow'[k] # Unstored /\ ~keyRow'[k].enabled
               => keyOld[k] # "since"
<1>1. KeyInv /\ [KeyNext]_keyVars => [Spared]_keyVars
  <2> SUFFICES ASSUME KeyInv, KeyNext, NEW j \in KeyNames, HasKey(j), keyRow[j].enabled,
                      keyRow'[j] # Unstored, ~keyRow'[j].enabled
               PROVE  keyOld[j] # "since"
    OBVIOUS
  <2> USE DEF KeyInv
  <2>0. keyRow[j] \in StoredKeys
    BY DEF HasKey, KeyTypeOK
  <2>1. ASSUME NEW k \in KeyNames, CreateApiKey(k) \/ DeleteApiKey(k) \/ KeyAges(k)
        PROVE  FALSE
    BY <2>0, <2>1 DEF CreateApiKey, DeleteApiKey, KeyAges, KeyTypeOK, HasKey, StoredKeys, NewKey
  <2>2. ASSUME NEW s \in KeySlots, (\E k \in KeyNames : BeginUse(s, k)) \/ LookUpKey(s)
        PROVE  FALSE
    BY <2>2 DEF BeginUse, LookUpKey
  <2>3. ASSUME NEW s \in KeySlots, Authenticate(s)
        PROVE  FALSE
    <3>1. keyRow'[j] = keyRow[j] \/ keyRow'[j].enabled = keyRow[j].enabled
      BY <2>0, <2>3 DEF Authenticate, Committed, KeyTypeOK, StoredKeys
    <3> QED BY <3>1
  <2>4. CASE SelectStaleKeys
    BY <2>4 DEF SelectStaleKeys
  <2>5. CASE DisableStaleKeys
    BY <2>5 DEF DisableStaleKeys, UsedAreMarked
  <2> QED BY <2>1, <2>2, <2>3, <2>4, <2>5 DEF KeyNext
<1> QED BY <1>1, KeysKeepTheirMarks, PTL DEF KeySpec, UsedKeysStayEnabled

-----------------------------------------------------------------------------
(***************************************************************************)
(* DataExport: a restore is all or nothing.  What the transaction sees is  *)
(* at each of its steps what the tables dealt with so far make of what was *)
(* committed when it began, unless it can only be rolled back.             *)
(***************************************************************************)

\* The tables behind the step have been emptied, the ones before it filled.
Emptied(t, i, body) == \E j \in DOMAIN DxpTables : j > i /\ DxpTables[j] \in DOMAIN body /\ t \in Cascade(DxpTables[j])
Filled(t, i) == \E j \in DOMAIN DxpTables : j < i /\ DxpTables[j] = t

Restoring == dxpStep.phase \in {"truncate", "insert"}

DxpTypes ==
    /\ Restoring => dxpStep.i \in Nat /\ DOMAIN dxpBody \subseteq Exported
    /\ dxpStep.phase = "truncate" => dxpStep.i <= Len(DxpTables)
    /\ dxpStep.phase = "insert" => dxpStep.i > 0
    /\ DOMAIN dxpWork = Present

DxpTruncating ==
    dxpStep.phase = "truncate" /\ ~dxpAborted =>
        \A t \in Present : dxpWork[t] = IF Emptied(t, dxpStep.i, dxpBody) THEN 0 ELSE dxpBefore[t]

DxpInserting ==
    dxpStep.phase = "insert" /\ ~dxpAborted =>
        \A t \in Present :
            dxpWork[t] = IF t \in DOMAIN dxpBody /\ Filled(t, dxpStep.i) THEN dxpBody[t]
                         ELSE IF Emptied(t, 0, dxpBody) THEN 0 ELSE dxpBefore[t]

DxpDbTypes == DOMAIN dxpDb = Present

DxpInv == DxpTypes /\ DxpDbTypes /\ DxpTruncating /\ DxpInserting

-----------------------------------------------------------------------------

\* The tables of an export are numbered.
LEMMA DxpIndices == DOMAIN DxpTables = 1..Len(DxpTables) /\ Len(DxpTables) \in Nat
BY DxpAssumption

\* A table is emptied with itself.
LEMMA DxpCascades == \A t \in Exported : t \in Cascade(t)
BY DEF Cascade

\* No restore is under way at first.
LEMMA DxpInvInit == ASSUME DxpInit PROVE DxpInv
BY DEF DxpInit, DxpInv, DxpTypes, DxpDbTypes, DxpTruncating, DxpInserting, Restoring, Idle, At

\* After one table more is emptied, with all that refers to it, the same holds one step
\* on.
LEMMA DxpTruncateStep == ASSUME DxpInv, TruncateTable PROVE DxpInv'
<1> DEFINE i == dxpStep.i
           table == DxpTables[i]
<1>1. /\ dxpStep.phase = "truncate" /\ i > 0 /\ ~dxpAborted
      /\ dxpStep' = At("truncate", i - 1)
      /\ UNCHANGED <<dxpDb, dxpBody, dxpBefore>>
  BY DEF TruncateTable
<1>2. i \in Nat /\ dxpStep'.phase = "truncate" /\ dxpStep'.i = i - 1 /\ i - 1 \in Nat
  BY <1>1 DEF At, DxpInv, DxpTypes, Restoring
<1>3. DOMAIN dxpWork' = Present
  BY DEF TruncateTable, DxpInv, DxpTypes
<1>4. DxpTypes' /\ DxpDbTypes' /\ DxpInserting'
  BY <1>1, <1>2, <1>3 DEF DxpInv, DxpTypes, DxpDbTypes, DxpInserting, Restoring
<1>5. ASSUME ~dxpAborted', NEW t \in Present
      PROVE  dxpWork'[t] = IF Emptied(t, i - 1, dxpBody) THEN 0 ELSE dxpBefore[t]
  <2>1. dxpWork[t] = IF Emptied(t, i, dxpBody) THEN 0 ELSE dxpBefore[t]
    BY <1>1, <1>5 DEF DxpInv, DxpTruncating
  <2>2. Emptied(t, i - 1, dxpBody) <=>
           Emptied(t, i, dxpBody) \/ (i \in DOMAIN DxpTables /\ table \in DOMAIN dxpBody /\ t \in Cascade(table))
    BY <1>1, <1>2, DxpIndices DEF Emptied
  <2>3. CASE table \notin DOMAIN dxpBody
    <3>1. dxpWork' = dxpWork
      BY <2>3 DEF TruncateTable
    <3> QED BY <2>1, <2>2, <2>3, <3>1
  <2>4. CASE table \in DOMAIN dxpBody
    <3>1. dxpWork' = [x \in Present |-> IF x \in Cascade(table) THEN 0 ELSE dxpWork[x]]
      BY <2>4 DEF TruncateTable
    <3>2. i \in DOMAIN DxpTables
      BY <1>1, <1>2, DxpIndices DEF DxpInv, DxpTypes
    <3> QED BY <2>1, <2>2, <2>4, <3>1, <3>2
  <2> QED BY <2>3, <2>4
<1>6. DxpTruncating'
  BY <1>1, <1>2, <1>5 DEF DxpTruncating
<1> QED BY <1>4, <1>6 DEF DxpInv

\* After one table more is filled, with all before it, the same holds one step on.
LEMMA DxpInsertStep == ASSUME DxpInv, InsertTable PROVE DxpInv'
<1> DEFINE i == dxpStep.i
           table == DxpTables[i]
<1>1. /\ dxpStep.phase = "insert" /\ i <= Len(DxpTables) /\ ~dxpAborted
      /\ dxpStep' = At("insert", i + 1)
      /\ UNCHANGED <<dxpDb, dxpBody, dxpBefore>>
  BY DEF InsertTable
<1>2. i \in Nat /\ dxpStep'.phase = "insert" /\ dxpStep'.i = i + 1 /\ i + 1 \in Nat
  BY <1>1 DEF At, DxpInv, DxpTypes, Restoring
<1>3. DOMAIN dxpWork' = Present
  BY DEF InsertTable, DxpInv, DxpTypes
<1>4. DxpTypes' /\ DxpDbTypes' /\ DxpTruncating'
  BY <1>1, <1>2, <1>3 DEF DxpInv, DxpTypes, DxpDbTypes, DxpTruncating, Restoring
<1>5. ASSUME ~dxpAborted', NEW t \in Present
      PROVE  dxpWork'[t] = IF t \in DOMAIN dxpBody /\ Filled(t, i + 1) THEN dxpBody[t]
                           ELSE IF Emptied(t, 0, dxpBody) THEN 0 ELSE dxpBefore[t]
  <2>1. dxpWork[t] = IF t \in DOMAIN dxpBody /\ Filled(t, i) THEN dxpBody[t]
                     ELSE IF Emptied(t, 0, dxpBody) THEN 0 ELSE dxpBefore[t]
    BY <1>1, <1>5 DEF DxpInv, DxpInserting
  <2>2. Filled(t, i + 1) <=> Filled(t, i) \/ (i \in DOMAIN DxpTables /\ t = table)
    BY <1>2, DxpIndices DEF Filled
  <2>3. t \in DOMAIN dxpBody => Emptied(t, 0, dxpBody)
    <3>1. DOMAIN dxpBody \subseteq Exported
      BY <1>1 DEF DxpInv, DxpTypes, Restoring
    <3> QED BY <3>1, DxpCascades, DxpIndices DEF Emptied, Exported
  <2>4. CASE table \notin DOMAIN dxpBody \cap Present \/ dxpBody[table] = 0
    <3>1. dxpWork' = dxpWork
      BY <2>4 DEF InsertTable
    <3> QED BY <2>1, <2>2, <2>3, <2>4, <3>1
  <2>5. CASE ~(table \notin DOMAIN dxpBody \cap Present \/ dxpBody[table] = 0)
    <3>1. table \notin DxpDated /\ dxpWork' = [dxpWork EXCEPT ![table] = dxpBody[table]]
      BY <1>5, <2>5 DEF InsertTable
    <3>2. i \in DOMAIN DxpTables
      BY <1>1, <1>2, DxpIndices DEF DxpInv, DxpTypes
    <3>3. dxpWork'[t] = IF t = table THEN dxpBody[table] ELSE dxpWork[t]
      BY <3>1 DEF DxpInv, DxpTypes
    <3> QED BY <2>1, <2>2, <2>3, <2>5, <3>2, <3>3
  <2> QED BY <2>4, <2>5
<1>6. DxpInserting'
  <2>1. \A t : Emptied(t, 0, dxpBody') <=> Emptied(t, 0, dxpBody)
    BY <1>1 DEF Emptied
  <2> QED BY <1>1, <1>2, <1>5, <2>1 DEF DxpInserting, Filled
<1> QED BY <1>4, <1>6 DEF DxpInv

\* A restore begins on what is committed, and its inserts once all tables are empty.
LEMMA DxpBeginSteps == ASSUME DxpInv, BeginRestore \/ BeginInsert PROVE DxpInv'
<1>1. CASE BeginRestore
  <2>1. /\ dxpStep' = At("truncate", Len(DxpTables)) /\ dxpBody' \in Bodies
        /\ dxpWork' = dxpDb /\ dxpBefore' = dxpDb /\ dxpDb' = dxpDb
    BY <1>1 DEF BeginRestore
  <2>2. dxpStep'.phase = "truncate" /\ dxpStep'.i = Len(DxpTables)
    BY <2>1 DEF At
  <2>3. DOMAIN dxpBody' \subseteq Exported
    BY <2>1 DEF Bodies
  <2>4. \A t : ~Emptied(t, Len(DxpTables), dxpBody')
    BY DxpIndices DEF Emptied
  <2>5. DxpTypes' /\ DxpDbTypes'
    BY <2>1, <2>2, <2>3, DxpIndices DEF DxpInv, DxpTypes, DxpDbTypes
  <2> QED BY <2>1, <2>2, <2>4, <2>5 DEF DxpInv, DxpTruncating, DxpInserting
<1>2. CASE BeginInsert
  <2>1. /\ dxpStep = At("truncate", 0) /\ dxpStep' = At("insert", 1) /\ ~dxpAborted
        /\ UNCHANGED <<dxpDb, dxpWork, dxpAborted, dxpBody, dxpBefore>>
    BY <1>2 DEF BeginInsert
  <2>2. dxpStep.phase = "truncate" /\ dxpStep.i = 0 /\ dxpStep'.phase = "insert" /\ dxpStep'.i = 1
    BY <2>1 DEF At
  <2>3. \A t : ~Filled(t, 1) /\ (Emptied(t, 0, dxpBody') <=> Emptied(t, 0, dxpBody))
    BY <2>1, DxpIndices DEF Filled, Emptied
  <2> QED BY <2>1, <2>2, <2>3 DEF DxpInv, DxpTypes, DxpDbTypes, DxpTruncating, DxpInserting, Restoring
<1> QED BY <1>1, <1>2

\* Whatever leaves a restore, or goes on beside one.
LEMMA DxpOtherSteps ==
  ASSUME DxpInv,
         \/ \E t \in Present : Edit(t)
         \/ BeginDownload \/ ExportTable \/ AnswerDownload \/ CommitRestore
  PROVE  DxpInv'
<1>1. dxpStep'.phase \notin {"truncate", "insert"} /\ dxpWork' = dxpWork
  BY DEF Edit, BeginDownload, ExportTable, AnswerDownload, CommitRestore, dxpRequest, Idle, At
<1>2. DOMAIN dxpDb' = Present
  BY DEF Edit, BeginDownload, ExportTable, AnswerDownload, CommitRestore, DxpInv, DxpTypes, DxpDbTypes
<1> QED BY <1>1, <1>2 DEF DxpInv, DxpTypes, DxpDbTypes, DxpTruncating, DxpInserting, Restoring

\* What fails leaves what was committed.
LEMMA DxpFailStep == ASSUME DxpInv, DOMAIN dxpBefore = Present, RestoreFails PROVE DxpInv'
<1>1. dxpStep'.phase = "idle" /\ dxpWork' = dxpWork /\ dxpDb' = dxpBefore
  BY DEF RestoreFails, RolledBack, Idle, At
<1> QED BY <1>1 DEF DxpInv, DxpTypes, DxpDbTypes, DxpTruncating, DxpInserting, Restoring

DxpBeforeTypes == DOMAIN dxpBefore = Present

\* Every step preserves the invariant, and what a restore is compared with stays a
\* database.
LEMMA DxpStep == ASSUME DxpInv, DxpBeforeTypes, [DxpNext]_dxpVars PROVE DxpInv' /\ DxpBeforeTypes'
<1>1. DxpInv'
  <2>1. ASSUME UNCHANGED dxpVars PROVE DxpInv'
    BY <2>1 DEF dxpVars, dxpRequest, DxpInv, DxpTypes, DxpDbTypes, DxpTruncating, DxpInserting, Restoring, Emptied,
                Filled
  <2> QED BY <2>1, DxpTruncateStep, DxpInsertStep, DxpBeginSteps, DxpOtherSteps, DxpFailStep
          DEF DxpNext, DxpBeforeTypes
<1>2. dxpBefore' = dxpBefore \/ dxpBefore' = dxpDb
  BY DEF DxpNext, Edit, BeginDownload, ExportTable, AnswerDownload, BeginRestore, TruncateTable, BeginInsert,
         InsertTable, CommitRestore, RestoreFails, dxpVars
<1> QED BY <1>1, <1>2 DEF DxpInv, DxpDbTypes, DxpBeforeTypes

\* What a restore leaves.
LEMMA DxpRestored ==
  ASSUME DxpInv, [DxpNext]_dxpVars, dxpStep.phase \in {"truncate", "insert"}, dxpStep' = Idle
  PROVE  \/ dxpDb' = dxpBefore
         \/ \A t \in Present :
               IF t \in DOMAIN dxpBody THEN dxpDb'[t] = dxpBody[t]
               ELSE dxpDb'[t] = IF \E u \in DOMAIN dxpBody : t \in Cascade(u) THEN 0 ELSE dxpBefore[t]
<1>1. CommitRestore \/ RestoreFails
  BY DEF DxpNext, Edit, BeginDownload, ExportTable, AnswerDownload, BeginRestore, TruncateTable, BeginInsert,
         InsertTable, dxpVars, dxpRequest, Idle, At
<1>2. CASE RestoreFails
  BY <1>2 DEF RestoreFails, RolledBack
<1>3. CASE CommitRestore
  <2>1. dxpStep = At("insert", Len(DxpTables) + 1) /\ ~dxpAborted /\ dxpDb' = dxpWork
    BY <1>3 DEF CommitRestore
  <2>2. dxpStep.phase = "insert" /\ dxpStep.i = Len(DxpTables) + 1 /\ DOMAIN dxpBody \subseteq Exported
    BY <2>1 DEF At, DxpInv, DxpTypes, Restoring
  <2>3. \A t \in DOMAIN dxpBody : Filled(t, Len(DxpTables) + 1)
    BY <2>2, DxpIndices DEF Filled, Exported
  <2>4. \A t : Emptied(t, 0, dxpBody) <=> \E u \in DOMAIN dxpBody : t \in Cascade(u)
    BY <2>2, DxpIndices DEF Emptied, Exported
  <2> QED BY <2>1, <2>2, <2>3, <2>4 DEF DxpInv, DxpInserting
<1> QED BY <1>1, <1>2, <1>3

\* A restore is all or nothing, for any tables and whatever refers to them.
THEOREM RestoresAreAtomic == DxpSpec => RestoreIsAllOrNothing
<1>1. DxpInit => DxpInv /\ DxpBeforeTypes
  BY DxpInvInit DEF DxpInit, DxpBeforeTypes
<1> QED BY <1>1, DxpStep, DxpRestored, PTL DEF DxpSpec, RestoreIsAllOrNothing

-----------------------------------------------------------------------------
(***************************************************************************)
(* BackupMonitor: a healthy job is backed up. A snapshot with tasks has    *)
(* the newest run any row knows of, so that a task tells; without tasks    *)
(* the newest file rewrites the row. A sync whose row nobody changed       *)
(* meanwhile commits what it has computed.                                 *)
(***************************************************************************)
Good(last, status, newest) ==
    status = "ok" =>
        /\ last \in DOMAIN bkpRuns /\ bkpRuns[last] = "ok"
        /\ newest # 0 => last >= newest

\* A snapshot: good files, tasks of two days at most as they were, the newest of them
\* not older than any file.
Data(x) ==
    /\ x.files \subseteq {d \in DOMAIN bkpRuns : bkpRuns[d] = "ok"}
    /\ DOMAIN x.tasks \subseteq DOMAIN bkpRuns
    /\ \E n \in Nat : DOMAIN x.tasks \subseteq {n, n + 1}
    /\ \A d \in DOMAIN x.tasks : x.tasks[d] = "ok" => bkpRuns[d] = "ok"
    /\ \A f \in x.files : DOMAIN x.tasks # {} => \E d \in DOMAIN x.tasks : f <= d

IsJob(row) ==
    row = [last |-> row.last, status |-> row.status, newest |-> row.newest, torn |-> row.torn]

BkpDomains ==
    /\ bkpNow \in 1..BkpDays /\ DOMAIN bkpRuns \subseteq 1..bkpNow
    /\ bkpRuns = [d \in DOMAIN bkpRuns |-> bkpRuns[d]]
    /\ IsJob(bkpJob)
    /\ bkpSaved # Absent => Data(bkpSaved)
    /\ bkpSyncs = [s \in Syncs |-> bkpSyncs[s]]

\* What a row has as its last run, was a run, and not newer than the tasks saved.
Known(last) ==
    /\ last \in DOMAIN bkpRuns \cup {0}
    /\ bkpSaved # Absent /\ DOMAIN bkpSaved.tasks # {} => \E d \in DOMAIN bkpSaved.tasks : last <= d

BkpKnown ==
    /\ Known(bkpJob.last)
    /\ \A s \in Syncs : bkpSyncs[s] # Absent => Known(bkpSyncs[s].new.last)

BkpGood ==
    /\ ~bkpJob.torn => Good(bkpJob.last, bkpJob.status, bkpJob.newest)
    /\ \A s \in Syncs : bkpSyncs[s] # Absent =>
          Good(bkpSyncs[s].new.last, bkpSyncs[s].new.status, bkpSyncs[s].newest)

BkpInv == BkpDomains /\ BkpKnown /\ BkpGood

\* A set of naturals has a least element, from the well-foundedness of <.
LEMMA LeastNat ==
  ASSUME NEW T \in SUBSET Nat, T # {}
  PROVE  \E n \in T : \A m \in T : n <= m
<1>1. \E n \in T : \A m \in T : ~ (<<m, n>> \in OpToRel(<, Nat))
  BY NatLessThanWellFounded, WFMin
<1>2. PICK n \in T : \A m \in T : ~ (<<m, n>> \in OpToRel(<, Nat))
  BY <1>1
<1>3. \A m \in T : ~ (m < n)
  BY <1>2 DEF OpToRel
<1> QED BY <1>3

\* Some file of a set of files was stored last: by a least counterexample.
LEMMA LastStore ==
  ASSUME NEW fs \in SUBSET (1..BkpDays), fs # {}
  PROVE  \E x \in fs : \A y \in fs : BkpStore[y] <= BkpStore[x]
<1> DEFINE Upto(n) == fs \cap (1..n)
           Has(n) == Upto(n) = {} \/ \E x \in Upto(n) : \A y \in Upto(n) : BkpStore[y] <= BkpStore[x]
           T == {n \in Nat : ~Has(n)}
<1>1. T = {}
  <2> SUFFICES ASSUME T # {} PROVE FALSE
    OBVIOUS
  <2>1. PICK n \in T : \A m \in T : n <= m
    <3>1. T \in SUBSET Nat
      OBVIOUS
    <3> HIDE DEF T
    <3> QED BY <3>1, LeastNat
  <2>2. n \in Nat /\ n # 0
    BY <2>1
  <2>3. n - 1 \in Nat /\ n - 1 \notin T
    <3> HIDE DEF T
    <3> QED BY <2>1, <2>2
  <2>4. Has(n - 1)
    BY <2>3
  <2>5. Upto(n) = IF n \in fs THEN Upto(n - 1) \cup {n} ELSE Upto(n - 1)
    <3>1. 1..n = (1..n - 1) \cup {n}
      BY <2>2
    <3> QED BY <3>1
  <2>6. \A x \in fs : BkpStore[x] \in Nat
    BY BkpAssumption
  <2>7. n \in fs
    BY <2>1, <2>4, <2>5
  <2>8. CASE Upto(n - 1) = {}
    BY <2>1, <2>5, <2>6, <2>7, <2>8
  <2>9. ASSUME NEW x \in Upto(n - 1), \A y \in Upto(n - 1) : BkpStore[y] <= BkpStore[x] PROVE FALSE
    <3>1. CASE BkpStore[n] <= BkpStore[x]
      <4>1. x \in Upto(n) /\ \A y \in Upto(n) : BkpStore[y] <= BkpStore[x]
        BY <2>5, <2>6, <2>7, <2>9, <3>1
      <4> QED BY <2>1, <4>1
    <3>2. CASE ~(BkpStore[n] <= BkpStore[x])
      <4>1. n \in Upto(n) /\ \A y \in Upto(n) : BkpStore[y] <= BkpStore[n]
        BY <2>5, <2>6, <2>7, <2>9, <3>2
      <4> QED BY <2>1, <4>1
    <3> QED BY <3>1, <3>2
  <2> QED BY <2>4, <2>8, <2>9
<1>2. BkpDays \in Nat /\ Upto(BkpDays) = fs
  BY BkpAssumption
<1>3. Has(BkpDays)
  BY <1>1, <1>2
<1> QED BY <1>2, <1>3

\* The greatest of the tasks of two days.
LEMMA NewestIsMax ==
  ASSUME NEW S, NEW n \in Nat, S \subseteq {n, n + 1}, S # {}
  PROVE  Max(S) \in S /\ \A d \in S : d \in Nat /\ d <= Max(S)
<1>1. \E x \in S : \A y \in S : x >= y
  <2>1. CASE n + 1 \in S
    BY <2>1
  <2>2. CASE n + 1 \notin S
    <3>1. S = {n}
      BY <2>2
    <3> QED BY <3>1
  <2> QED BY <2>1, <2>2
<1>2. Max(S) \in S /\ \A y \in S : Max(S) >= y
  BY <1>1 DEF Max
<1> QED BY <1>2

\* What sync_pbs_backups makes of a row and a snapshot: the newest task tells, or the
\* newest file where no task is left.
LEMMA SyncedIsGood ==
  ASSUME BkpDomains, NEW x, Data(x), x.files # {} \/ DOMAIN x.tasks # {},
         NEW row, IsJob(row), row.last \in DOMAIN bkpRuns \cup {0},
         DOMAIN x.tasks # {} => \E d \in DOMAIN x.tasks : row.last <= d
  PROVE  /\ Good(Synced(row, x).last, Synced(row, x).status, NewestTask(x))
         /\ Synced(row, x).last \in DOMAIN bkpRuns
         /\ DOMAIN x.tasks # {} => \E d \in DOMAIN x.tasks : Synced(row, x).last <= d
<1> DEFINE after == AfterFiles(row, x)
           days == DOMAIN x.tasks
<1>0. DOMAIN bkpRuns \subseteq Nat \ {0} /\ DOMAIN bkpRuns \subseteq 1..BkpDays
  BY BkpAssumption DEF BkpDomains
<1>1. /\ IsJob(after)
      /\ x.files # {} => after.last \in x.files /\ after.status = "ok"
      /\ x.files = {} => after = row
  <2>1. CASE x.files = {}
    BY <2>1 DEF AfterFiles
  <2>2. CASE x.files # {}
    <3> DEFINE d == CHOOSE f \in x.files : \A y \in x.files : BkpStore[y] <= BkpStore[f]
    <3>1. x.files \in SUBSET (1..BkpDays)
      BY <1>0 DEF Data
    <3>2. d \in x.files
      BY <2>2, <3>1, LastStore
    <3>3. after = [row EXCEPT !.last = d, !.status = "ok"]
      BY <2>2 DEF AfterFiles
    <3> HIDE DEF d
    <3> QED BY <2>2, <3>2, <3>3 DEF IsJob
  <2> QED BY <2>1, <2>2
<1> HIDE DEF after
<1>2. CASE days = {}
  <2>1. Synced(row, x) = after /\ NewestTask(x) = 0
    BY <1>2 DEF Synced, AfterTasks, NewestTask, after
  <2> QED BY <1>1, <1>2, <2>1 DEF Good, Data
<1>3. CASE days # {}
  <2> DEFINE m == Max(days)
  <2>1. m \in days /\ \A d \in days : d <= m
    BY <1>3, NewestIsMax DEF Data
  <2>2. m \in DOMAIN bkpRuns /\ m \in Nat \ {0} /\ NewestTask(x) = m
    BY <1>0, <1>3, <2>1 DEF Data, NewestTask
  <2>3. after.last \in Nat /\ after.last <= m
    <3>1. CASE x.files = {}
      <4>1. PICK d \in days : row.last <= d
        BY <1>3
      <4>2. row.last \in Nat /\ d \in Nat /\ d <= m
        BY <1>0, <2>1, <4>1 DEF Data
      <4> QED BY <1>1, <2>2, <3>1, <4>1, <4>2
    <3>2. CASE x.files # {}
      <4>1. after.last \in x.files
        BY <1>1, <3>2
      <4>2. PICK d \in days : after.last <= d
        BY <1>3, <4>1 DEF Data
      <4>3. after.last \in Nat /\ d \in Nat /\ d <= m
        BY <1>0, <2>1, <4>1, <4>2 DEF Data
      <4> QED BY <2>2, <4>2, <4>3
    <3> QED BY <3>1, <3>2
  <2> DEFINE first == [after EXCEPT !.last = m, !.status = x.tasks[m]]
  <2>4. AfterTask(after, m, x.tasks[m]) = first
    BY <2>2, <2>3 DEF AfterTask, TaskTells
  <2>5. first.last = m /\ first.status = x.tasks[m]
    BY <1>1 DEF IsJob
  <2>6. Synced(row, x) = first
    <3>1. CASE days \ {m} = {}
      BY <1>3, <2>4, <3>1 DEF Synced, AfterTasks, after
    <3>2. CASE days \ {m} # {}
      <4>1. PICK n \in Nat : days \subseteq {n, n + 1}
        BY DEF Data
      <4>2. Max(days \ {m}) \in days \ {m}
        BY <3>2, <4>1, NewestIsMax
      <4>3. Max(days \ {m}) \in Nat /\ Max(days \ {m}) < m
        BY <1>0, <2>1, <2>2, <4>1, <4>2
      <4> HIDE DEF first
      <4>4. AfterTask(first, Max(days \ {m}), x.tasks[Max(days \ {m})]) = first
        BY <2>2, <2>5, <4>3 DEF AfterTask, TaskTells
      <4>5. Synced(row, x) = AfterTask(first, Max(days \ {m}), x.tasks[Max(days \ {m})])
        BY <1>3, <2>4, <3>2 DEF Synced, AfterTasks, after
      <4> QED BY <4>4, <4>5
    <3> QED BY <3>1, <3>2
  <2> HIDE DEF first, m
  <2>7. x.tasks[m] = "ok" => bkpRuns[m] = "ok"
    BY <2>1 DEF Data
  <2> QED BY <2>1, <2>2, <2>5, <2>6, <2>7 DEF Good
<1> QED BY <1>2, <1>3

\* At first nothing ran, nothing is known and the job says nothing.
LEMMA BkpInvInit == BkpInit => BkpInv
  BY BkpAssumption DEF BkpInit, BkpInv, BkpDomains, BkpKnown, BkpGood, Known, Good, IsJob, NewJob,
     Absent, Syncs

\* What a step may do to the runs.
RunsGo ==
    /\ DOMAIN bkpRuns \subseteq DOMAIN bkpRuns'
    /\ \A d \in DOMAIN bkpRuns : bkpRuns[d] = "ok" => bkpRuns'[d] = "ok"

\* Runs start and end, and what is known of good ones stays true.
LEMMA RunsStep ==
  ASSUME BkpInv, RunsGo, bkpNow' \in 1..BkpDays, DOMAIN bkpRuns' \subseteq 1..bkpNow',
         bkpRuns' = [d \in DOMAIN bkpRuns' |-> bkpRuns'[d]],
         UNCHANGED <<bkpJob, bkpSaved, bkpSyncs>>
  PROVE  BkpInv'
<1>1. \A x : Data(x) => Data(x)'
  BY DEF Data, RunsGo
<1>2. \A last, status, newest : Good(last, status, newest) => Good(last, status, newest)'
  BY DEF Good, RunsGo
<1>3. \A last : Known(last) => Known(last)'
  BY DEF Known, RunsGo
<1>4. BkpDomains'
  BY <1>1 DEF BkpInv, BkpDomains, IsJob
<1>5. BkpKnown'
  BY <1>3 DEF BkpInv, BkpKnown
<1>6. BkpGood'
  BY <1>2 DEF BkpInv, BkpGood
<1> QED BY <1>4, <1>5, <1>6 DEF BkpInv

\* A sync begins on a snapshot whose newest task no row is beyond, and what it makes of
\* the row is good.
LEMMA BeginIsGood ==
  ASSUME BkpInv, NEW s \in Syncs, NEW x, Data(x), x # Absent, BeginSync(s, x), bkpSaved' = x,
         \A last \in DOMAIN bkpRuns \cup {0} :
            Known(last) => (DOMAIN x.tasks # {} => \E d \in DOMAIN x.tasks : last <= d)
  PROVE  BkpInv'
<1>0. PICK new : new = Synced(bkpJob, x)
  OBVIOUS
<1>1. bkpSyncs' = [t \in Syncs |-> IF t = s THEN [kind |-> "sync", row |-> bkpJob, new |-> new,
                                                 newest |-> NewestTask(x)] ELSE bkpSyncs[t]]
  BY <1>0 DEF BeginSync, BkpInv, BkpDomains
<1>2. UNCHANGED <<bkpNow, bkpRuns, bkpJob>>
  BY DEF BeginSync
<1>3. /\ Good(new.last, new.status, NewestTask(x)) /\ new.last \in DOMAIN bkpRuns
      /\ DOMAIN x.tasks # {} => \E d \in DOMAIN x.tasks : new.last <= d
  <2>1. bkpJob.last \in DOMAIN bkpRuns \cup {0} /\ Known(bkpJob.last)
    BY DEF BkpInv, BkpKnown, Known
  <2> QED BY <1>0, <2>1, SyncedIsGood DEF BkpInv, BkpDomains, BeginSync
<1>4. \A last : (last \in DOMAIN bkpRuns \cup {0}
                 /\ (DOMAIN x.tasks # {} => \E d \in DOMAIN x.tasks : last <= d)) => Known(last)'
  BY <1>2 DEF Known
<1>5. \A last : Known(last) => last \in DOMAIN bkpRuns \cup {0}
  BY DEF Known
<1>6. \A last : Known(last) => Known(last)'
  BY <1>4, <1>5
<1>7. Known(new.last)'
  BY <1>3, <1>4
<1>8. BkpDomains'
  BY <1>1, <1>2 DEF BkpInv, BkpDomains, Data, IsJob
<1>9. BkpKnown'
  <2>1. Known(bkpJob.last)'
    BY <1>2, <1>6 DEF BkpInv, BkpKnown
  <2>2. ASSUME NEW t \in Syncs, bkpSyncs'[t] # Absent PROVE Known(bkpSyncs[t].new.last)'
    <3>1. CASE t = s
      BY <1>1, <1>7, <3>1
    <3>2. CASE t # s
      BY <1>1, <1>6, <2>2, <3>2 DEF BkpInv, BkpKnown
    <3> QED BY <3>1, <3>2
  <2> QED BY <2>1, <2>2 DEF BkpKnown
<1>10. BkpGood'
  <2>1. \A last, status, newest : Good(last, status, newest) => Good(last, status, newest)'
    BY <1>2 DEF Good
  <2>2. ASSUME NEW t \in Syncs, bkpSyncs'[t] # Absent
        PROVE  Good(bkpSyncs[t].new.last, bkpSyncs[t].new.status, bkpSyncs[t].newest)'
    <3>1. CASE t = s
      BY <1>1, <1>3, <2>1, <3>1
    <3>2. CASE t # s
      BY <1>1, <2>1, <2>2, <3>2 DEF BkpInv, BkpGood
    <3> QED BY <3>1, <3>2
  <2> QED BY <1>2, <2>1, <2>2 DEF BkpInv, BkpGood
<1> QED BY <1>8, <1>9, <1>10 DEF BkpInv

\* What the cluster tells at any moment.
LEMMA SnapshotIsData ==
  ASSUME BkpInv, NEW x \in Snapshots
  PROVE  /\ Data(x) /\ x # Absent
         /\ DOMAIN x.tasks # {} => \A last \in DOMAIN bkpRuns \cup {0} : \E d \in DOMAIN x.tasks : last <= d
<1> DEFINE good == {d \in DOMAIN bkpRuns : bkpRuns[d] = "ok"}
<1>0. bkpNow \in Nat \ {0} /\ DOMAIN bkpRuns \subseteq 1..bkpNow
  BY BkpAssumption DEF BkpInv, BkpDomains
<1>1. LatestFiles \subseteq good
  BY DEF LatestFiles
<1>2. PICK fs \in {{}, LatestFiles}, since \in {Max({1, bkpNow - 1}), bkpNow + 1} :
        x = [kind |-> "data", files |-> fs, tasks |-> TasksSince(since)]
  BY DEF Snapshots
<1>3. Max({1, bkpNow - 1}) \in Nat /\ Max({1, bkpNow - 1}) >= bkpNow - 1
  <2>1. \E m \in {1, bkpNow - 1} : \A y \in {1, bkpNow - 1} : m >= y
    BY <1>0
  <2> QED BY <1>0, <2>1 DEF Max
<1>4. since \in Nat /\ since >= bkpNow - 1
  BY <1>0, <1>2, <1>3
<1>5. /\ DOMAIN x.tasks = {d \in DOMAIN bkpRuns : d >= since}
      /\ \A d \in DOMAIN x.tasks : x.tasks[d] = bkpRuns[d]
  BY <1>2 DEF TasksSince
<1>6. DOMAIN x.tasks \subseteq {bkpNow - 1, (bkpNow - 1) + 1}
  BY <1>0, <1>4, <1>5
<1>7. ASSUME NEW e \in DOMAIN x.tasks, NEW last \in DOMAIN bkpRuns \cup {0}
      PROVE  \E d \in DOMAIN x.tasks : last <= d
  <2>1. CASE last <= e
    BY <1>7, <2>1
  <2>2. CASE ~(last <= e)
    <3>1. last \in Nat /\ e \in Nat /\ last >= since
      BY <1>0, <1>4, <1>5, <1>7, <2>2
    <3>2. last \in DOMAIN x.tasks
      BY <1>0, <1>5, <1>7, <2>2, <3>1
    <3> QED BY <3>1, <3>2
  <2> QED BY <2>1, <2>2
<1>8. x # Absent /\ x.files \subseteq good
  BY <1>1, <1>2 DEF Absent
<1>9. Data(x)
  BY <1>0, <1>5, <1>6, <1>7, <1>8 DEF Data
<1> QED BY <1>7, <1>8, <1>9

\* A sync that ends, well or not.
LEMMA EndOfSync ==
  ASSUME BkpInv, NEW s \in Syncs, CommitSync(s) \/ SyncFails(s)
  PROVE  BkpInv'
<1>1. bkpSyncs[s] # Absent /\ bkpSyncs' = [bkpSyncs EXCEPT ![s] = Absent] /\ UNCHANGED <<bkpNow, bkpRuns, bkpSaved>>
  BY DEF CommitSync, SyncFails
<1>2. /\ \A last, status, newest : Good(last, status, newest)' <=> Good(last, status, newest)
      /\ \A last : Known(last)' <=> Known(last)
      /\ \A x : Data(x)' <=> Data(x)
  BY <1>1 DEF Good, Known, Data
<1>3. \A t \in Syncs : bkpSyncs'[t] # Absent => bkpSyncs[t] # Absent /\ bkpSyncs'[t] = bkpSyncs[t]
  BY <1>1 DEF BkpInv, BkpDomains
<1>4. bkpSyncs' = [t \in Syncs |-> bkpSyncs'[t]]
  BY <1>1 DEF BkpInv, BkpDomains
<1>5. CASE SyncFails(s)
  <2>1. bkpJob' = bkpJob
    BY <1>5 DEF SyncFails
  <2> QED BY <1>1, <1>2, <1>3, <1>4, <2>1 DEF BkpInv, BkpDomains, BkpKnown, BkpGood, IsJob
<1>6. CASE CommitSync(s)
  <2> DEFINE q == bkpSyncs[s]
             cols == Columns(bkpJob, q.row, q.new)
  <2>1. bkpJob' = [last |-> cols.last, status |-> cols.status, newest |-> q.newest,
                   torn |-> bkpJob.last # q.row.last \/ bkpJob.status # q.row.status]
    BY <1>6 DEF CommitSync
  <2>2. cols.last \in {q.new.last, bkpJob.last}
        /\ (~bkpJob'.torn => cols.last = q.new.last /\ cols.status = q.new.status)
    BY <2>1 DEF Columns
  <2>3. Known(cols.last) /\ (~bkpJob'.torn => Good(cols.last, cols.status, q.newest))
    BY <1>1, <2>2 DEF BkpInv, BkpKnown, BkpGood
  <2> HIDE DEF cols, q
  <2> QED BY <1>1, <1>2, <1>3, <1>4, <2>1, <2>3 DEF BkpInv, BkpDomains, BkpKnown, BkpGood, IsJob
<1> QED BY <1>5, <1>6

\* Every step preserves the invariant.
LEMMA BkpInvStep == BkpInv /\ [BkpNext]_bkpVars => BkpInv'
<1> SUFFICES ASSUME BkpInv, [BkpNext]_bkpVars PROVE BkpInv'
  OBVIOUS
<1>0. bkpNow \in Nat \ {0} /\ bkpNow <= BkpDays /\ BkpDays \in Nat /\ DOMAIN bkpRuns \subseteq 1..bkpNow
  BY BkpAssumption DEF BkpInv, BkpDomains
<1>1. CASE NextDay
  BY <1>0, <1>1, RunsStep DEF NextDay, RunsGo, BkpInv, BkpDomains
<1>2. CASE StartRun
  BY <1>0, <1>2, RunsStep DEF StartRun, RunsGo, BkpInv, BkpDomains
<1>3. ASSUME NEW d \in DOMAIN bkpRuns, NEW result \in {"ok", "failed"}, EndRun(d, result) PROVE BkpInv'
  <2>1. bkpRuns' = [e \in DOMAIN bkpRuns |-> IF e = d THEN result ELSE bkpRuns[e]] /\ bkpRuns[d] = "running"
    BY <1>3 DEF EndRun, BkpInv, BkpDomains
  <2> QED BY <1>0, <1>3, <2>1, RunsStep DEF EndRun, RunsGo, BkpInv, BkpDomains
<1>4. CASE BeginPoll
  <2>1. PICK x \in Snapshots : BeginSync("poll", x) /\ bkpSaved' = x
    BY <1>4 DEF BeginPoll
  <2> QED BY <2>1, SnapshotIsData, BeginIsGood DEF Syncs
<1>5. CASE BeginManual
  <2>1. bkpSaved # Absent /\ BeginSync("manual", bkpSaved) /\ bkpSaved' = bkpSaved /\ Data(bkpSaved)
    BY <1>5 DEF BeginManual, BkpInv, BkpDomains
  <2>2. \A last : Known(last) => (DOMAIN bkpSaved.tasks # {} => \E d \in DOMAIN bkpSaved.tasks : last <= d)
    BY <2>1 DEF Known
  <2> QED BY <2>1, <2>2, BeginIsGood DEF Syncs
<1>6. ASSUME NEW s \in Syncs, CommitSync(s) \/ SyncFails(s) PROVE BkpInv'
  BY <1>6, EndOfSync
<1>7. CASE UNCHANGED bkpVars
  BY <1>0, <1>7, RunsStep DEF bkpVars, RunsGo, BkpInv, BkpDomains
<1> QED BY <1>1, <1>2, <1>3, <1>4, <1>5, <1>6, <1>7 DEF BkpNext

\* For any number of days, frequency and order of storing: a job shown healthy, whose
\* row no two syncs have mixed, had its last run end well, recently enough, and no
\* newer run was in the answer it was judged by (backup_monitor.py).
THEOREM HealthyIsBackedUp == BkpSpec => []HealthyMeansBackedUp
<1>1. BkpInv => HealthyMeansBackedUp
  <2> SUFFICES ASSUME BkpInv, Class(bkpJob) = "healthy", ~bkpJob.torn
               PROVE  /\ ComplianceIssues(bkpJob) = {}
                      /\ bkpNow - bkpJob.last <= BkpFrequency /\ bkpRuns[bkpJob.last] = "ok"
                      /\ bkpJob.newest # 0 => bkpJob.last >= bkpJob.newest
    BY DEF HealthyMeansBackedUp
  <2>1. bkpJob.status = "ok" /\ ~Overdue(bkpJob)
    BY DEF Class
  <2>2. /\ bkpJob.last \in DOMAIN bkpRuns /\ bkpRuns[bkpJob.last] = "ok"
        /\ bkpJob.newest # 0 => bkpJob.last >= bkpJob.newest
    BY <2>1 DEF BkpInv, BkpGood, Good
  <2>3. bkpJob.last \in Nat \ {0} /\ bkpNow \in Nat
    BY <2>2, BkpAssumption DEF BkpInv, BkpDomains
  <2>4. bkpNow - bkpJob.last <= BkpFrequency
    BY <2>1, <2>3, BkpAssumption DEF Overdue
  <2>5. ComplianceIssues(bkpJob) = {}
    BY <2>1 DEF ComplianceIssues
  <2> QED BY <2>2, <2>4, <2>5
<1> QED BY <1>1, BkpInvInit, BkpInvStep, PTL DEF BkpSpec

-----------------------------------------------------------------------------
(***************************************************************************)
(* SharedCounters: admissions of a window. In memory the hits are the      *)
(* admissions, within the windows no cleanup shortens; with Redis the      *)
(* admissions of a bucket are counted or among the requests that wait      *)
(* between check and record, and a window reaches over two buckets.        *)
(***************************************************************************)
Hits == Nat \X Nat
NewOnes(hits) == {h \in hits : h[1] = 0}

\* Hits of one age are numbered, the newest at most up to their number.
Numbered(hits) ==
    /\ hits \subseteq Hits /\ IsFiniteSet(hits)
    /\ \A h \in NewOnes(hits) : h[2] <= Cardinality(NewOnes(hits))

Waiters(k) == {s \in ShrSlots : shrWaiting[s] = k}

\* What was let through in the present bucket and in the one before, since Redis is steady.
InBucket(k) == {h \in shrAdmitted[k] : h[1] <= shrPhase[k] /\ h[1] < shrSteady}
InLastBucket(k) == {h \in shrAdmitted[k] : shrPhase[k] < h[1] /\ h[1] <= shrPhase[k] + ShrWindow[k] /\ h[1] < shrSteady}

ShrTypes ==
    /\ shrRedis \in BOOLEAN /\ shrUp \in BOOLEAN /\ (shrUp => shrRedis)
    /\ shrSteady \in 0..ShrLongest
    /\ shrPhase \in [ShrKeys -> Nat] /\ \A k \in ShrKeys : shrPhase[k] < ShrWindow[k]
    /\ shrBucket \in [ShrKeys -> Nat]
    /\ shrWaiting \in [ShrSlots -> ShrKeys \cup {NoKey}]
    /\ DOMAIN shrHits = ShrKeys /\ shrHits = [k \in ShrKeys |-> shrHits[k]]
    /\ shrAdmitted = [k \in ShrKeys |-> shrAdmitted[k]]
    /\ \A k \in ShrKeys : Numbered(shrAdmitted[k]) /\ Numbered(shrHits[k])

\* Nobody forgets the hits of this window.
Spared(k) == \A j \in ShrKeys : ShrWindow[k] <= 2 * ShrWindow[j]

InMemory ==
    ~shrRedis =>
        /\ \A s \in ShrSlots : shrWaiting[s] = NoKey
        /\ \A k \in ShrKeys : Spared(k) =>
              /\ InWindow(shrHits, k) = InWindow(shrAdmitted, k)
              /\ Cardinality(InWindow(shrAdmitted, k)) <= ShrMax[k]

InRedis ==
    shrUp => \A k \in ShrKeys :
        /\ Cardinality(InBucket(k)) <= shrBucket[k]
        /\ Cardinality(InBucket(k)) + Cardinality(Waiters(k)) <= ShrMax[k] + Cardinality(ShrSlots) - 1
        /\ Cardinality(InLastBucket(k)) <= ShrMax[k] + Cardinality(ShrSlots) - 1

ShrInv == ShrTypes /\ InMemory /\ InRedis

\* What is assumed of the constants, as the steps use it.
LEMMA ShrConstants ==
  /\ \A k \in ShrKeys : ShrWindow[k] \in Nat \ {0} /\ ShrWindow[k] <= ShrLongest /\ ShrMax[k] \in Nat \ {0} /\ k # NoKey
  /\ ShrLongest \in Nat /\ IsFiniteSet(ShrSlots) /\ Cardinality(ShrSlots) \in Nat
  BY ShrAssumption, FS_CardinalityType

\* Parts of a finite set.
LEMMA Parts ==
  ASSUME NEW S, IsFiniteSet(S), NEW T, T \subseteq S
  PROVE  IsFiniteSet(T) /\ Cardinality(T) \in Nat /\ Cardinality(S) \in Nat /\ Cardinality(T) <= Cardinality(S)
  BY FS_Subset, FS_CardinalityType

\* One hit more is one more in every part it belongs to.
LEMMA OneHit ==
  ASSUME NEW hits, Numbered(hits)
  PROVE  \E x \in Hits : /\ Hit(hits) = hits \cup {x} /\ x \notin hits /\ x[1] = 0
                         /\ x = <<0, Cardinality(NewOnes(hits)) + 1>>
                         /\ Numbered(Hit(hits))
<1> DEFINE c == Cardinality(NewOnes(hits))
           x == <<0, c + 1>>
<1>1. IsFiniteSet(NewOnes(hits)) /\ c \in Nat
  BY Parts DEF Numbered, NewOnes
<1>2. x \in Hits /\ x[1] = 0 /\ x[2] = c + 1
  BY <1>1 DEF Hits
<1>3. Hit(hits) = hits \cup {x}
  BY DEF Hit, NewOnes
<1> HIDE DEF c
<1>4. x \notin hits
  BY <1>1, <1>2 DEF Numbered, NewOnes, c
<1> HIDE DEF x
<1>5. NewOnes(hits \cup {x}) = NewOnes(hits) \cup {x} /\ x \notin NewOnes(hits)
  BY <1>2, <1>4 DEF NewOnes
<1>6. Cardinality(NewOnes(hits \cup {x})) = c + 1
  BY <1>1, <1>5, FS_AddElement DEF c
<1>7. IsFiniteSet(hits \cup {x})
  BY FS_AddElement DEF Numbered
<1>8. \A h \in NewOnes(hits) : h[2] \in Nat /\ h[2] <= c
  BY DEF Numbered, NewOnes, Hits, c
<1>9. \A h \in NewOnes(hits \cup {x}) : h[2] <= c + 1
  BY <1>1, <1>2, <1>5, <1>8
<1>10. Numbered(hits \cup {x})
  BY <1>2, <1>6, <1>7, <1>9 DEF Numbered
<1> QED BY <1>2, <1>3, <1>4, <1>10 DEF x, c

\* Aging keeps the hits apart: a part of the older ones is not larger than the part of
\* the hits they come from.
LEMMA Older ==
  ASSUME NEW S, IsFiniteSet(S), S \subseteq Hits, NEW T,
         \A h \in T : \E g \in S : h = <<g[1] + 1, g[2]>>
  PROVE  IsFiniteSet(T) /\ T \subseteq Hits /\ Cardinality(T) \in Nat /\ Cardinality(S) \in Nat
         /\ Cardinality(T) <= Cardinality(S)
<1> DEFINE f == [h \in T |-> <<h[1] - 1, h[2]>>]
<1>1. ASSUME NEW h \in T PROVE h \in Hits /\ f[h] \in S /\ h = <<f[h][1] + 1, f[h][2]>>
  <2>1. PICK g \in S : h = <<g[1] + 1, g[2]>>
    OBVIOUS
  <2>2. g \in Nat \X Nat
    BY DEF Hits
  <2>3. h[1] - 1 = g[1] /\ h[2] = g[2] /\ g = <<g[1], g[2]>>
    BY <2>1, <2>2
  <2>4. f[h] = g
    BY <2>3
  <2> QED BY <2>1, <2>2, <2>4 DEF Hits
<1>2. f \in Injection(T, S)
  <2>1. f \in [T -> S]
    BY <1>1
  <2> HIDE DEF f
  <2>2. \A a, b \in T : f[a] = f[b] => a = b
    BY <1>1
  <2> QED BY <2>1, <2>2 DEF Injection, IsInjective
<1>3. IsFiniteSet(T) /\ Cardinality(T) <= Cardinality(S)
  BY <1>2, FS_Injection
<1> QED BY <1>1, <1>3, FS_CardinalityType

\* At first nothing is counted and nobody waits.
LEMMA ShrInvInit == ShrInit => ShrInv
<1> SUFFICES ASSUME ShrInit PROVE ShrInv
  OBVIOUS
<1> USE DEF ShrInit, Nothing
<1>1. IsFiniteSet({}) /\ Cardinality({}) = 0
  BY FS_EmptySet
<1>2. \A k \in ShrKeys : Waiters(k) = {} /\ InBucket(k) = {} /\ InLastBucket(k) = {}
                         /\ InWindow(shrAdmitted, k) = {} /\ InWindow(shrHits, k) = {}
  BY ShrConstants DEF Waiters, InBucket, InLastBucket, InWindow
<1>3. Numbered({})
  BY <1>1 DEF Numbered, NewOnes
<1>4. ShrTypes
  BY <1>3, ShrConstants DEF ShrTypes
<1>5. \A s \in ShrSlots : shrWaiting[s] = NoKey
  BY DEF ShrInit
<1>6. \A k \in ShrKeys : /\ Cardinality(InWindow(shrAdmitted, k)) = 0 /\ Cardinality(InBucket(k)) = 0
                         /\ Cardinality(InLastBucket(k)) = 0 /\ shrBucket[k] = 0
                         /\ InWindow(shrHits, k) = InWindow(shrAdmitted, k)
  BY <1>1, <1>2
<1>7. InMemory
  <2>1. \A k \in ShrKeys : Cardinality(InWindow(shrAdmitted, k)) <= ShrMax[k]
    <3> SUFFICES ASSUME NEW k \in ShrKeys PROVE Cardinality(InWindow(shrAdmitted, k)) <= ShrMax[k]
      OBVIOUS
    <3>1. Cardinality(InWindow(shrAdmitted, k)) = 0 /\ ShrMax[k] \in Nat
      BY <1>6, ShrConstants
    <3> HIDE DEF ShrInit, Nothing
    <3> QED BY <3>1
  <2> QED BY <1>5, <1>6, <2>1, Zenon DEF InMemory
<1>8. InRedis
  <2> SUFFICES ASSUME shrUp, NEW k \in ShrKeys
               PROVE  /\ Cardinality(InBucket(k)) <= shrBucket[k]
                      /\ Cardinality(InBucket(k)) + Cardinality(Waiters(k)) <= ShrMax[k] + Cardinality(ShrSlots) - 1
                      /\ Cardinality(InLastBucket(k)) <= ShrMax[k] + Cardinality(ShrSlots) - 1
    BY DEF InRedis
  <2>1. Cardinality(Waiters(k)) = 0
    BY <1>1, <1>2
  <2>2. ShrMax[k] \in Nat \ {0} /\ Cardinality(ShrSlots) \in Nat
    BY ShrConstants
  <2> QED BY <1>6, <2>1, <2>2
<1> QED BY <1>4, <1>7, <1>8 DEF ShrInv

\* The parts are finite.
LEMMA PartsFinite ==
  ASSUME ShrTypes, NEW k \in ShrKeys
  PROVE  /\ IsFiniteSet(InBucket(k)) /\ Cardinality(InBucket(k)) \in Nat
         /\ IsFiniteSet(InLastBucket(k)) /\ Cardinality(InLastBucket(k)) \in Nat
         /\ IsFiniteSet(InWindow(shrAdmitted, k)) /\ Cardinality(InWindow(shrAdmitted, k)) \in Nat
         /\ IsFiniteSet(Waiters(k)) /\ Cardinality(Waiters(k)) \in Nat
         /\ Cardinality(Waiters(k)) <= Cardinality(ShrSlots)
<1>1. IsFiniteSet(shrAdmitted[k])
  BY DEF ShrTypes, Numbered
<1>2. /\ InBucket(k) \subseteq shrAdmitted[k] /\ InLastBucket(k) \subseteq shrAdmitted[k]
      /\ InWindow(shrAdmitted, k) \subseteq shrAdmitted[k] /\ Waiters(k) \subseteq ShrSlots
  BY DEF InBucket, InLastBucket, InWindow, Waiters
<1> QED BY <1>1, <1>2, Parts, ShrConstants

\* A request let through counts in its window and its bucket, and in no other.
LEMMA LetThroughCounts ==
  ASSUME ShrTypes, NEW k \in ShrKeys, LetThrough(k), UNCHANGED <<shrPhase, shrSteady>>
  PROVE  /\ shrAdmitted' = [j \in ShrKeys |-> shrAdmitted'[j]]
         /\ \A j \in ShrKeys : Numbered(shrAdmitted'[j])
         /\ \A j \in ShrKeys : /\ InLastBucket(j)' = InLastBucket(j)
                               /\ j # k => /\ InBucket(j)' = InBucket(j)
                                           /\ InWindow(shrAdmitted, j)' = InWindow(shrAdmitted, j)
         /\ Cardinality(InBucket(k)') =
               IF shrSteady = 0 THEN Cardinality(InBucket(k)) ELSE Cardinality(InBucket(k)) + 1
         /\ Cardinality(InWindow(shrAdmitted, k)') = Cardinality(InWindow(shrAdmitted, k)) + 1
<1> DEFINE hits == shrAdmitted[k]
<1>1. PICK x \in Hits : /\ Hit(hits) = hits \cup {x} /\ x \notin hits /\ x[1] = 0 /\ Numbered(Hit(hits))
  BY OneHit DEF ShrTypes
<1>2. \A j \in ShrKeys : shrAdmitted'[j] = IF j = k THEN hits \cup {x} ELSE shrAdmitted[j]
  BY <1>1 DEF LetThrough, ShrTypes
<1>3. shrAdmitted' = [j \in ShrKeys |-> shrAdmitted'[j]] /\ \A j \in ShrKeys : Numbered(shrAdmitted'[j])
  BY <1>1, <1>2 DEF LetThrough, ShrTypes
<1>4. \A j \in ShrKeys \ {k} : /\ InLastBucket(j)' = InLastBucket(j) /\ InBucket(j)' = InBucket(j)
                               /\ InWindow(shrAdmitted, j)' = InWindow(shrAdmitted, j)
  BY <1>2 DEF InLastBucket, InBucket, InWindow
<1>5. shrPhase[k] \in Nat /\ shrSteady \in Nat /\ ShrWindow[k] \in Nat \ {0}
  BY ShrConstants DEF ShrTypes
<1>6. InLastBucket(k)' = InLastBucket(k)
  BY <1>1, <1>2, <1>5 DEF InLastBucket
<1>7. InWindow(shrAdmitted, k)' = InWindow(shrAdmitted, k) \cup {x} /\ x \notin InWindow(shrAdmitted, k)
  BY <1>1, <1>2, <1>5 DEF InWindow
<1>8. InBucket(k)' = IF shrSteady = 0 THEN InBucket(k) ELSE InBucket(k) \cup {x}
  BY <1>1, <1>2, <1>5 DEF InBucket
<1>9. x \notin InBucket(k)
  BY <1>1 DEF InBucket
<1> QED BY <1>3, <1>4, <1>6, <1>7, <1>8, <1>9, PartsFinite, FS_AddElement

\* Counting leaves well-numbered hits.
LEMMA CountKeepsNumbers ==
  ASSUME ShrTypes, NEW k \in ShrKeys, CountHit(k)
  PROVE  /\ shrHits' = [j \in ShrKeys |-> shrHits'[j]] /\ \A j \in ShrKeys : Numbered(shrHits'[j])
         /\ shrBucket' \in [ShrKeys -> Nat]
<1>1. CASE shrUp
  <2>1. shrBucket' = [shrBucket EXCEPT ![k] = @ + 1] /\ UNCHANGED shrHits
    BY <1>1 DEF CountHit
  <2>2. shrBucket' \in [ShrKeys -> Nat]
    BY <2>1 DEF ShrTypes
  <2> QED BY <2>1, <2>2 DEF ShrTypes
<1>2. CASE ~shrUp
  <2> DEFINE kept == [j \in ShrKeys |-> IF shrCleaned > ShrCleanup /\ Forgotten(j, ShrWindow[k]) THEN {} ELSE shrHits[j]]
  <2>1. shrHits' = [kept EXCEPT ![k] = Hit(@)] /\ UNCHANGED shrBucket
    BY <1>2 DEF CountHit
  <2>2. Numbered({})
    BY FS_EmptySet DEF Numbered, NewOnes
  <2>3. \A j \in ShrKeys : Numbered(kept[j])
    BY <2>2 DEF ShrTypes
  <2>4. kept = [j \in ShrKeys |-> kept[j]]
    OBVIOUS
  <2> HIDE DEF kept
  <2>5. Numbered(Hit(kept[k]))
    BY <2>3, OneHit
  <2>6. \A j \in ShrKeys : shrHits'[j] = IF j = k THEN Hit(kept[k]) ELSE kept[j]
    BY <2>1, <2>4
  <2> QED BY <2>1, <2>3, <2>4, <2>5, <2>6 DEF ShrTypes
<1> QED BY <1>1, <1>2

\* In memory a request is counted as it is let through, and what a cleanup forgets is in
\* no window that nobody shortens.
LEMMA ServeStep == ASSUME ShrInv, NEW k \in ShrKeys, ServeRequest(k) PROVE ShrInv'
<1>1. /\ ~shrRedis /\ ~shrUp /\ CountHit(k) /\ LetThrough(k)
      /\ UNCHANGED <<shrRedis, shrUp, shrWaiting, shrSteady, shrPhase>>
      /\ Cardinality(InWindow(shrHits, k)) < ShrMax[k]
  BY DEF ServeRequest, WindowCount, ShrInv, ShrTypes
<1>2. /\ shrAdmitted' = [j \in ShrKeys |-> shrAdmitted'[j]]
      /\ \A j \in ShrKeys : Numbered(shrAdmitted'[j])
      /\ \A j \in ShrKeys : j # k => InWindow(shrAdmitted, j)' = InWindow(shrAdmitted, j)
      /\ Cardinality(InWindow(shrAdmitted, k)') = Cardinality(InWindow(shrAdmitted, k)) + 1
  BY <1>1, LetThroughCounts DEF ShrInv
<1> DEFINE kept == [j \in ShrKeys |-> IF shrCleaned > ShrCleanup /\ Forgotten(j, ShrWindow[k]) THEN {} ELSE shrHits[j]]
<1>3. shrHits' = [kept EXCEPT ![k] = Hit(@)] /\ UNCHANGED shrBucket
  BY <1>1 DEF CountHit
<1>4. \A j \in ShrKeys : shrHits'[j] = IF j = k THEN Hit(kept[k]) ELSE kept[j]
  BY <1>3
<1>5. shrHits' = [j \in ShrKeys |-> shrHits'[j]]
  BY <1>3
<1>6. ShrTypes'
  BY <1>1, <1>2, <1>3, <1>5, CountKeepsNumbers DEF ShrInv, ShrTypes
<1>7. ASSUME NEW j \in ShrKeys, Spared(j) PROVE {h \in kept[j] : h[1] < ShrWindow[j]} = InWindow(shrHits, j)
  <2>1. InWindow(shrHits, j) = InWindow(shrAdmitted, j) /\ InWindow(shrAdmitted, j) \subseteq Hits
    BY <1>1, <1>7 DEF ShrInv, InMemory, ShrTypes, Numbered, InWindow
  <2>2. CASE Forgotten(j, ShrWindow[k])
    <3>1. ShrWindow[j] <= 2 * ShrWindow[k] /\ ShrWindow[j] \in Nat /\ ShrWindow[k] \in Nat
      BY <1>7, ShrConstants DEF Spared
    <3>2. InWindow(shrHits, j) = {}
      <4> SUFFICES ASSUME NEW h \in InWindow(shrHits, j) PROVE FALSE
        OBVIOUS
      <4>1. h \in shrHits[j] /\ h[1] < ShrWindow[j] /\ h[1] \in Nat
        BY <2>1 DEF InWindow, Hits
      <4>2. h[1] >= 2 * ShrWindow[k]
        BY <2>2, <4>1 DEF Forgotten
      <4> QED BY <3>1, <4>1, <4>2
    <3> QED BY <3>2 DEF InWindow
  <2>3. CASE ~Forgotten(j, ShrWindow[k])
    BY <2>3 DEF InWindow
  <2> QED BY <2>2, <2>3
<1> HIDE DEF kept
<1>8. ASSUME NEW j \in ShrKeys, Spared(j)
      PROVE  /\ InWindow(shrHits, j)' = InWindow(shrAdmitted, j)'
             /\ Cardinality(InWindow(shrAdmitted, j)') <= ShrMax[j]
  <2>1. InWindow(shrHits, j) = InWindow(shrAdmitted, j) /\ Cardinality(InWindow(shrAdmitted, j)) <= ShrMax[j]
    BY <1>1, <1>8 DEF ShrInv, InMemory
  <2>2. CASE j # k
    BY <1>2, <1>4, <1>7, <1>8, <2>1, <2>2 DEF InWindow
  <2>3. CASE j = k
    <3>1. Cardinality(InWindow(shrAdmitted, k)) \in Nat /\ ShrMax[k] \in Nat /\ ShrWindow[k] \in Nat \ {0}
      BY PartsFinite, ShrConstants DEF ShrInv
    <3>2. Cardinality(InWindow(shrAdmitted, k)') <= ShrMax[k]
      BY <1>1, <1>2, <2>1, <2>3, <3>1
    <3>3. NewOnes(kept[k]) = NewOnes(shrAdmitted[k])
      <4>1. {h \in kept[k] : h[1] < ShrWindow[k]} = {h \in shrAdmitted[k] : h[1] < ShrWindow[k]}
        BY <1>7, <1>8, <2>1, <2>3 DEF InWindow
      <4>2. \A h : h[1] = 0 => h[1] < ShrWindow[k]
        BY <3>1
      <4> QED BY <4>1, <4>2 DEF NewOnes
    <3> DEFINE x == <<0, Cardinality(NewOnes(shrAdmitted[k])) + 1>>
    <3>4. shrHits'[k] = kept[k] \cup {x} /\ shrAdmitted'[k] = shrAdmitted[k] \cup {x}
      BY <1>1, <1>4, <3>3 DEF Hit, NewOnes, LetThrough, ShrInv, ShrTypes
    <3> HIDE DEF x
    <3>5. InWindow(shrHits, k)' = InWindow(shrAdmitted, k)'
      BY <1>7, <1>8, <2>1, <2>3, <3>4 DEF InWindow
    <3> QED BY <2>3, <3>2, <3>5
  <2> QED BY <2>2, <2>3
<1>9. InMemory'
  BY <1>1, <1>8 DEF ShrInv, InMemory, Spared
<1>10. InRedis'
  BY <1>1 DEF InRedis
<1> QED BY <1>6, <1>9, <1>10 DEF ShrInv

\* A check that passes has one hit less than the limit in the bucket, and at most all
\* slots before it.
LEMMA CheckStep == ASSUME ShrInv, NEW s \in ShrSlots, NEW k \in ShrKeys, CheckRequest(s, k) PROVE ShrInv'
<1>1. /\ shrRedis /\ WindowCount(k) < ShrMax[k] /\ shrWaiting' = [shrWaiting EXCEPT ![s] = k]
      /\ shrWaiting[s] = NoKey
      /\ UNCHANGED <<shrRedis, shrUp, shrHits, shrBucket, shrAdmitted, shrSteady, shrPhase>>
  BY DEF CheckRequest
<1>2. ShrTypes'
  BY <1>1 DEF ShrInv, ShrTypes
<1>3. InMemory'
  BY <1>1 DEF InMemory
<1>4. ASSUME NEW j \in ShrKeys, shrUp
      PROVE  Cardinality(InBucket(j)) + Cardinality(Waiters(j)') <= ShrMax[j] + Cardinality(ShrSlots) - 1
  <2>1. CASE j = k
    <3>1. /\ Cardinality(InBucket(k)) <= shrBucket[k] /\ shrBucket[k] < ShrMax[k]
          /\ Cardinality(InBucket(k)) \in Nat /\ shrBucket[k] \in Nat /\ ShrMax[k] \in Nat
      BY <1>1, <1>4, PartsFinite, ShrConstants DEF ShrInv, InRedis, WindowCount, ShrTypes
    <3>2. Cardinality(Waiters(k)') \in Nat /\ Cardinality(Waiters(k)') <= Cardinality(ShrSlots)
      <4>1. Waiters(k)' \subseteq ShrSlots
        BY DEF Waiters
      <4> QED BY <4>1, Parts, ShrConstants
    <3> QED BY <2>1, <3>1, <3>2, ShrConstants
  <2>2. CASE j # k
    <3>1. Waiters(j)' = Waiters(j)
      BY <1>1, <2>2, ShrConstants DEF Waiters, ShrInv, ShrTypes
    <3> QED BY <1>4, <3>1 DEF ShrInv, InRedis
  <2> QED BY <2>1, <2>2
<1>5. \A j \in ShrKeys : InBucket(j)' = InBucket(j) /\ InLastBucket(j)' = InLastBucket(j)
  BY <1>1 DEF InBucket, InLastBucket
<1>6. InRedis'
  BY <1>1, <1>4, <1>5 DEF ShrInv, InRedis
<1> QED BY <1>2, <1>3, <1>6 DEF ShrInv

\* A record moves a request from the waiting ones to the bucket.
LEMMA RecordStep == ASSUME ShrInv, NEW s \in ShrSlots, RecordRequest(s) PROVE ShrInv'
<1>0. PICK k : k = shrWaiting[s]
  OBVIOUS
<1>1. /\ k # NoKey /\ CountHit(k) /\ LetThrough(k) /\ shrWaiting' = [shrWaiting EXCEPT ![s] = NoKey]
      /\ UNCHANGED <<shrRedis, shrUp, shrPhase, shrSteady>>
  BY <1>0 DEF RecordRequest
<1>2. k \in ShrKeys /\ shrRedis
  BY <1>0, <1>1 DEF ShrInv, ShrTypes, InMemory
<1>3. /\ shrAdmitted' = [j \in ShrKeys |-> shrAdmitted'[j]]
      /\ \A j \in ShrKeys : Numbered(shrAdmitted'[j])
      /\ \A j \in ShrKeys : InLastBucket(j)' = InLastBucket(j) /\ (j # k => InBucket(j)' = InBucket(j))
      /\ Cardinality(InBucket(k)') = IF shrSteady = 0 THEN Cardinality(InBucket(k)) ELSE Cardinality(InBucket(k)) + 1
  BY <1>1, <1>2, LetThroughCounts DEF ShrInv
<1>4. /\ Waiters(k)' = Waiters(k) \ {s} /\ s \in Waiters(k)
      /\ \A j \in ShrKeys : j # k => Waiters(j)' = Waiters(j)
  BY <1>0, <1>1, <1>2, ShrConstants DEF Waiters, ShrInv, ShrTypes
<1>5. ShrTypes'
  <2>1. /\ shrBucket' \in [ShrKeys -> Nat] /\ shrHits' = [j \in ShrKeys |-> shrHits'[j]]
        /\ \A j \in ShrKeys : Numbered(shrHits'[j])
    BY <1>1, <1>2, CountKeepsNumbers DEF ShrInv
  <2>2. DOMAIN shrHits' = ShrKeys
    BY <2>1
  <2>3. shrWaiting' \in [ShrSlots -> ShrKeys \cup {NoKey}]
    BY <1>1 DEF ShrInv, ShrTypes
  <2> QED BY <1>1, <1>3, <2>1, <2>2, <2>3 DEF ShrInv, ShrTypes
<1>6. InMemory'
  BY <1>1, <1>2 DEF InMemory
<1>7. InRedis'
  <2> SUFFICES ASSUME shrUp, NEW j \in ShrKeys
               PROVE  /\ Cardinality(InBucket(j)') <= shrBucket'[j]
                      /\ Cardinality(InBucket(j)') + Cardinality(Waiters(j)') <= ShrMax[j] + Cardinality(ShrSlots) - 1
                      /\ Cardinality(InLastBucket(j)') <= ShrMax[j] + Cardinality(ShrSlots) - 1
    BY <1>1 DEF InRedis
  <2>1. /\ Cardinality(InBucket(j)) <= shrBucket[j]
        /\ Cardinality(InBucket(j)) + Cardinality(Waiters(j)) <= ShrMax[j] + Cardinality(ShrSlots) - 1
        /\ Cardinality(InLastBucket(j)) <= ShrMax[j] + Cardinality(ShrSlots) - 1
    BY DEF ShrInv, InRedis
  <2>2. shrBucket' = [shrBucket EXCEPT ![k] = @ + 1]
    BY <1>1 DEF CountHit
  <2>3. CASE j # k
    BY <1>2, <1>3, <1>4, <2>1, <2>2, <2>3 DEF ShrInv, ShrTypes
  <2>4. CASE j = k
    <3>1. Cardinality(Waiters(k)') = Cardinality(Waiters(k)) - 1
      BY <1>2, <1>4, PartsFinite, FS_RemoveElement DEF ShrInv
    <3>2. shrBucket'[k] = shrBucket[k] + 1 /\ shrBucket[k] \in Nat
      BY <1>2, <2>2 DEF ShrInv, ShrTypes
    <3>3. /\ Cardinality(InBucket(k)) \in Nat /\ Cardinality(Waiters(k)) \in Nat
          /\ ShrMax[k] \in Nat /\ Cardinality(ShrSlots) \in Nat
      BY <1>2, PartsFinite, ShrConstants DEF ShrInv
    <3>4. Cardinality(InLastBucket(j)') = Cardinality(InLastBucket(j))
      BY <1>3
    <3>5. Cardinality(InBucket(k)') \in {Cardinality(InBucket(k)), Cardinality(InBucket(k)) + 1}
      BY <1>3
    <3> QED BY <2>1, <2>4, <3>1, <3>2, <3>3, <3>4, <3>5
  <2> QED BY <2>3, <2>4
<1> QED BY <1>5, <1>6, <1>7 DEF ShrInv

\* A failure starts the count of the steady ticks again: no bucket holds anything yet.
LEMMA OutageStep == ASSUME ShrInv, RedisFails \/ RedisReturns PROVE ShrInv'
<1>1. /\ shrRedis /\ shrUp' \in BOOLEAN /\ shrSteady' = 0
      /\ UNCHANGED <<shrRedis, shrHits, shrBucket, shrWaiting, shrAdmitted, shrPhase>>
  BY DEF RedisFails, RedisReturns
<1>2. ShrTypes'
  BY <1>1, ShrConstants DEF ShrInv, ShrTypes
<1>3. InMemory'
  BY <1>1 DEF InMemory
<1>4. InRedis'
  <2> SUFFICES ASSUME NEW k \in ShrKeys
               PROVE  /\ Cardinality(InBucket(k)') <= shrBucket'[k]
                      /\ Cardinality(InBucket(k)') + Cardinality(Waiters(k)') <= ShrMax[k] + Cardinality(ShrSlots) - 1
                      /\ Cardinality(InLastBucket(k)') <= ShrMax[k] + Cardinality(ShrSlots) - 1
    BY DEF InRedis
  <2>1. InBucket(k)' = {} /\ InLastBucket(k)' = {}
    <3>1. \A h \in shrAdmitted'[k] : ~(h[1] < 0)
      BY <1>2 DEF ShrTypes, Numbered, Hits
    <3> QED BY <1>1, <3>1 DEF InBucket, InLastBucket
  <2>2. Cardinality(InBucket(k)') = 0 /\ Cardinality(InLastBucket(k)') = 0
    BY <2>1, FS_EmptySet
  <2>3. Waiters(k)' = Waiters(k) /\ Cardinality(Waiters(k)) \in Nat /\ Cardinality(Waiters(k)) <= Cardinality(ShrSlots)
    BY <1>1, PartsFinite DEF Waiters, ShrInv
  <2>4. shrBucket'[k] \in Nat
    BY <1>2 DEF ShrTypes
  <2> QED BY <2>2, <2>3, <2>4, ShrConstants
<1> QED BY <1>2, <1>3, <1>4 DEF ShrInv

\* What a tick leaves of a set of hits: they are a tick older.
LEMMA AgedHits ==
  ASSUME NEW hits, NEW k \in ShrKeys
  PROVE  /\ Aged(hits)[k] = {<<h[1] + 1, h[2]>> : h \in {g \in hits[k] : g[1] + 1 < ShrLongest}}
         /\ \A h \in Aged(hits)[k] : \E g \in hits[k] : h = <<g[1] + 1, g[2]>> /\ g[1] + 1 < ShrLongest
         /\ \A g \in hits[k] : g[1] + 1 < ShrLongest => <<g[1] + 1, g[2]>> \in Aged(hits)[k]
  BY DEF Aged

\* A tick ages every hit: what is in the window, in the bucket or in the last bucket
\* was there before, or was in the bucket that has just ended.
LEMMA TickStep == ASSUME ShrInv, ShrTick PROVE ShrInv'
<1>1. /\ shrWaiting = [s \in ShrSlots |-> NoKey] /\ UNCHANGED <<shrRedis, shrUp, shrWaiting>>
      /\ shrHits' = Aged(shrHits) /\ shrAdmitted' = Aged(shrAdmitted)
      /\ shrPhase' = [k \in ShrKeys |-> IF shrPhase[k] + 1 = ShrWindow[k] THEN 0 ELSE shrPhase[k] + 1]
      /\ shrBucket' = [k \in ShrKeys |-> IF shrPhase'[k] = 0 THEN 0 ELSE shrBucket[k]]
      /\ shrSteady' = IF shrSteady < ShrLongest THEN shrSteady + 1 ELSE ShrLongest
  BY DEF ShrTick
<1>2. ASSUME NEW k \in ShrKeys
      PROVE  /\ shrPhase[k] \in Nat /\ shrPhase[k] < ShrWindow[k] /\ ShrWindow[k] \in Nat \ {0}
             /\ shrPhase'[k] = IF shrPhase[k] + 1 = ShrWindow[k] THEN 0 ELSE shrPhase[k] + 1
             /\ shrBucket'[k] = IF shrPhase'[k] = 0 THEN 0 ELSE shrBucket[k]
             /\ shrSteady \in Nat /\ shrSteady' \in Nat /\ shrSteady' <= shrSteady + 1 /\ shrSteady' <= ShrLongest
  BY <1>1, ShrConstants DEF ShrInv, ShrTypes
<1>3. ASSUME NEW hits, NEW k \in ShrKeys, Numbered(hits[k]), NEW h \in Aged(hits)[k]
      PROVE  \E g \in hits[k] : /\ g \in Hits /\ h = <<g[1] + 1, g[2]>>
                                /\ h[1] = g[1] + 1 /\ h[1] \in Nat \ {0} /\ h[1] < ShrLongest
  <2>1. PICK g \in hits[k] : h = <<g[1] + 1, g[2]>> /\ g[1] + 1 < ShrLongest
    BY <1>3, AgedHits
  <2>2. g \in Hits
    BY <1>3 DEF Numbered
  <2> QED BY <2>1, <2>2 DEF Hits
<1>4. ASSUME NEW hits, NEW k \in ShrKeys, Numbered(hits[k]) PROVE Numbered(Aged(hits)[k])
  <2>1. IsFiniteSet(hits[k]) /\ hits[k] \subseteq Hits
    BY <1>4 DEF Numbered
  <2>2. \A h \in Aged(hits)[k] : \E g \in hits[k] : h = <<g[1] + 1, g[2]>>
    BY AgedHits
  <2>3. IsFiniteSet(Aged(hits)[k]) /\ Aged(hits)[k] \subseteq Hits
    BY <2>1, <2>2, Older
  <2>4. NewOnes(Aged(hits)[k]) = {}
    BY <1>3, <1>4 DEF NewOnes
  <2> QED BY <2>3, <2>4 DEF Numbered
<1>5. ShrTypes'
  <2>1. shrPhase' \in [ShrKeys -> Nat] /\ (\A k \in ShrKeys : shrPhase'[k] < ShrWindow[k])
    <3>1. \A k \in ShrKeys : shrPhase'[k] \in Nat /\ shrPhase'[k] < ShrWindow[k]
      BY <1>2
    <3> QED BY <1>1, <3>1
  <2>2. shrBucket' \in [ShrKeys -> Nat]
    BY <1>1 DEF ShrInv, ShrTypes
  <2>3. DOMAIN shrHits' = ShrKeys /\ shrHits' = [k \in ShrKeys |-> shrHits'[k]]
    BY <1>1 DEF Aged
  <2>4. shrAdmitted' = [k \in ShrKeys |-> shrAdmitted'[k]]
    BY <1>1 DEF Aged
  <2>5. shrSteady' \in 0..ShrLongest
    BY <1>1, ShrConstants DEF ShrInv, ShrTypes
  <2>6. \A k \in ShrKeys : Numbered(shrAdmitted'[k]) /\ Numbered(shrHits'[k])
    BY <1>1, <1>4 DEF ShrInv, ShrTypes
  <2> QED BY <1>1, <2>1, <2>2, <2>3, <2>4, <2>5, <2>6 DEF ShrInv, ShrTypes
<1>6. ASSUME NEW hits, NEW k \in ShrKeys, Numbered(hits[k])
      PROVE  \A h : h \in {x \in Aged(hits)[k] : x[1] < ShrWindow[k]}
                      <=> \E g \in InWindow(hits, k) : h = <<g[1] + 1, g[2]>> /\ g[1] + 1 < ShrWindow[k]
  <2>1. ASSUME NEW h \in Aged(hits)[k], h[1] < ShrWindow[k]
        PROVE  \E g \in InWindow(hits, k) : h = <<g[1] + 1, g[2]>> /\ g[1] + 1 < ShrWindow[k]
    <3>1. PICK g \in hits[k] : g \in Hits /\ h = <<g[1] + 1, g[2]>> /\ h[1] = g[1] + 1
      BY <1>3, <1>6
    <3>2. g[1] < ShrWindow[k] /\ g[1] + 1 < ShrWindow[k]
      BY <1>2, <2>1, <3>1 DEF Hits
    <3> QED BY <3>1, <3>2 DEF InWindow
  <2>2. ASSUME NEW g \in InWindow(hits, k), g[1] + 1 < ShrWindow[k]
        PROVE  <<g[1] + 1, g[2]>> \in {x \in Aged(hits)[k] : x[1] < ShrWindow[k]}
    <3>1. g \in hits[k] /\ g \in Hits
      BY <1>6 DEF InWindow, Numbered
    <3>2. g[1] + 1 < ShrLongest
      BY <2>2, <3>1, ShrConstants DEF Hits
    <3> QED BY <2>2, <3>1, <3>2, AgedHits
  <2> QED BY <2>1, <2>2
<1>7. ASSUME NEW k \in ShrKeys
      PROVE  Cardinality(InWindow(shrAdmitted, k)') <= Cardinality(InWindow(shrAdmitted, k))
             /\ Cardinality(InWindow(shrAdmitted, k)') \in Nat
             /\ Cardinality(InWindow(shrAdmitted, k)) \in Nat
  <2>1. Numbered(shrAdmitted[k])
    BY DEF ShrInv, ShrTypes
  <2>2. InWindow(shrAdmitted, k)' = {x \in Aged(shrAdmitted)[k] : x[1] < ShrWindow[k]}
    BY <1>1 DEF InWindow
  <2>3. \A h \in InWindow(shrAdmitted, k)' : \E g \in InWindow(shrAdmitted, k) : h = <<g[1] + 1, g[2]>>
    BY <1>6, <2>1, <2>2
  <2>4. IsFiniteSet(InWindow(shrAdmitted, k)) /\ InWindow(shrAdmitted, k) \subseteq Hits
    BY <2>1, PartsFinite DEF ShrInv, Numbered, InWindow
  <2> QED BY <2>3, <2>4, Older
<1>8. InMemory'
  <2> SUFFICES ASSUME ~shrRedis, NEW k \in ShrKeys, Spared(k)
               PROVE  /\ InWindow(shrHits, k)' = InWindow(shrAdmitted, k)'
                      /\ Cardinality(InWindow(shrAdmitted, k)') <= ShrMax[k]
    BY <1>1 DEF InMemory, Spared, ShrInv
  <2>1. InWindow(shrHits, k) = InWindow(shrAdmitted, k) /\ Cardinality(InWindow(shrAdmitted, k)) <= ShrMax[k]
    BY DEF ShrInv, InMemory
  <2>2. /\ InWindow(shrHits, k)' = {x \in Aged(shrHits)[k] : x[1] < ShrWindow[k]}
        /\ InWindow(shrAdmitted, k)' = {x \in Aged(shrAdmitted)[k] : x[1] < ShrWindow[k]}
    BY <1>1 DEF InWindow
  <2>3. Numbered(shrAdmitted[k]) /\ Numbered(shrHits[k])
    BY DEF ShrInv, ShrTypes
  <2>4. \A h : h \in {x \in Aged(shrHits)[k] : x[1] < ShrWindow[k]}
                <=> h \in {x \in Aged(shrAdmitted)[k] : x[1] < ShrWindow[k]}
    <3>1. \A h : h \in {x \in Aged(shrHits)[k] : x[1] < ShrWindow[k]}
                <=> \E g \in InWindow(shrHits, k) : h = <<g[1] + 1, g[2]>> /\ g[1] + 1 < ShrWindow[k]
      BY <1>6, <2>3
    <3>2. \A h : h \in {x \in Aged(shrAdmitted)[k] : x[1] < ShrWindow[k]}
                <=> \E g \in InWindow(shrAdmitted, k) : h = <<g[1] + 1, g[2]>> /\ g[1] + 1 < ShrWindow[k]
      BY <1>6, <2>3
    <3> QED BY <2>1, <3>1, <3>2
  <2>5. InWindow(shrHits, k)' = InWindow(shrAdmitted, k)'
    BY <2>2, <2>4
  <2> QED BY <1>7, <2>1, <2>5, ShrConstants
<1>9. ASSUME NEW k \in ShrKeys, shrUp
      PROVE  /\ Cardinality(InBucket(k)') <= shrBucket'[k]
             /\ Cardinality(InBucket(k)') + Cardinality(Waiters(k)') <= ShrMax[k] + Cardinality(ShrSlots) - 1
             /\ Cardinality(InLastBucket(k)') <= ShrMax[k] + Cardinality(ShrSlots) - 1
  <2>1. /\ Cardinality(InBucket(k)) <= shrBucket[k]
        /\ Cardinality(InBucket(k)) + Cardinality(Waiters(k)) <= ShrMax[k] + Cardinality(ShrSlots) - 1
        /\ Cardinality(InLastBucket(k)) <= ShrMax[k] + Cardinality(ShrSlots) - 1
    BY <1>9 DEF ShrInv, InRedis
  <2>2. Waiters(k)' = {} /\ Cardinality(Waiters(k)') = 0
    BY <1>1, ShrConstants, FS_EmptySet DEF Waiters
  <2>3. /\ IsFiniteSet(InBucket(k)) /\ InBucket(k) \subseteq Hits
        /\ IsFiniteSet(InLastBucket(k)) /\ InLastBucket(k) \subseteq Hits
        /\ Cardinality(InBucket(k)) \in Nat /\ Cardinality(InLastBucket(k)) \in Nat /\ Cardinality(Waiters(k)) \in Nat
    BY PartsFinite DEF ShrInv, ShrTypes, Numbered, InBucket, InLastBucket
  <2>4. ShrMax[k] \in Nat \ {0} /\ Cardinality(ShrSlots) \in Nat
    BY ShrConstants
  <2>5. ASSUME NEW h \in shrAdmitted'[k]
        PROVE  \E g \in shrAdmitted[k] : /\ g \in Hits /\ h = <<g[1] + 1, g[2]>> /\ h[1] = g[1] + 1
                                         /\ h[1] \in Nat \ {0} /\ g[1] \in Nat
                                         /\ h[1] < shrSteady' => g[1] < shrSteady
    <3>1. PICK g \in shrAdmitted[k] : g \in Hits /\ h = <<g[1] + 1, g[2]>> /\ h[1] = g[1] + 1
                                      /\ h[1] \in Nat \ {0}
      BY <1>1, <1>3 DEF ShrInv, ShrTypes
    <3>2. g[1] \in Nat
      BY <3>1 DEF Hits
    <3> QED BY <1>2, <3>1, <3>2
  <2>6. CASE shrPhase[k] + 1 # ShrWindow[k]
    <3>1. shrPhase'[k] = shrPhase[k] + 1 /\ shrBucket'[k] = shrBucket[k]
      BY <1>2, <2>6
    <3>2. \A h \in InBucket(k)' : \E g \in InBucket(k) : h = <<g[1] + 1, g[2]>>
      <4> SUFFICES ASSUME NEW h \in InBucket(k)' PROVE \E g \in InBucket(k) : h = <<g[1] + 1, g[2]>>
        OBVIOUS
      <4>1. h \in shrAdmitted'[k] /\ h[1] <= shrPhase[k] + 1 /\ h[1] < shrSteady'
        BY <3>1 DEF InBucket
      <4>2. PICK g \in shrAdmitted[k] : /\ h = <<g[1] + 1, g[2]>> /\ h[1] = g[1] + 1 /\ g[1] \in Nat
                                        /\ g[1] < shrSteady
        BY <2>5, <4>1
      <4>3. g[1] <= shrPhase[k]
        BY <1>2, <4>1, <4>2
      <4> QED BY <4>2, <4>3 DEF InBucket
    <3>3. \A h \in InLastBucket(k)' : \E g \in InLastBucket(k) : h = <<g[1] + 1, g[2]>>
      <4> SUFFICES ASSUME NEW h \in InLastBucket(k)' PROVE \E g \in InLastBucket(k) : h = <<g[1] + 1, g[2]>>
        OBVIOUS
      <4>1. /\ h \in shrAdmitted'[k] /\ shrPhase[k] + 1 < h[1] /\ h[1] <= shrPhase[k] + 1 + ShrWindow[k]
            /\ h[1] < shrSteady'
        BY <3>1 DEF InLastBucket
      <4>2. PICK g \in shrAdmitted[k] : /\ h = <<g[1] + 1, g[2]>> /\ h[1] = g[1] + 1 /\ g[1] \in Nat
                                        /\ g[1] < shrSteady
        BY <2>5, <4>1
      <4>3. shrPhase[k] < g[1] /\ g[1] <= shrPhase[k] + ShrWindow[k]
        BY <1>2, <4>1, <4>2
      <4> QED BY <4>2, <4>3 DEF InLastBucket
    <3>4. Cardinality(InBucket(k)') <= Cardinality(InBucket(k)) /\ Cardinality(InBucket(k)') \in Nat
      BY <2>3, <3>2, Older
    <3>5. Cardinality(InLastBucket(k)') <= Cardinality(InLastBucket(k)) /\ Cardinality(InLastBucket(k)') \in Nat
      BY <2>3, <3>3, Older
    <3>6. shrBucket[k] \in Nat
      BY DEF ShrInv, ShrTypes
    <3> QED BY <2>1, <2>2, <2>3, <2>4, <3>1, <3>4, <3>5, <3>6
  <2>7. CASE shrPhase[k] + 1 = ShrWindow[k]
    <3>1. shrPhase'[k] = 0 /\ shrBucket'[k] = 0
      BY <1>2, <2>7
    <3>2. InBucket(k)' = {}
      <4>1. \A h \in shrAdmitted'[k] : ~(h[1] <= 0)
        BY <2>5
      <4> QED BY <3>1, <4>1 DEF InBucket
    <3>3. \A h \in InLastBucket(k)' : \E g \in InBucket(k) : h = <<g[1] + 1, g[2]>>
      <4> SUFFICES ASSUME NEW h \in InLastBucket(k)' PROVE \E g \in InBucket(k) : h = <<g[1] + 1, g[2]>>
        OBVIOUS
      <4>1. h \in shrAdmitted'[k] /\ h[1] <= 0 + ShrWindow[k] /\ h[1] < shrSteady'
        BY <3>1 DEF InLastBucket
      <4>2. PICK g \in shrAdmitted[k] : /\ h = <<g[1] + 1, g[2]>> /\ h[1] = g[1] + 1 /\ g[1] \in Nat
                                        /\ g[1] < shrSteady
        BY <2>5, <4>1
      <4>3. g[1] <= shrPhase[k]
        BY <1>2, <2>7, <4>1, <4>2
      <4> QED BY <4>2, <4>3 DEF InBucket
    <3>4. Cardinality(InLastBucket(k)') <= Cardinality(InBucket(k)) /\ Cardinality(InLastBucket(k)') \in Nat
      BY <2>3, <3>3, Older
    <3>5. Cardinality(InBucket(k)') = 0
      BY <3>2, FS_EmptySet
    <3> QED BY <2>1, <2>2, <2>3, <2>4, <3>1, <3>4, <3>5
  <2> QED BY <2>6, <2>7
<1>10. InRedis'
  BY <1>1, <1>9 DEF InRedis
<1> QED BY <1>5, <1>8, <1>10 DEF ShrInv

\* Every step preserves the invariant.
LEMMA ShrInvStep == ShrInv /\ [ShrNext]_shrVars => ShrInv'
<1> SUFFICES ASSUME ShrInv, [ShrNext]_shrVars PROVE ShrInv'
  OBVIOUS
<1>1. ASSUME NEW k \in ShrKeys, ServeRequest(k) PROVE ShrInv'
  BY <1>1, ServeStep
<1>2. ASSUME NEW k \in ShrKeys, NEW s \in ShrSlots, CheckRequest(s, k) PROVE ShrInv'
  BY <1>2, CheckStep
<1>3. ASSUME NEW s \in ShrSlots, RecordRequest(s) PROVE ShrInv'
  BY <1>3, RecordStep
<1>4. CASE RedisFails \/ RedisReturns
  BY <1>4, OutageStep
<1>5. CASE ShrTick
  BY <1>5, TickStep
<1>6. CASE UNCHANGED shrVars
  BY <1>6 DEF shrVars, ShrInv, ShrTypes, InMemory, InRedis, InWindow, InBucket, InLastBucket, Waiters, Spared
<1> QED BY <1>1, <1>2, <1>3, <1>4, <1>5, <1>6 DEF ShrNext

\* A window reaches over two buckets.
LEMMA InvBoundsAdmissions == ShrInv => AdmissionsBounded
<1> SUFFICES ASSUME ShrInv, NEW k \in ShrKeys,
                    ~(~shrRedis /\ \E j \in ShrKeys : ShrWindow[k] > 2 * ShrWindow[j]),
                    ~(shrRedis /\ (~shrUp \/ shrSteady < ShrWindow[k]))
             PROVE  Cardinality(InWindow(shrAdmitted, k))
                      <= IF shrRedis THEN 2 * (ShrMax[k] + Cardinality(ShrSlots) - 1) ELSE ShrMax[k]
  BY DEF AdmissionsBounded
<1>1. CASE ~shrRedis
  <2>1. Spared(k)
    BY <1>1, ShrConstants DEF Spared
  <2> QED BY <1>1, <2>1 DEF ShrInv, InMemory
<1>2. CASE shrRedis
  <2>1. /\ shrUp /\ shrSteady \in Nat /\ ShrWindow[k] \in Nat /\ shrSteady >= ShrWindow[k]
        /\ shrPhase[k] \in Nat
    BY <1>2, ShrConstants DEF ShrInv, ShrTypes
  <2>2. InWindow(shrAdmitted, k) \subseteq InBucket(k) \cup InLastBucket(k)
    <3> SUFFICES ASSUME NEW h \in shrAdmitted[k], h[1] < ShrWindow[k]
                 PROVE  h \in InBucket(k) \cup InLastBucket(k)
      BY DEF InWindow
    <3>1. h[1] \in Nat
      BY DEF ShrInv, ShrTypes, Numbered, Hits
    <3>2. h[1] < shrSteady /\ h[1] <= shrPhase[k] + ShrWindow[k]
      BY <2>1, <3>1
    <3>3. h[1] <= shrPhase[k] \/ shrPhase[k] < h[1]
      BY <2>1, <3>1
    <3> QED BY <3>2, <3>3 DEF InBucket, InLastBucket
  <2>3. InBucket(k) \cap InLastBucket(k) = {}
    <3> SUFFICES ASSUME NEW h \in shrAdmitted[k], h[1] <= shrPhase[k], shrPhase[k] < h[1] PROVE FALSE
      BY DEF InBucket, InLastBucket
    <3>1. h[1] \in Nat
      BY DEF ShrInv, ShrTypes, Numbered, Hits
    <3> QED BY <2>1, <3>1
  <2>4. /\ IsFiniteSet(InBucket(k) \cup InLastBucket(k))
        /\ Cardinality(InBucket(k) \cup InLastBucket(k)) = Cardinality(InBucket(k)) + Cardinality(InLastBucket(k))
    <3>1. /\ IsFiniteSet(InBucket(k)) /\ IsFiniteSet(InLastBucket(k))
          /\ Cardinality(InBucket(k)) \in Nat /\ Cardinality(InLastBucket(k)) \in Nat
      BY PartsFinite DEF ShrInv
    <3> QED BY <2>3, <3>1, FS_Union, FS_EmptySet
  <2>5. Cardinality(InWindow(shrAdmitted, k)) <= Cardinality(InBucket(k)) + Cardinality(InLastBucket(k))
    BY <2>2, <2>4, Parts
  <2>6. /\ Cardinality(InBucket(k)) + Cardinality(Waiters(k)) <= ShrMax[k] + Cardinality(ShrSlots) - 1
        /\ Cardinality(InLastBucket(k)) <= ShrMax[k] + Cardinality(ShrSlots) - 1
    BY <2>1 DEF ShrInv, InRedis
  <2>7. /\ Cardinality(InBucket(k)) \in Nat /\ Cardinality(InLastBucket(k)) \in Nat /\ Cardinality(Waiters(k)) \in Nat
        /\ Cardinality(InWindow(shrAdmitted, k)) \in Nat /\ ShrMax[k] \in Nat /\ Cardinality(ShrSlots) \in Nat
    BY PartsFinite, ShrConstants DEF ShrInv
  <2> QED BY <1>2, <2>5, <2>6, <2>7
<1> QED BY <1>1, <1>2

\* For any keys, windows, limits and numbers of requests at a time: no more requests of
\* a key are let through in a window than the property says (ratelimit.py,
\* shared_state.py).
THEOREM AdmissionsAreBounded == ShrSpec => []AdmissionsBounded
<1>1. ShrSpec => []ShrInv
  BY ShrInvInit, ShrInvStep, PTL DEF ShrSpec
<1> QED BY <1>1, InvBoundsAdmissions, PTL
=============================================================================
