-------------------------- MODULE AuthSessionsProofs --------------------------
(* Proofs about AuthSessions, for every set of requests, names and         *)
(* passwords and every bound on time and on accounts.                      *)
EXTENDS AuthSessions, TLAPS

USE RootAssumption, TimeAssumption, NoneAssumption, NoAccountAssumption

-----------------------------------------------------------------------------
(* Accounts: what an update of one field does                              *)

\* A new role or a new password leaves an account an account, and the same one.
LEMMA AccountUpdate ==
  ASSUME NEW x \in Account, NEW role \in Role, NEW p \in Password
  PROVE  /\ [x EXCEPT !.role = role] \in Account
         /\ [x EXCEPT !.role = role].role = role
         /\ [x EXCEPT !.role = role].made = x.made
         /\ [x EXCEPT !.password = p] \in Account
         /\ [x EXCEPT !.password = p].role = x.role
         /\ [x EXCEPT !.password = p].made = x.made
BY DEF Account

\* Requests and sessions of their types.
LEMMA Requests ==
  ASSUME TypeOK, NEW r \in Request, NEW n \in Name \cup {None}, NEW m \in 0..MaxMade,
         NEW pc \in {"new", "login", "setPassword", "admin", "insert", "dropSessions", "done"}
  PROVE  [request EXCEPT ![r] = [pc |-> pc, user |-> n, made |-> m]] \in
           [Request -> [pc : {"new", "login", "setPassword", "admin", "insert", "dropSessions", "done"},
                        user : Name \cup {None}, made : 0..MaxMade]]
BY DEF TypeOK

-----------------------------------------------------------------------------
\* A call that is between two statements remembers the name of an account.
CallHasUser ==
  \A r \in Request : request[r].pc \in {"login", "setPassword", "insert", "dropSessions"}
                       => request[r].user \in Name
Inv == TypeOK /\ CallHasUser /\ RootAdminStays /\ FinishedDeletionRevokes

\* A first start has one account, of the root, and no session.
LEMMA Initially == Init => Inv
<1> SUFFICES ASSUME Init PROVE Inv
  OBVIOUS
<1>1. PICK p \in Password : users = [n \in Name |->
         IF n = Root THEN [role |-> "admin", password |-> p, made |-> 0] ELSE None]
  BY DEF Init
<1>2. [role |-> "admin", password |-> p, made |-> 0] \in Account
  BY DEF Account, Role
<1>3. users \in [Name -> Account \cup {None}]
  BY <1>1, <1>2
<1>4. TypeOK
  BY <1>3 DEF Init, TypeOK, Fresh
<1>5. RootAdminStays
  BY <1>1, <1>2 DEF RootAdminStays
<1>6. CallHasUser /\ FinishedDeletionRevokes
  BY DEF Init, CallHasUser, FinishedDeletionRevokes, Fresh
<1> QED BY <1>4, <1>5, <1>6 DEF Inv

-----------------------------------------------------------------------------
(* The steps                                                               *)

\* A step that adds no session, ends no account and finishes no deletion keeps
\* what a finished deletion promises.
LEMMA RevokesKept ==
  ASSUME FinishedDeletionRevokes, sessions' \subseteq sessions,
         \A n \in Name : users[n] # None => users'[n] # None /\ users'[n].made = users[n].made,
         \A r \in Request : request[r].pc = "dropSessions" => request'[r] = request[r],
         sessions \subseteq Session
  PROVE  FinishedDeletionRevokes'
BY DEF FinishedDeletionRevokes, Session

\* A login: the password is read, then the row is inserted.
LEMMA LoginKeeps ==
  ASSUME Inv, NEW r \in Request,
         (\E n \in Name, p \in Password : LoginRead(r, n, p)) \/ LoginInsert(r)
  PROVE  Inv'
<1> USE DEF Inv
<1>1. ASSUME NEW n \in Name, NEW p \in Password, LoginRead(r, n, p) PROVE Inv'
  <2>1. users[n].made \in 0..MaxMade
    BY <1>1 DEF LoginRead, TypeOK, Account
  <2>2. TypeOK'
    BY <1>1, <2>1, Requests DEF LoginRead, TypeOK
  <2>3. CallHasUser' /\ RootAdminStays'
    BY <1>1 DEF LoginRead, CallHasUser, RootAdminStays, TypeOK
  <2>4. FinishedDeletionRevokes'
    BY <1>1, RevokesKept DEF LoginRead, TypeOK
  <2> QED BY <2>2, <2>3, <2>4
<1>2. CASE LoginInsert(r)
  <2> DEFINE n == request[r].user
             gone == users[n] = None \/ users[n].made # request[r].made
             s == [token |-> r, user |-> n, at |-> now, made |-> request[r].made, late |-> gone]
  <2>1. n \in Name /\ request[r].made \in 0..MaxMade
    BY <1>2 DEF LoginInsert, CallHasUser, TypeOK
  <2>2. sessions' = sessions \cup {s} /\ s \in Session
    BY <1>2, <2>1 DEF LoginInsert, Session, TypeOK
  <2>3. TypeOK'
    BY <1>2, <2>2, Requests DEF LoginInsert, Done, TypeOK
  <2>4. CallHasUser' /\ RootAdminStays'
    BY <1>2 DEF LoginInsert, Done, CallHasUser, RootAdminStays, TypeOK
  <2>5. \A q \in Request : request[q].pc = "dropSessions" => request'[q] = request[q]
    BY <1>2 DEF LoginInsert, TypeOK
  <2>6. s.late \/ (users[s.user] # None /\ users[s.user].made = s.made)
    OBVIOUS
  <2>7. FinishedDeletionRevokes'
    BY <1>2, <2>2, <2>5, <2>6 DEF LoginInsert, FinishedDeletionRevokes
  <2> QED BY <2>3, <2>4, <2>7
<1> QED BY <1>1, <1>2

\* The other calls of an account's owner: logout and a new password.
LEMMA OwnerKeeps ==
  ASSUME Inv, NEW r \in Request,
         \/ Logout(r)
         \/ \E t \in Request, n \in Name, p \in Password : ChangePasswordRead(r, t, n, p)
         \/ \E p \in Password : ChangePasswordWrite(r, p)
  PROVE  Inv'
<1> USE DEF Inv
<1>1. CASE Logout(r)
  <2>1. TypeOK' /\ CallHasUser' /\ RootAdminStays'
    BY <1>1 DEF Logout, TypeOK, CallHasUser, RootAdminStays
  <2>2. FinishedDeletionRevokes'
    BY <1>1, RevokesKept DEF Logout, TypeOK
  <2> QED BY <2>1, <2>2
<1>2. ASSUME NEW t \in Request, NEW n \in Name, NEW p \in Password, ChangePasswordRead(r, t, n, p)
      PROVE  Inv'
  <2>1. users[n].made \in 0..MaxMade
    BY <1>2 DEF ChangePasswordRead, Opens, TypeOK, Account
  <2>2. TypeOK'
    BY <1>2, <2>1, Requests DEF ChangePasswordRead, TypeOK
  <2>3. CallHasUser' /\ RootAdminStays'
    BY <1>2 DEF ChangePasswordRead, CallHasUser, RootAdminStays, TypeOK
  <2>4. FinishedDeletionRevokes'
    BY <1>2, RevokesKept DEF ChangePasswordRead, TypeOK
  <2> QED BY <2>2, <2>3, <2>4
<1>3. ASSUME NEW p \in Password, ChangePasswordWrite(r, p) PROVE Inv'
  <2> DEFINE n == request[r].user
  <2>1. n \in Name
    BY <1>3 DEF ChangePasswordWrite, CallHasUser
  <2>2. users' = users \/ (users[n] \in Account /\ users' = [users EXCEPT ![n] = [users[n] EXCEPT !.password = p]])
    BY <1>3, <2>1 DEF ChangePasswordWrite, TypeOK
  <2>3. users[n] \in Account => /\ [users[n] EXCEPT !.password = p] \in Account
                                /\ [users[n] EXCEPT !.password = p].role = users[n].role
                                /\ [users[n] EXCEPT !.password = p].made = users[n].made
    BY AccountUpdate DEF Role
  <2>4. /\ users' \in [Name -> Account \cup {None}]
        /\ \A m \in Name : users[m] # None => /\ users'[m] # None
                                              /\ users'[m].role = users[m].role
                                              /\ users'[m].made = users[m].made
    BY <2>1, <2>2, <2>3 DEF TypeOK
  <2>5. TypeOK'
    BY <1>3, <2>4, Requests DEF ChangePasswordWrite, Done, TypeOK
  <2>6. CallHasUser' /\ RootAdminStays'
    BY <1>3, <2>4 DEF ChangePasswordWrite, Done, CallHasUser, RootAdminStays, TypeOK
  <2>7. FinishedDeletionRevokes'
    BY <1>3, <2>4, RevokesKept DEF ChangePasswordWrite, TypeOK
  <2> QED BY <2>5, <2>6, <2>7
<1> QED BY <1>1, <1>2, <1>3

\* The administrator's calls up to the change itself, and the creation.
LEMMA CreationKeeps ==
  ASSUME Inv, NEW r \in Request,
         \/ \E t \in Request : AdminCheck(r, t)
         \/ \E n \in Name : CreateCount(r, n)
         \/ \E role \in Role, p \in Password : CreateInsert(r, role, p)
  PROVE  Inv'
<1> USE DEF Inv
<1>1. ASSUME NEW t \in Request, AdminCheck(r, t) PROVE Inv'
  <2>1. TypeOK'
    BY <1>1, Requests DEF AdminCheck, TypeOK
  <2>2. CallHasUser' /\ RootAdminStays'
    BY <1>1 DEF AdminCheck, CallHasUser, RootAdminStays, TypeOK
  <2>3. FinishedDeletionRevokes'
    BY <1>1, RevokesKept DEF AdminCheck, TypeOK
  <2> QED BY <2>1, <2>2, <2>3
<1>2. ASSUME NEW n \in Name, CreateCount(r, n) PROVE Inv'
  <2>1. TypeOK'
    BY <1>2, Requests DEF CreateCount, TypeOK
  <2>2. CallHasUser' /\ RootAdminStays'
    BY <1>2 DEF CreateCount, CallHasUser, RootAdminStays, TypeOK
  <2>3. FinishedDeletionRevokes'
    BY <1>2, RevokesKept DEF CreateCount, TypeOK
  <2> QED BY <2>1, <2>2, <2>3
<1>3. ASSUME NEW role \in Role, NEW p \in Password, CreateInsert(r, role, p) PROVE Inv'
  <2> DEFINE n == request[r].user
             new == [role |-> role, password |-> p, made |-> made + 1]
  <2>1. n \in Name
    BY <1>3 DEF CreateInsert, CallHasUser
  <2>2. \/ users' = users /\ made' = made
        \/ users[n] = None /\ made < MaxMade /\ made' = made + 1 /\ users' = [users EXCEPT ![n] = new]
    BY <1>3 DEF CreateInsert
  <2>3. made < MaxMade => new \in Account
    BY DEF Account, TypeOK
  <2>4. /\ users' \in [Name -> Account \cup {None}] /\ made' \in 0..MaxMade
        /\ \A m \in Name : users[m] # None => users'[m] = users[m]
    BY <2>1, <2>2, <2>3 DEF TypeOK
  <2>5. TypeOK'
    BY <1>3, <2>4, Requests DEF CreateInsert, Done, TypeOK
  <2>6. CallHasUser' /\ RootAdminStays'
    BY <1>3, <2>4 DEF CreateInsert, Done, CallHasUser, RootAdminStays, TypeOK
  <2>7. FinishedDeletionRevokes'
    BY <1>3, <2>4, RevokesKept DEF CreateInsert, TypeOK
  <2> QED BY <2>5, <2>6, <2>7
<1> QED BY <1>1, <1>2, <1>3

\* A change of role, and the two statements of a deletion.
LEMMA ChangeKeeps ==
  ASSUME Inv, NEW r \in Request,
         \/ \E n \in Name, role \in Role : UpdateUser(r, n, role)
         \/ \E n \in Name : DeleteUserRow(r, n)
         \/ DeleteSessions(r)
  PROVE  Inv'
<1> USE DEF Inv
<1>1. ASSUME NEW n \in Name, NEW role \in Role, UpdateUser(r, n, role) PROVE Inv'
  <2>1. users[n] \in Account /\ n # Root /\ users' = [users EXCEPT ![n] = [users[n] EXCEPT !.role = role]]
    BY <1>1 DEF UpdateUser, TypeOK
  <2>2. PICK p : p \in Password
    BY <2>1 DEF Account
  <2>3. /\ [users[n] EXCEPT !.role = role] \in Account
        /\ [users[n] EXCEPT !.role = role].made = users[n].made
    BY <2>1, <2>2, AccountUpdate
  <2>4. /\ users' \in [Name -> Account \cup {None}]
        /\ users'[Root] = users[Root]
        /\ \A m \in Name : users[m] # None => users'[m] # None /\ users'[m].made = users[m].made
    BY <2>1, <2>3 DEF TypeOK
  <2>5. TypeOK'
    BY <1>1, <2>4, Requests DEF UpdateUser, Done, TypeOK
  <2>6. CallHasUser' /\ RootAdminStays'
    BY <1>1, <2>4 DEF UpdateUser, Done, CallHasUser, RootAdminStays, TypeOK
  <2>7. FinishedDeletionRevokes'
    BY <1>1, <2>4, RevokesKept DEF UpdateUser, TypeOK
  <2> QED BY <2>5, <2>6, <2>7
<1>2. ASSUME NEW n \in Name, DeleteUserRow(r, n) PROVE Inv'
  <2>1. /\ users' \in [Name -> Account \cup {None}]
        /\ users'[Root] = users[Root]
        /\ \A m \in Name : m # n => users'[m] = users[m]
    BY <1>2 DEF DeleteUserRow, TypeOK
  <2>2. TypeOK'
    BY <1>2, <2>1, Requests DEF DeleteUserRow, TypeOK
  <2>3. CallHasUser' /\ RootAdminStays'
    BY <1>2, <2>1 DEF DeleteUserRow, CallHasUser, RootAdminStays, TypeOK
  <2>4. /\ request'[r].pc = "dropSessions" /\ request'[r].user = n
        /\ \A q \in Request : request[q].pc = "dropSessions" => request'[q] = request[q]
    BY <1>2 DEF DeleteUserRow, TypeOK
  <2>5. FinishedDeletionRevokes'
    BY <1>2, <2>1, <2>4 DEF DeleteUserRow, FinishedDeletionRevokes, TypeOK, Session
  <2> QED BY <2>2, <2>3, <2>5
<1>3. CASE DeleteSessions(r)
  <2>1. TypeOK'
    BY <1>3, Requests DEF DeleteSessions, Done, TypeOK
  <2>2. CallHasUser' /\ RootAdminStays'
    BY <1>3 DEF DeleteSessions, Done, CallHasUser, RootAdminStays, TypeOK
  <2>3. \A q \in Request : q # r => request'[q] = request[q]
    BY <1>3 DEF DeleteSessions, TypeOK
  <2>4. FinishedDeletionRevokes'
    BY <1>3, <2>3 DEF DeleteSessions, FinishedDeletionRevokes
  <2> QED BY <2>1, <2>2, <2>4
<1> QED BY <1>1, <1>2, <1>3

\* Time, the clean-up and a restart.
LEMMA EnvironmentKeeps ==
  ASSUME Inv, Tick \/ CleanupExpiredSessions \/ Restart
  PROVE  Inv'
<1> USE DEF Inv
<1>1. CASE Tick
  BY <1>1 DEF Tick, TypeOK, CallHasUser, RootAdminStays, FinishedDeletionRevokes
<1>2. CASE CleanupExpiredSessions
  <2>1. TypeOK' /\ CallHasUser' /\ RootAdminStays'
    BY <1>2 DEF CleanupExpiredSessions, TypeOK, CallHasUser, RootAdminStays
  <2>2. FinishedDeletionRevokes'
    BY <1>2, RevokesKept DEF CleanupExpiredSessions, TypeOK
  <2> QED BY <2>1, <2>2
<1>3. CASE Restart
  <2>1. users[Root] \in Account /\ users' = [users EXCEPT ![Root] = [users[Root] EXCEPT !.role = "admin"]]
    BY <1>3 DEF Restart, TypeOK, RootAdminStays
  <2>2. PICK p : p \in Password
    BY <2>1 DEF Account
  <2>3. /\ [users[Root] EXCEPT !.role = "admin"] \in Account
        /\ [users[Root] EXCEPT !.role = "admin"].role = "admin"
    BY <2>1, <2>2, AccountUpdate DEF Role
  <2>4. users' \in [Name -> Account \cup {None}] /\ RootAdminStays'
    BY <2>1, <2>3 DEF TypeOK, RootAdminStays
  <2>5. TypeOK' /\ CallHasUser'
    BY <1>3, <2>4 DEF Restart, TypeOK, CallHasUser, Fresh, Done
  <2>6. FinishedDeletionRevokes'
    BY <1>3 DEF Restart, FinishedDeletionRevokes
  <2> QED BY <2>4, <2>5, <2>6
<1> QED BY <1>1, <1>2, <1>3

-----------------------------------------------------------------------------
(* Theorems                                                                *)

\* Types, the administrator's account and the promise of a finished deletion
\* hold together, whatever calls overlap, with restarts at every step.
THEOREM AuthInvariant == Spec => []Inv
<1>1. Inv /\ [Next]_vars => Inv'
  <2> SUFFICES ASSUME Inv, [Next]_vars PROVE Inv'
    OBVIOUS
  <2>1. CASE UNCHANGED vars
    BY <2>1 DEF vars, Inv, TypeOK, CallHasUser, RootAdminStays, FinishedDeletionRevokes
  <2>2. ASSUME NEW r \in Request, Admin(r) PROVE Inv'
    BY <2>2, CreationKeeps, ChangeKeeps DEF Admin
  <2>3. ASSUME NEW r \in Request, Own(r) PROVE Inv'
    BY <2>3, LoginKeeps, OwnerKeeps DEF Own
  <2> QED BY <2>1, <2>2, <2>3, EnvironmentKeeps DEF Next
<1> QED BY <1>1, Initially, PTL DEF Spec

\* The account "admin" stays, with its role (updateUser and deleteUser refuse
\* it, createUser cannot replace it).
THEOREM RootAdminIsKept == Spec => []RootAdminStays
<1>1. Inv => RootAdminStays
  BY DEF Inv
<1> QED BY <1>1, AuthInvariant, PTL

\* A deletion that has finished has revoked every token handed out before it
\* (deleteUser deletes the row first and the sessions after it).
THEOREM DeletionRevokes == Spec => []FinishedDeletionRevokes
<1>1. Inv => FinishedDeletionRevokes
  BY DEF Inv
<1> QED BY <1>1, AuthInvariant, PTL

\* The nightly clean-up deletes no session that sessionForToken would accept.
THEOREM CleanupSpares == Spec => CleanupSparesHonoured
<1>1. Inv /\ [Next]_vars => [CleanupExpiredSessions => \A s \in sessions : Honoured(s) => s \in sessions']_vars
  <2> SUFFICES ASSUME Inv, CleanupExpiredSessions, NEW s \in sessions, Honoured(s)
               PROVE  s \in sessions'
    OBVIOUS
  <2>1. s.at \in Int /\ now \in Int /\ s.at >= now - Ttl
    BY DEF Inv, TypeOK, Session, Honoured
  <2> QED BY <2>1 DEF CleanupExpiredSessions
<1> QED BY <1>1, AuthInvariant, PTL DEF Spec, CleanupSparesHonoured
=============================================================================
