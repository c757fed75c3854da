------------------------------ MODULE AuthSessions ------------------------------
(***************************************************************************)
(* AuthService behind AuthController and UserController: accounts, login   *)
(* tokens and their expiry.  Every call is a sequence of separate          *)
(* statements on H2 without a transaction, so the calls of two request     *)
(* threads interleave between statements.                                  *)
(*                                                                         *)
(* A Request is one HTTP call; the token a login hands out is named after  *)
(* the request, so their number bounds the logins of a run.                *)
(***************************************************************************)
EXTENDS Integers, FiniteSets

CONSTANTS
  Request,     \* HTTP calls
  Name,        \* account names
  Root,        \* "admin"
  Password,
  Ttl,         \* dbagent.auth.session-ttl-days, in clock ticks
  MaxTime,     \* bound on the clock
  MaxMade,     \* bound on the accounts created and the restarts
  None

ASSUME RootAssumption == Root \in Name
ASSUME TimeAssumption == Ttl \in Nat /\ MaxTime \in Nat /\ MaxMade \in Nat
ASSUME NoneAssumption == None \notin Name \cup Password

VARIABLES
  now,
  users,      \* rows of users; made tells the successive accounts of a name apart
  sessions,   \* rows of sessions
  request,    \* the calls under way, between two of their statements
  made        \* how many accounts were made so far, restarts included

vars == <<now, users, sessions, request, made>>

-----------------------------------------------------------------------------
Role == {"admin", "user"}
Account == [role : Role, password : Password, made : 0..MaxMade]
ASSUME NoAccountAssumption == None \notin Account

\* late marks, for the properties, a row inserted when the account whose
\* password was checked had gone.
Session == [token : Request, user : Name, at : 0..MaxTime, made : 0..MaxMade, late : BOOLEAN]

Fresh == [pc |-> "new", user |-> None, made |-> 0]
Done == [pc |-> "done", user |-> None, made |-> 0]

Honoured(s) == s.at >= now - Ttl
\* sessionForToken: the session, inside its TTL, joined with its account.
Opens(t, n) == \E s \in sessions : s.token = t /\ s.user = n /\ Honoured(s) /\ users[n] # None
IsAdmin(t) == \E n \in Name : Opens(t, n) /\ users[n].role = "admin"

TypeOK ==
  /\ now \in 0..MaxTime
  /\ users \in [Name -> Account \cup {None}]
  /\ sessions \subseteq Session
  /\ request \in [Request -> [pc : {"new", "login", "setPassword", "admin", "insert", "dropSessions", "done"},
                              user : Name \cup {None}, made : 0..MaxMade]]
  /\ made \in 0..MaxMade

\* A database on its first start: init has just made the administrator.
Init ==
  /\ now = 0
  /\ \E p \in Password : users = [n \in Name |->
       IF n = Root THEN [role |-> "admin", password |-> p, made |-> 0] ELSE None]
  /\ sessions = {}
  /\ request = [r \in Request |-> Fresh]
  /\ made = 0

-----------------------------------------------------------------------------
(* login                                                                   *)

LoginRead(r, n, p) ==
  /\ request[r].pc = "new"
  /\ users[n] # None /\ users[n].password = p
  /\ request' = [request EXCEPT ![r] = [pc |-> "login", user |-> n, made |-> users[n].made]]
  /\ UNCHANGED <<now, users, sessions, made>>

\* The row is inserted for the name, whatever became of the account meanwhile.
LoginInsert(r) ==
  /\ request[r].pc = "login"
  /\ LET n == request[r].user
         gone == users[n] = None \/ users[n].made # request[r].made
     IN sessions' = sessions \cup
          {[token |-> r, user |-> n, at |-> now, made |-> request[r].made, late |-> gone]}
  /\ request' = [request EXCEPT ![r] = Done]
  /\ UNCHANGED <<now, users, made>>

Logout(t) ==
  /\ sessions' = {s \in sessions : s.token # t}
  /\ UNCHANGED <<now, users, request, made>>

\* changePassword: the token and the current password are checked, then the row is updated.
ChangePasswordRead(r, t, n, p) ==
  /\ request[r].pc = "new"
  /\ Opens(t, n) /\ users[n].password = p
  /\ request' = [request EXCEPT ![r] = [pc |-> "setPassword", user |-> n, made |-> users[n].made]]
  /\ UNCHANGED <<now, users, sessions, made>>

ChangePasswordWrite(r, p) ==
  /\ request[r].pc = "setPassword"
  /\ LET n == request[r].user
     IN users' = IF users[n] = None THEN users ELSE [users EXCEPT ![n].password = p]
  /\ request' = [request EXCEPT ![r] = Done]
  /\ UNCHANGED <<now, sessions, made>>

-----------------------------------------------------------------------------
(* UserController: isAdmin(token), then the call                           *)

AdminCheck(r, t) ==
  /\ request[r].pc = "new"
  /\ IsAdmin(t)
  /\ request' = [request EXCEPT ![r] = [pc |-> "admin", user |-> None, made |-> 0]]
  /\ UNCHANGED <<now, users, sessions, made>>

CreateCount(r, n) ==
  /\ request[r].pc = "admin"
  /\ users[n] = None
  /\ request' = [request EXCEPT ![r] = [pc |-> "insert", user |-> n, made |-> 0]]
  /\ UNCHANGED <<now, users, sessions, made>>

\* The INSERT fails on the primary key when another call was faster.
CreateInsert(r, role, p) ==
  /\ request[r].pc = "insert"
  /\ LET n == request[r].user
     IN IF users[n] # None THEN UNCHANGED <<users, made>>
        ELSE /\ made < MaxMade
             /\ made' = made + 1
             /\ users' = [users EXCEPT ![n] = [role |-> role, password |-> p, made |-> made + 1]]
  /\ request' = [request EXCEPT ![r] = Done]
  /\ UNCHANGED <<now, sessions>>

\* Mutant: the administrator's account may be changed like any other.
UpdateAnyUser(r, n, role) ==
  /\ request[r].pc = "admin"
  /\ users[n] # None
  /\ users' = [users EXCEPT ![n].role = role]
  /\ request' = [request EXCEPT ![r] = Done]
  /\ UNCHANGED <<now, sessions, made>>

UpdateUser(r, n, role) ==
  /\ request[r].pc = "admin"
  /\ n # Root
  /\ users[n] # None
  /\ users' = [users EXCEPT ![n].role = role]
  /\ request' = [request EXCEPT ![r] = Done]
  /\ UNCHANGED <<now, sessions, made>>

DeleteUserRow(r, n) ==
  /\ request[r].pc = "admin"
  /\ n # Root
  /\ users[n] # None
  /\ users' = [users EXCEPT ![n] = None]
  /\ request' = [request EXCEPT ![r] = [pc |-> "dropSessions", user |-> n, made |-> 0]]
  /\ UNCHANGED <<now, sessions, made>>

\* Mutant: the sessions of a deleted account are left.
LeaveSessions(r) ==
  /\ request[r].pc = "dropSessions"
  /\ request' = [request EXCEPT ![r] = Done]
  /\ UNCHANGED <<now, users, sessions, made>>

DeleteSessions(r) ==
  /\ request[r].pc = "dropSessions"
  /\ sessions' = {s \in sessions : s.user # request[r].user}
  /\ request' = [request EXCEPT ![r] = Done]
  /\ UNCHANGED <<now, users, made>>

-----------------------------------------------------------------------------
(* The clock, the nightly clean-up and a restart                           *)

Tick == now < MaxTime /\ now' = now + 1 /\ UNCHANGED <<users, sessions, request, made>>

\* Mutant: the last instant of a session is cleaned up.
CleanupLastInstant ==
  /\ sessions' = {s \in sessions : s.at > now - Ttl}
  /\ UNCHANGED <<now, users, request, made>>

CleanupExpiredSessions ==
  /\ sessions' = {s \in sessions : ~(s.at < now - Ttl)}
  /\ UNCHANGED <<now, users, request, made>>

\* A crash or stop between two statements ends every call; init resets every
\* session and restores the role of the administrator.
Restart ==
  /\ made < MaxMade
  /\ made' = made + 1
  /\ sessions' = {}
  /\ users' = [users EXCEPT ![Root].role = "admin"]
  /\ request' = [r \in Request |-> IF request[r].pc = "new" THEN Fresh ELSE Done]
  /\ UNCHANGED now

Admin(r) ==
  \/ \E t \in Request : AdminCheck(r, t)
  \/ \E n \in Name : \/ CreateCount(r, n)
                     \/ DeleteUserRow(r, n)
                     \/ \E role \in Role : UpdateUser(r, n, role)
  \/ \E role \in Role, p \in Password : CreateInsert(r, role, p)
  \/ DeleteSessions(r)
Own(r) ==
  \/ \E n \in Name, p \in Password :
       LoginRead(r, n, p) \/ \E t \in Request : ChangePasswordRead(r, t, n, p)
  \/ LoginInsert(r)
  \/ \E p \in Password : ChangePasswordWrite(r, p)
  \/ Logout(r)

Next == Tick \/ CleanupExpiredSessions \/ Restart \/ \E r \in Request : Admin(r) \/ Own(r)
Spec == Init /\ [][Next]_vars

-----------------------------------------------------------------------------
(* Properties                                                              *)

\* Once a deletion has finished, a token of the deleted account is left only if
\* its login was itself overtaken by the deletion; a login that was over before
\* can never come back, even when the name is given to a new account.
FinishedDeletionRevokes ==
  \A s \in sessions :
    \/ users[s.user] # None /\ users[s.user].made = s.made
    \/ s.late
    \/ \E r \in Request : request[r].pc = "dropSessions" /\ request[r].user = s.user

\* The account "admin" exists and has the role admin whatever administrators,
\* their overlapping calls and restarts do: nobody can lock everyone out.
RootAdminStays == users[Root] # None /\ users[Root].role = "admin"

\* The clean-up and the check of a token agree on the last instant of a
\* session: a token is refused before its row may be deleted by time.
CleanupSparesHonoured ==
  [][CleanupExpiredSessions => \A s \in sessions : Honoured(s) => s \in sessions']_vars
=============================================================================
