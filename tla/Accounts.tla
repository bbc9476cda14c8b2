------------------------------ MODULE Accounts ------------------------------
(***************************************************************************)
(* Accounts and their sessions: logins that verify a password first and    *)
(* then open a session in a transaction of their own, the devices of an    *)
(* account, and what the super administrator does to accounts.             *)
(*                                                                         *)
(* A login transaction is SERIALIZABLE and updates the Account row         *)
(* (lastLoginAt). It reads the rows of the moment it began, and the        *)
(* database aborts it when a row it writes has been written since. Every   *)
(* other transaction holds the Account row's lock from its first statement *)
(* or writes sessions only, and is one step here.                          *)
(***************************************************************************)
EXTENDS Naturals

CONSTANTS
    Account,      \* accounts that exist or may be created
    SuperAdmin,   \* the one whose name is configured as super administrator
    Device,       \* devices somebody may be logging in from
    Attempts,     \* how often serializable() tries a transaction
    MaxSessions,  \* bound: sessions that are ever opened
    MaxPassword   \* bound: passwords an account may get, one after another

ASSUME AccountAssumption ==
    /\ SuperAdmin \in Account
    /\ Attempts \in Nat \ {0}
    /\ MaxSessions \in Nat \ {0}
    /\ MaxPassword \in Nat \ {0}

VARIABLES
    account,   \* the Account rows; a password hash is the number of the password
    session,   \* the live AccountSession rows, in the order they are created
    opened,    \* how many have been created
    login      \* the logins under way

accountVars == <<account, session, opened, login>>

Session == 1..MaxSessions

AccountRow == [status : {"NONE", "ACTIVE", "DISABLED", "DELETED"}, password : Nat]

\* "password": the one its login has verified. A row that is revoked,
\* expired or deleted decides nothing any more: it reads like one that was
\* never written
SessionRow == [account : Account, password : Nat, live : BOOLEAN]

\* VERIFIED: the password was right when it was read; BEGUN: the transaction
\* has its view, in "sees" the live sessions; "stale": a row it writes has
\* been written since
LoginRow == [stage : {"IDLE", "VERIFIED", "BEGUN"}, replaces : BOOLEAN,
             account : Account, password : Nat, tries : Nat,
             sees : SUBSET Session, stale : BOOLEAN]

NoLogin == [stage |-> "IDLE", replaces |-> FALSE, account |-> SuperAdmin,
            password |-> 0, tries |-> 0, sees |-> {}, stale |-> FALSE]

NoSession == [account |-> SuperAdmin, password |-> 0, live |-> FALSE]

\* the super administrator is logged in, the others have accounts or none
AccountsInit ==
    /\ account \in [Account -> {[status |-> "ACTIVE", password |-> 1],
                                [status |-> "NONE", password |-> 0]}]
    /\ account[SuperAdmin].status = "ACTIVE"
    /\ session = [s \in Session |->
           IF s = 1 THEN [account |-> SuperAdmin, password |-> 1, live |-> TRUE]
           ELSE NoSession]
    /\ opened = 1
    /\ login = [d \in Device |-> NoLogin]

\* activeSessionWhere
Live(a) == {s \in Session : session[s].live /\ session[s].account = a}

\* authenticate: the session of a request is live and its account active
Authenticated(s) ==
    /\ session[s].live
    /\ account[session[s].account].status = "ACTIVE"

\* ensureAdminActor
AdminActor == \E s \in Live(SuperAdmin) : Authenticated(s)

Exists(a) == account[a].status \in {"ACTIVE", "DISABLED"}

Oldest(sees, s) == s \in sees /\ \A t \in sees : s <= t

\* the logins that have begun find the Account row written, and those that
\* are to revoke a session find it revoked by somebody else
RowWritten(a, logins) ==
    [d \in Device |-> IF logins[d].stage = "BEGUN" /\ logins[d].account = a
                      THEN [logins[d] EXCEPT !.stale = TRUE] ELSE logins[d]]

SessionsWritten(which) ==
    [d \in Device |->
        IF /\ login[d].stage = "BEGUN"
           /\ login[d].replaces
           /\ \E s \in which : Oldest(login[d].sees, s)
        THEN [login[d] EXCEPT !.stale = TRUE] ELSE login[d]]

\* the sessions without some that have ended
Without(which) == [s \in Session |-> IF s \in which THEN NoSession ELSE session[s]]

-----------------------------------------------------------------------------
(* Logging in.                                                             *)

\* login and replaceOldestSession: the account is read and the password
\* verified before the transaction begins
VerifyPassword(d, a, replaces) ==
    /\ login[d].stage = "IDLE"
    /\ account[a].status = "ACTIVE"
    /\ login' = [login EXCEPT ![d] =
           [NoLogin EXCEPT !.stage = "VERIFIED", !.replaces = replaces, !.account = a,
                           !.password = account[a].password]]
    /\ UNCHANGED <<account, session, opened>>

EntitledByStatus(d) == account[login[d].account].status = "ACTIVE"

StillEntitled(d) ==
    /\ account[login[d].account].status = "ACTIVE"
    /\ account[login[d].account].password = login[d].password

\* the first statements of the transaction: the account again, and the live
\* sessions
BeginLogin(d) ==
    /\ login[d].stage = "VERIFIED"
    /\ login' = IF StillEntitled(d)
                THEN [login EXCEPT ![d].stage = "BEGUN", ![d].stale = FALSE,
                                   ![d].sees = Live(login[d].account)]
                ELSE [login EXCEPT ![d] = NoLogin]
    /\ UNCHANGED <<account, session, opened>>

AtLimitOff(d) == \E s, t, u \in login[d].sees : s # t /\ t # u /\ s # u

\* active.length >= 2
AtLimit(d) == \E s, t \in login[d].sees : s # t

\* createSession, and the Account row
OpenSession(d, ended) ==
    /\ opened < MaxSessions
    /\ opened' = opened + 1
    /\ session' = [ended EXCEPT ![opened + 1] =
           [account |-> login[d].account, password |-> login[d].password, live |-> TRUE]]
    /\ login' = RowWritten(login[d].account, [login EXCEPT ![d] = NoLogin])
    /\ UNCHANGED account

\* login: a third device is told of the two that are logged in
RefuseAtLimit(d) ==
    /\ login[d].stage = "BEGUN"
    /\ ~ login[d].replaces
    /\ AtLimit(d)
    /\ login' = [login EXCEPT ![d] = NoLogin]
    /\ UNCHANGED <<account, session, opened>>

CommitLogin(d) ==
    /\ login[d].stage = "BEGUN"
    /\ ~ login[d].replaces
    /\ ~ login[d].stale
    /\ ~ AtLimit(d)
    /\ OpenSession(d, session)

\* replaceOldestSession
CommitReplacement(d) ==
    /\ login[d].stage = "BEGUN"
    /\ login[d].replaces
    /\ ~ login[d].stale
    /\ \E s \in login[d].sees :
         /\ Oldest(login[d].sees, s)
         /\ OpenSession(d, Without({s}))

\* SESSION_NOT_FOUND
RefuseReplacement(d) ==
    /\ login[d].stage = "BEGUN"
    /\ login[d].replaces
    /\ login[d].sees = {}
    /\ login' = [login EXCEPT ![d] = NoLogin]
    /\ UNCHANGED <<account, session, opened>>

\* the database aborts the transaction; serializable() tries it again
AbortLogin(d) ==
    /\ login[d].stage = "BEGUN"
    /\ login' = IF login[d].tries + 1 < Attempts
                THEN [login EXCEPT ![d].stage = "VERIFIED", ![d].sees = {},
                                   ![d].stale = FALSE, ![d].tries = @ + 1]
                ELSE [login EXCEPT ![d] = NoLogin]
    /\ UNCHANGED <<account, session, opened>>

-----------------------------------------------------------------------------
(* The devices of an account.                                              *)

Expire(s) ==
    /\ session[s].live
    /\ session' = Without({s})
    /\ UNCHANGED <<account, opened, login>>

\* sessions end because somebody wants it, and nothing else is written
Revoke(which) ==
    /\ session' = Without(which)
    /\ login' = SessionsWritten(which)
    /\ UNCHANGED <<account, opened>>

\* revokeSession: s ends t, which may be s itself (logout)
RevokeSession(s, t) ==
    /\ Authenticated(s)
    /\ t \in Live(session[s].account)
    /\ Revoke({t})

LogoutOthers(s) ==
    /\ Authenticated(s)
    /\ Live(session[s].account) # {s}
    /\ Revoke(Live(session[s].account) \ {s})

-----------------------------------------------------------------------------
(* The administrator's writes: executeAdminWrite locks the Account row,    *)
(* checks the actor, authorises and changes.                               *)

\* resetAccountPassword
PasswordReset(a) ==
    /\ account[a].password < MaxPassword
    /\ account' = [account EXCEPT ![a].password = @ + 1]
    /\ session' = Without(Live(a))
    /\ login' = RowWritten(a, login)
    /\ UNCHANGED opened

ResetPassword(a) ==
    /\ AdminActor
    /\ Exists(a)
    /\ PasswordReset(a)

\* the command line of the operators, without a session
ResetSuperAdminPassword ==
    /\ account[SuperAdmin].status = "ACTIVE"
    /\ PasswordReset(SuperAdmin)

CreateAccount(a) ==
    /\ AdminActor
    /\ account[a].status = "NONE"
    /\ account' = [account EXCEPT ![a] = [status |-> "ACTIVE", password |-> 1]]
    /\ UNCHANGED <<session, opened, login>>

\* updateAccount: name, note and the right to create rooms
UpdateAccount(a) ==
    /\ AdminActor
    /\ Exists(a)
    /\ login' = RowWritten(a, login)
    /\ UNCHANGED <<account, session, opened>>

DisableAccount(a) ==
    /\ AdminActor
    /\ a # SuperAdmin
    /\ account[a].status = "ACTIVE"
    /\ account' = [account EXCEPT ![a].status = "DISABLED"]
    /\ session' = Without(Live(a))
    /\ login' = RowWritten(a, login)
    /\ UNCHANGED opened

EnableAccount(a) ==
    /\ AdminActor
    /\ account[a].status = "DISABLED"
    /\ account' = [account EXCEPT ![a].status = "ACTIVE"]
    /\ login' = RowWritten(a, login)
    /\ UNCHANGED <<session, opened>>

\* deleteAccount: the sessions go with the row; "blocked" by memberships,
\* rooms and settlements that name the account
DeleteAccount(a, blocked) ==
    /\ AdminActor
    /\ Exists(a)
    /\ a # SuperAdmin
    /\ ~ blocked
    /\ account' = [account EXCEPT ![a].status = "DELETED"]
    /\ session' = Without(Live(a))
    /\ login' = RowWritten(a, login)
    /\ UNCHANGED opened

\* revokeAccountSession
RevokeAccountSession(s) ==
    /\ AdminActor
    /\ session[s].live
    /\ Exists(session[s].account)
    /\ Revoke({s})

-----------------------------------------------------------------------------
LoginStep(d) ==
    \/ \E a \in Account, replaces \in BOOLEAN : VerifyPassword(d, a, replaces)
    \/ BeginLogin(d)
    \/ RefuseAtLimit(d)
    \/ CommitLogin(d)
    \/ CommitReplacement(d)
    \/ RefuseReplacement(d)
    \/ AbortLogin(d)

SessionStep ==
    \/ \E s \in Session : Expire(s) \/ LogoutOthers(s) \/ RevokeAccountSession(s)
    \/ \E s, t \in Session : RevokeSession(s, t)

AccountAdminStep(a) ==
    \/ ResetPassword(a)
    \/ CreateAccount(a)
    \/ UpdateAccount(a)
    \/ DisableAccount(a)
    \/ EnableAccount(a)
    \/ \E blocked \in BOOLEAN : DeleteAccount(a, blocked)

AccountsNext ==
    \/ \E d \in Device : LoginStep(d)
    \/ SessionStep
    \/ \E a \in Account : AccountAdminStep(a)
    \/ ResetSuperAdminPassword

AccountsSpec == AccountsInit /\ [][AccountsNext]_accountVars

-----------------------------------------------------------------------------
\* Types of accounts, sessions and logins.
AccountsTypeOK ==
    /\ account \in [Account -> AccountRow]
    /\ session \in [Session -> SessionRow]
    /\ opened \in 0..MaxSessions
    /\ login \in [Device -> LoginRow]

\* Whatever logs in, replaces, expires and is reset at the same time, an
\* account never has three live sessions: the count a login makes is still
\* right when its session is committed.
AtMostTwoSessions ==
    \A a \in Account : \A s, t, u \in Live(a) : s = t \/ t = u \/ s = u

\* A live session belongs to an active account and was opened with its
\* present password: a login that verified the old password, or began before
\* the account was disabled or deleted, opens nothing.
SessionsAreEntitled ==
    \A s \in Session : session[s].live =>
      /\ account[session[s].account].status = "ACTIVE"
      /\ session[s].password = account[session[s].account].password
=============================================================================
