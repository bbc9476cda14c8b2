------------------------------ MODULE AccountRoomProof -----------------------------
(***************************************************************************)
(* Proofs about what AccountRoomService keeps. Accounts, for every set of  *)
(* accounts and devices: types, at most two sessions, and that every live  *)
(* session is still entitled. RoomSeats, for every set of members and      *)
(* characters and every player limit: types, the agreement of memberships  *)
(* and players, the bank, the palaces of the characters, and that swaps do *)
(* what was agreed. RoomTrash, for every set of rooms and every batch: the *)
(* cleaner deletes nothing that was restored.                              *)
(***************************************************************************)
EXTENDS Accounts, RoomSeats, RoomTrash, FiniteSetTheorems, SequenceTheorems, TLAPS

-----------------------------------------------------------------------------
(* Accounts and sessions                                                   *)


\* of three that are in a set of at most two, two are the same
AtMostTwoOf(S) == \A s, t, u \in S : s = t \/ t = u \/ s = u

\* no session is live before it is opened
UnopenedAreDead == \A s \in Session : s > opened => ~ session[s].live

\* what a login in its transaction still knows, as long as nobody has
\* written its account
ViewHolds(d) ==
    /\ account[login[d].account].status = "ACTIVE"
    /\ account[login[d].account].password = login[d].password
    /\ Live(login[d].account) \subseteq login[d].sees

ViewsHold ==
    \A d \in Device : login[d].stage = "BEGUN" =>
      /\ AtMostTwoOf(login[d].sees)
      /\ ~ login[d].stale => ViewHolds(d)

AccountsInv ==
    /\ AccountsTypeOK
    /\ AtMostTwoSessions
    /\ SessionsAreEntitled
    /\ UnopenedAreDead
    /\ ViewsHold

-----------------------------------------------------------------------------
LEMMA InitAccountsInv == AccountsInit => AccountsInv
  <1> SUFFICES ASSUME AccountsInit PROVE AccountsInv
      OBVIOUS
  <1> USE AccountAssumption DEF AccountsInit, Session
  <1>1. AccountsTypeOK
      BY DEF AccountsTypeOK, AccountRow, SessionRow, LoginRow, NoLogin, NoSession
  <1>2. AtMostTwoSessions
      BY DEF AtMostTwoSessions, Live, NoSession
  <1>3. SessionsAreEntitled
      BY DEF SessionsAreEntitled, NoSession
  <1>4. UnopenedAreDead
      BY DEF UnopenedAreDead, NoSession
  <1>5. ViewsHold
      BY DEF ViewsHold, NoLogin
  <1> QED
      BY <1>1, <1>2, <1>3, <1>4, <1>5 DEF AccountsInv

\* sessions only end, and the logins that have begun stay as they are or
\* become stale
EndsSessions ==
    /\ \A s \in Session : session'[s] = session[s] \/ session'[s] = NoSession
    /\ opened' = opened

KeepsViews ==
    \A d \in Device : login'[d].stage = "BEGUN" =>
      /\ login[d].stage = "BEGUN"
      /\ login'[d].account = login[d].account
      /\ login'[d].password = login[d].password
      /\ login'[d].sees = login[d].sees
      /\ ~ login'[d].stale => ~ login[d].stale

\* the accounts that change are those of no live session and no login that
\* is not stale
KeepsAccounts ==
    /\ \A s \in Session : session'[s].live =>
         account'[session[s].account] = account[session[s].account]
    /\ \A d \in Device : login'[d].stage = "BEGUN" /\ ~ login'[d].stale =>
         account'[login[d].account] = account[login[d].account]

\* a step in which sessions only end keeps everything but the types
LEMMA EndingKeepsInv ==
  ASSUME AccountsInv, AccountsTypeOK', EndsSessions, KeepsViews, KeepsAccounts
  PROVE  AccountsInv'
  <1> USE DEF AccountsInv, EndsSessions
  <1>1. \A s \in Session : session'[s].live => session'[s] = session[s]
      BY DEF NoSession
  <1>2. \A a \in Account : Live(a)' \subseteq Live(a)
      BY <1>1 DEF Live
  <1>3. AtMostTwoSessions'
      BY <1>2 DEF AtMostTwoSessions
  <1>4. SessionsAreEntitled'
      BY <1>1 DEF SessionsAreEntitled, KeepsAccounts
  <1>5. UnopenedAreDead'
      BY <1>1 DEF UnopenedAreDead
  <1>6. ViewsHold'
    <2> SUFFICES ASSUME NEW d \in Device, login'[d].stage = "BEGUN"
                 PROVE  /\ AtMostTwoOf(login'[d].sees)
                        /\ ~ login'[d].stale => ViewHolds(d)'
        BY DEF ViewsHold
    <2>1. /\ login[d].stage = "BEGUN"
          /\ login'[d].account = login[d].account
          /\ login'[d].password = login[d].password
          /\ login'[d].sees = login[d].sees
          /\ ~ login'[d].stale => ~ login[d].stale
        BY DEF KeepsViews
    <2>2. AtMostTwoOf(login'[d].sees)
        BY <2>1 DEF ViewsHold
    <2>4. ASSUME ~ login'[d].stale PROVE ViewHolds(d)'
      <3>1. ViewHolds(d)
          BY <2>1, <2>4 DEF ViewsHold
      <3>2. account'[login[d].account] = account[login[d].account]
          BY <2>4 DEF KeepsAccounts
      <3> QED
          BY <1>1, <2>1, <3>1, <3>2 DEF ViewHolds, Live
    <2> QED
        BY <2>2, <2>4
  <1> QED
      BY <1>3, <1>4, <1>5, <1>6

-----------------------------------------------------------------------------
(* Logging in.                                                             *)

LEMMA VerifyKeepsInv ==
  ASSUME AccountsInv, NEW d \in Device, NEW a \in Account, NEW replaces \in BOOLEAN,
         VerifyPassword(d, a, replaces)
  PROVE  AccountsInv'
  <1> USE DEF AccountsInv, VerifyPassword
  <1>1. AccountsTypeOK'
      BY AccountAssumption DEF AccountsTypeOK, AccountRow, LoginRow, NoLogin
  <1>2. EndsSessions
      BY DEF EndsSessions
  <1>3. login'[d].stage # "BEGUN" /\ \A e \in Device \ {d} : login'[e] = login[e]
      BY DEF AccountsTypeOK, NoLogin
  <1> QED
      BY <1>1, <1>2, <1>3, EndingKeepsInv DEF KeepsViews, KeepsAccounts

\* refusals and aborts: the login of d ends or starts again
LEMMA GivingUpKeepsInv ==
  ASSUME AccountsInv, NEW d \in Device, NEW row \in LoginRow, row.stage # "BEGUN",
         login' = [login EXCEPT ![d] = row], UNCHANGED <<account, session, opened>>
  PROVE  AccountsInv'
  <1> USE DEF AccountsInv
  <1>1. AccountsTypeOK'
      BY DEF AccountsTypeOK
  <1>2. EndsSessions
      BY DEF EndsSessions
  <1>3. login'[d].stage # "BEGUN" /\ \A e \in Device \ {d} : login'[e] = login[e]
      BY DEF AccountsTypeOK
  <1> QED
      BY <1>1, <1>2, <1>3, EndingKeepsInv DEF KeepsViews, KeepsAccounts

LEMMA NoLoginType == NoLogin \in LoginRow /\ NoLogin.stage # "BEGUN"
  BY AccountAssumption DEF NoLogin, LoginRow

LEMMA RefusalsKeepInv ==
  ASSUME AccountsInv, NEW d \in Device, RefuseAtLimit(d) \/ RefuseReplacement(d)
  PROVE  AccountsInv'
  BY NoLoginType, GivingUpKeepsInv DEF RefuseAtLimit, RefuseReplacement

LEMMA AbortKeepsInv ==
  ASSUME AccountsInv, NEW d \in Device, AbortLogin(d)
  PROVE  AccountsInv'
  <1> DEFINE again == [login[d] EXCEPT !.stage = "VERIFIED", !.sees = {}, !.stale = FALSE,
                                       !.tries = @ + 1]
  <1>0. login[d] \in LoginRow /\ login \in [Device -> LoginRow]
      BY DEF AccountsInv, AccountsTypeOK
  <1>1. again \in LoginRow /\ again.stage # "BEGUN"
    <2>1. login[d].tries + 1 \in Nat
        BY <1>0 DEF LoginRow
    <2>2. again = [login[d] EXCEPT !.stage = "VERIFIED", !.sees = {}, !.stale = FALSE,
                                   !.tries = login[d].tries + 1]
        OBVIOUS
    <2> QED
        BY <1>0, <2>1, <2>2 DEF LoginRow
  <1>2. UNCHANGED <<account, session, opened>>
      BY DEF AbortLogin
  <1>3. CASE login[d].tries + 1 < Attempts
    <2>1. login' = [login EXCEPT ![d] = again]
        BY <1>0, <1>3 DEF AbortLogin
    <2> QED
        BY <1>1, <1>2, <2>1, GivingUpKeepsInv
  <1>4. CASE ~ (login[d].tries + 1 < Attempts)
      BY <1>2, <1>4, NoLoginType, GivingUpKeepsInv DEF AbortLogin
  <1> QED
      BY <1>3, <1>4

LEMMA BeginKeepsInv ==
  ASSUME AccountsInv, NEW d \in Device, BeginLogin(d)
  PROVE  AccountsInv'
  <1> USE DEF AccountsInv
  <1>1. CASE ~ StillEntitled(d)
      BY <1>1, NoLoginType, GivingUpKeepsInv DEF BeginLogin
  <1>2. CASE StillEntitled(d)
    <2> DEFINE begun == [login[d] EXCEPT !.stage = "BEGUN", !.stale = FALSE,
                                         !.sees = Live(login[d].account)]
    <2>1. login[d] \in LoginRow /\ login \in [Device -> LoginRow]
        BY DEF AccountsTypeOK
    <2>2. login' = [login EXCEPT ![d] = begun] /\ UNCHANGED <<account, session, opened>>
        BY <1>2, <2>1 DEF BeginLogin
    <2>3. begun \in LoginRow
        BY <2>1 DEF LoginRow, Live
    <2>4. AccountsTypeOK'
        BY <2>1, <2>2, <2>3 DEF AccountsTypeOK
    <2>5. \A a : Live(a)' = Live(a)
        BY <2>2 DEF Live
    <2>6. AtMostTwoSessions' /\ SessionsAreEntitled' /\ UnopenedAreDead'
        BY <2>2, <2>5 DEF AtMostTwoSessions, SessionsAreEntitled, UnopenedAreDead
    <2>7. ASSUME NEW e \in Device, login'[e].stage = "BEGUN"
          PROVE  AtMostTwoOf(login'[e].sees) /\ (~ login'[e].stale => ViewHolds(e)')
      <3>1. CASE e # d
        <4>1. login'[e] = login[e]
            BY <2>1, <2>2, <3>1
        <4> QED
            BY <2>2, <2>5, <2>7, <4>1 DEF ViewsHold, ViewHolds
      <3>2. CASE e = d
        <4>1. /\ login'[e].account = login[d].account
              /\ login'[e].password = login[d].password
              /\ login'[e].sees = Live(login[d].account)
            BY <2>1, <2>2, <3>2 DEF LoginRow
        <4>2. login[d].account \in Account
            BY <2>1 DEF LoginRow
        <4>3. AtMostTwoOf(Live(login[d].account))
            BY <4>2 DEF AtMostTwoSessions, AtMostTwoOf
        <4>4. ViewHolds(e)'
            BY <1>2, <2>2, <2>5, <4>1 DEF ViewHolds, StillEntitled
        <4> QED
            BY <4>1, <4>3, <4>4
      <3> QED
          BY <3>1, <3>2
    <2> QED
        BY <2>4, <2>6, <2>7 DEF ViewsHold
  <1> QED
      BY <1>1, <1>2

\* a session is opened for the account of d, when some others of it have
\* ended; who else has begun finds the Account row written
LEMMA OpeningKeepsInv ==
  ASSUME AccountsInv, NEW d \in Device, NEW gone \in SUBSET Session,
         login[d].stage = "BEGUN", ~ login[d].stale,
         OpenSession(d, Without(gone)),
         \A s, t \in login[d].sees \ gone : s = t
  PROVE  AccountsInv'
  <1> DEFINE a == login[d].account
             n == opened + 1
             new == [account |-> a, password |-> login[d].password, live |-> TRUE]
  <1> USE DEF AccountsInv
  <1>1. /\ a \in Account /\ login[d].password \in Nat
        /\ n \in Session /\ opened' = n /\ account' = account /\ opened \in Nat
      BY AccountAssumption DEF AccountsTypeOK, LoginRow, OpenSession, Session
  <1>2. new \in SessionRow /\ NoSession \in SessionRow
      BY <1>1, AccountAssumption DEF SessionRow, NoSession
  <1>3. session' = [Without(gone) EXCEPT ![n] = new]
      BY DEF OpenSession
  <1>4. /\ session'[n] = new
        /\ \A s \in Session \ {n} :
             session'[s] = IF s \in gone THEN NoSession ELSE session[s]
      BY <1>1, <1>3 DEF Without
  <1>5. session' \in [Session -> SessionRow]
      BY <1>1, <1>2, <1>3 DEF Without, AccountsTypeOK
  <1>6. ViewHolds(d)
      BY DEF ViewsHold
  <1>7. \A e \in Device : login'[e].stage = "BEGUN" =>
          /\ e # d
          /\ login[e].stage = "BEGUN"
          /\ login'[e].sees = login[e].sees
          /\ ~ login'[e].stale => login'[e] = login[e] /\ login[e].account # a
      BY NoLoginType DEF OpenSession, RowWritten, AccountsTypeOK, LoginRow
  <1>8. login' \in [Device -> LoginRow]
      BY NoLoginType DEF OpenSession, RowWritten, AccountsTypeOK, LoginRow
  <1>9. AccountsTypeOK'
      BY <1>1, <1>5, <1>8 DEF AccountsTypeOK, Session
  <1>10. AtMostTwoSessions'
    <2> SUFFICES ASSUME NEW b \in Account, NEW s \in Live(b)', NEW t \in Live(b)',
                        NEW u \in Live(b)'
                 PROVE  s = t \/ t = u \/ s = u
        BY DEF AtMostTwoSessions
    <2>1. s \in Session /\ t \in Session /\ u \in Session
        BY DEF Live
    <2>2. CASE b = a
      <3>1. \A x \in Live(b)' \ {n} : x \in login[d].sees \ gone
          BY <1>4, <1>6, <2>2 DEF Live, ViewHolds, NoSession
      <3> QED
          BY <3>1
    <2>3. CASE b # a
      <3>1. \A x \in Live(b)' : x \in Live(b)
          BY <1>4, <2>3 DEF Live, NoSession
      <3> QED
          BY <3>1 DEF AtMostTwoSessions
    <2> QED
        BY <2>2, <2>3
  <1>11. SessionsAreEntitled'
      BY <1>1, <1>4, <1>6 DEF SessionsAreEntitled, ViewHolds, NoSession
  <1>12. UnopenedAreDead'
    <2>1. \A s \in Session : s > n => s # n /\ s > opened
        BY <1>1 DEF Session
    <2> QED
        BY <1>1, <1>4, <2>1 DEF UnopenedAreDead, NoSession
  <1>13. ViewsHold'
    <2> SUFFICES ASSUME NEW e \in Device, login'[e].stage = "BEGUN"
                 PROVE  /\ AtMostTwoOf(login'[e].sees)
                        /\ ~ login'[e].stale => ViewHolds(e)'
        BY DEF ViewsHold
    <2>1. AtMostTwoOf(login'[e].sees)
        BY <1>7 DEF ViewsHold
    <2>2. ASSUME ~ login'[e].stale PROVE ViewHolds(e)'
      <3>1. login'[e] = login[e] /\ login[e].account # a /\ ViewHolds(e)
          BY <1>7, <2>2 DEF ViewsHold
      <3>2. \A x \in Session : session'[x].live /\ session'[x].account = login[e].account
              => x \in Live(login[e].account)
          BY <1>4, <3>1 DEF Live, NoSession
      <3> QED
          BY <1>1, <3>1, <3>2 DEF ViewHolds, Live
    <2> QED
        BY <2>1, <2>2
  <1> QED
      BY <1>9, <1>10, <1>11, <1>12, <1>13

LEMMA CommitsKeepInv ==
  ASSUME AccountsInv, NEW d \in Device, CommitLogin(d) \/ CommitReplacement(d)
  PROVE  AccountsInv'
  <1>0. login[d].sees \subseteq Session /\ session = Without({})
      BY DEF AccountsInv, AccountsTypeOK, LoginRow, Without
  <1>1. CASE CommitLogin(d)
    <2>1. \A s, t \in login[d].sees \ {} : s = t
        BY <1>1 DEF CommitLogin, AtLimit
    <2>2. OpenSession(d, Without({}))
        BY <1>0, <1>1 DEF CommitLogin
    <2> QED
        BY <1>1, <2>1, <2>2, OpeningKeepsInv DEF CommitLogin
  <1>2. CASE CommitReplacement(d)
    <2>1. PICK s \in login[d].sees : OpenSession(d, Without({s}))
        BY <1>2 DEF CommitReplacement
    <2>2. AtMostTwoOf(login[d].sees)
        BY <1>2 DEF CommitReplacement, AccountsInv, ViewsHold
    <2>3. \A t, u \in login[d].sees \ {s} : t = u
        BY <2>2 DEF AtMostTwoOf
    <2>4. {s} \in SUBSET Session
        BY <1>0
    <2> QED
        BY <1>2, <2>1, <2>3, <2>4, OpeningKeepsInv DEF CommitReplacement
  <1> QED
      BY <1>1, <1>2

-----------------------------------------------------------------------------
(* Sessions and accounts.                                                  *)

\* the logins whose rows are written
Marked(which) ==
    login' = [e \in Device |-> IF e \in which THEN [login[e] EXCEPT !.stale = TRUE]
                                ELSE login[e]]

\* sessions end and some logins are marked, those of the changed accounts
\* among them
LEMMA MarkingKeepsInv ==
  ASSUME AccountsInv, NEW gone \in SUBSET Session, NEW which \in SUBSET Device,
         Marked(which), session' = Without(gone), opened' = opened,
         account' \in [Account -> AccountRow],
         \A b \in Account : account'[b] # account[b] =>
             /\ Live(b) \subseteq gone
             /\ \A e \in Device : login[e].stage = "BEGUN" /\ login[e].account = b
                  => e \in which \/ login[e].stale
  PROVE  AccountsInv'
  <1> USE DEF AccountsInv
  <1>1. NoSession \in SessionRow
      BY AccountAssumption DEF SessionRow, NoSession
  <1>2. session' \in [Session -> SessionRow]
      BY <1>1 DEF Without, AccountsTypeOK
  <1>3. login' \in [Device -> LoginRow]
      BY DEF Marked, AccountsTypeOK, LoginRow
  <1>4. AccountsTypeOK'
      BY <1>2, <1>3 DEF AccountsTypeOK
  <1>5. EndsSessions
      BY DEF EndsSessions, Without
  <1>6. \A e \in Device :
          /\ login'[e].stage = login[e].stage
          /\ login'[e].account = login[e].account
          /\ login'[e].password = login[e].password
          /\ login'[e].sees = login[e].sees
          /\ ~ login'[e].stale => e \notin which /\ ~ login[e].stale
      BY DEF Marked, AccountsTypeOK, LoginRow
  <1>7. KeepsViews
      BY <1>6 DEF KeepsViews
  <1>8. ASSUME NEW s \in Session, session'[s].live
        PROVE  account'[session[s].account] = account[session[s].account]
    <2>1. s \notin gone /\ session'[s] = session[s]
        BY <1>8 DEF Without, NoSession
    <2>2. s \in Live(session[s].account) /\ session[s].account \in Account
        BY <1>8, <2>1 DEF Live, AccountsTypeOK, SessionRow
    <2> QED
        BY <2>1, <2>2
  <1>9. ASSUME NEW e \in Device, login'[e].stage = "BEGUN", ~ login'[e].stale
        PROVE  account'[login[e].account] = account[login[e].account]
    <2>1. login[e].account \in Account
        BY DEF AccountsTypeOK, LoginRow
    <2> QED
        BY <1>6, <1>9, <2>1
  <1>10. KeepsAccounts
      BY <1>8, <1>9 DEF KeepsAccounts
  <1> QED
      BY <1>4, <1>5, <1>7, <1>10, EndingKeepsInv

\* sessions end and no account is written
LEMMA RevokingKeepsInv ==
  ASSUME AccountsInv, NEW gone \in SUBSET Session,
         session' = Without(gone), UNCHANGED <<account, opened>>,
         login' = login \/ login' = SessionsWritten(gone)
  PROVE  AccountsInv'
  <1> DEFINE which == IF login' = login THEN {} ELSE
                      {e \in Device : /\ login[e].stage = "BEGUN"
                                     /\ login[e].replaces
                                     /\ \E s \in gone : Oldest(login[e].sees, s)}
  <1>1. Marked(which) /\ which \in SUBSET Device
      BY DEF Marked, SessionsWritten, AccountsInv, AccountsTypeOK
  <1>2. account' \in [Account -> AccountRow]
      BY DEF AccountsInv, AccountsTypeOK
  <1> QED
      BY <1>1, <1>2, MarkingKeepsInv

\* the row of one account is written; when it changes, its sessions end
LEMMA WritingKeepsInv ==
  ASSUME AccountsInv, NEW a \in Account, NEW row \in AccountRow, NEW gone \in SUBSET Session,
         account' = [account EXCEPT ![a] = row], opened' = opened,
         session' = Without(gone), login' = RowWritten(a, login),
         row # account[a] => Live(a) \subseteq gone
  PROVE  AccountsInv'
  <1> DEFINE which == {e \in Device : login[e].stage = "BEGUN" /\ login[e].account = a}
  <1>1. Marked(which)
      BY DEF Marked, RowWritten
  <1>2. account' \in [Account -> AccountRow]
      BY DEF AccountsInv, AccountsTypeOK
  <1>3. \A b \in Account : account'[b] # account[b] => b = a /\ Live(b) \subseteq gone
      BY DEF AccountsInv, AccountsTypeOK
  <1> HIDE DEF which
  <1> QED
      BY <1>1, <1>2, <1>3, MarkingKeepsInv DEF which

LEMMA LiveAreSessions == \A a : Live(a) \subseteq Session
  BY DEF Live

LEMMA SessionStepKeepsInv ==
  ASSUME AccountsInv, SessionStep
  PROVE  AccountsInv'
  <1>1. ASSUME NEW s \in Session, Expire(s) PROVE AccountsInv'
      BY <1>1, RevokingKeepsInv DEF Expire
  <1>2. ASSUME NEW s \in Session, LogoutOthers(s) PROVE AccountsInv'
    <2>1. Live(session[s].account) \ {s} \in SUBSET Session
        BY LiveAreSessions
    <2> QED
        BY <1>2, <2>1, RevokingKeepsInv DEF LogoutOthers, Revoke
  <1>3. ASSUME NEW s \in Session, RevokeAccountSession(s) PROVE AccountsInv'
      BY <1>3, RevokingKeepsInv DEF RevokeAccountSession, Revoke
  <1>4. ASSUME NEW s \in Session, NEW t \in Session, RevokeSession(s, t) PROVE AccountsInv'
      BY <1>4, RevokingKeepsInv DEF RevokeSession, Revoke
  <1> QED
      BY <1>1, <1>2, <1>3, <1>4 DEF SessionStep

LEMMA PasswordResetKeepsInv ==
  ASSUME AccountsInv, NEW a \in Account, PasswordReset(a)
  PROVE  AccountsInv'
  <1> DEFINE row == [account[a] EXCEPT !.password = @ + 1]
  <1>1. account[a] \in AccountRow /\ account \in [Account -> AccountRow]
      BY DEF AccountsInv, AccountsTypeOK
  <1>2. row \in AccountRow /\ account' = [account EXCEPT ![a] = row]
      BY <1>1 DEF AccountRow, PasswordReset
  <1> QED
      BY <1>2, LiveAreSessions, WritingKeepsInv DEF PasswordReset

\* the status of a becomes another one
LEMMA StatusKeepsInv ==
  ASSUME AccountsInv, NEW a \in Account, NEW status \in {"ACTIVE", "DISABLED", "DELETED"},
         NEW gone \in SUBSET Session, Live(a) \subseteq gone,
         account' = [account EXCEPT ![a].status = status],
         session' = Without(gone), login' = RowWritten(a, login), opened' = opened
  PROVE  AccountsInv'
  <1> DEFINE row == [account[a] EXCEPT !.status = status]
  <1>1. account[a] \in AccountRow /\ account \in [Account -> AccountRow]
      BY DEF AccountsInv, AccountsTypeOK
  <1>2. row \in AccountRow /\ account' = [account EXCEPT ![a] = row]
      BY <1>1 DEF AccountRow
  <1> QED
      BY <1>2, WritingKeepsInv

\* an account without live sessions has none to end
LEMMA NothingToEnd ==
  ASSUME AccountsInv
  PROVE  /\ session = Without({})
         /\ \A a \in Account : account[a].status # "ACTIVE" => Live(a) = {}
  BY DEF AccountsInv, AccountsTypeOK, Without, Live, SessionsAreEntitled

LEMMA AdminStepKeepsInv ==
  ASSUME AccountsInv, NEW a \in Account, AccountAdminStep(a)
  PROVE  AccountsInv'
  <1>0. account \in [Account -> AccountRow] /\ account[a] \in AccountRow
      BY DEF AccountsInv, AccountsTypeOK
  <1>1. CASE ResetPassword(a)
      BY <1>1, PasswordResetKeepsInv DEF ResetPassword
  <1>2. CASE CreateAccount(a)
    <2> DEFINE row == [status |-> "ACTIVE", password |-> 1]
    <2>1. row \in AccountRow /\ Live(a) = {}
        BY <1>2, NothingToEnd DEF AccountRow, CreateAccount
    <2>2. Marked({}) /\ session' = Without({}) /\ opened' = opened
        BY <1>2, NothingToEnd DEF Marked, CreateAccount, AccountsInv, AccountsTypeOK
    <2>3. account' \in [Account -> AccountRow]
        BY <1>0, <1>2, <2>1 DEF CreateAccount
    <2>4. \A b \in Account : account'[b] # account[b] => b = a
        BY <1>0, <1>2 DEF CreateAccount
    <2>5. \A e \in Device : login[e].stage = "BEGUN" /\ login[e].account = a => login[e].stale
        BY <1>2 DEF CreateAccount, AccountsInv, ViewsHold, ViewHolds
    <2> QED
        BY <2>1, <2>2, <2>3, <2>4, <2>5, MarkingKeepsInv
  <1>3. CASE UpdateAccount(a)
    <2>1. account' = [account EXCEPT ![a] = account[a]]
        BY <1>0, <1>3 DEF UpdateAccount
    <2> QED
        BY <1>0, <1>3, <2>1, NothingToEnd, WritingKeepsInv DEF UpdateAccount
  <1>4. CASE DisableAccount(a)
      BY <1>4, LiveAreSessions, StatusKeepsInv DEF DisableAccount
  <1>5. CASE EnableAccount(a)
    <2>1. Live(a) \subseteq {} /\ session' = Without({})
        BY <1>5, NothingToEnd DEF EnableAccount
    <2> QED
        BY <1>5, <2>1, StatusKeepsInv DEF EnableAccount
  <1>6. ASSUME NEW blocked \in BOOLEAN, DeleteAccount(a, blocked) PROVE AccountsInv'
      BY <1>6, LiveAreSessions, StatusKeepsInv DEF DeleteAccount
  <1> QED
      BY <1>1, <1>2, <1>3, <1>4, <1>5, <1>6 DEF AccountAdminStep

LEMMA NextKeepsAccountsInv == AccountsInv /\ [AccountsNext]_accountVars => AccountsInv'
  <1> SUFFICES ASSUME AccountsInv, [AccountsNext]_accountVars PROVE AccountsInv'
      OBVIOUS
  <1>1. ASSUME NEW d \in Device, LoginStep(d) PROVE AccountsInv'
      BY <1>1, VerifyKeepsInv, BeginKeepsInv, RefusalsKeepInv, CommitsKeepInv, AbortKeepsInv
         DEF LoginStep
  <1>2. CASE SessionStep
      BY <1>2, SessionStepKeepsInv
  <1>3. ASSUME NEW a \in Account, AccountAdminStep(a) PROVE AccountsInv'
      BY <1>3, AdminStepKeepsInv
  <1>4. CASE ResetSuperAdminPassword
      BY <1>4, AccountAssumption, PasswordResetKeepsInv DEF ResetSuperAdminPassword
  <1>5. CASE UNCHANGED accountVars
      BY <1>5 DEF accountVars, AccountsInv, AccountsTypeOK, AtMostTwoSessions, SessionsAreEntitled,
                  UnopenedAreDead, ViewsHold, ViewHolds, Live
  <1> QED
      BY <1>1, <1>2, <1>3, <1>4, <1>5 DEF AccountsNext

\* The inductive invariant holds in every state.
THEOREM AccountsInvHolds == AccountsSpec => []AccountsInv
  BY InitAccountsInv, NextKeepsAccountsInv, PTL DEF AccountsSpec

\* Rows of accounts, sessions and logins have their types.
THEOREM AccountTypesHold == AccountsSpec => []AccountsTypeOK
  <1>1. AccountsInv => AccountsTypeOK
      BY DEF AccountsInv
  <1> QED
      BY <1>1, AccountsInvHolds, PTL

\* However many devices log in, replace each other and are logged out at a
\* time, no account ever has three live sessions (login,
\* replaceOldestSession).
THEOREM TwoSessionsAtMost == AccountsSpec => []AtMostTwoSessions
  <1>1. AccountsInv => AtMostTwoSessions
      BY DEF AccountsInv
  <1> QED
      BY <1>1, AccountsInvHolds, PTL

\* No live session outlives the password it was opened with or the activity
\* of its account (setAccountStatus, deleteAccount, resetAccountPassword).
THEOREM EntitledSessionsOnly == AccountsSpec => []SessionsAreEntitled
  <1>1. AccountsInv => SessionsAreEntitled
      BY DEF AccountsInv
  <1> QED
      BY <1>1, AccountsInvHolds, PTL

-----------------------------------------------------------------------------
(* Memberships, players and swaps                                          *)


\* who has a character
Characters(rows) == {m \in Member : rows[m].character # NoCharacter}

\* no two have the same character or seat
Distinct(rows) ==
    \A m, n \in Characters(rows) : m # n =>
      rows[m].character # rows[n].character /\ rows[m].seat # rows[n].seat

RowInv == TypeOK /\ GoneHoldNothing /\ RowsAgree /\ Distinct(player)

\* a pending swap is with another member, and about a character or the bank
SwapsNamed ==
    \A m \in Member : swap[m] # NoSwap =>
      /\ swap[m].target \in Member \ {m}
      /\ swap[m].kind = "CHARACTER" => swap[m].theirs \in Character

Inv == RowInv /\ OneBank /\ PalaceFollowsCharacter /\ SwapsNamed

-----------------------------------------------------------------------------
(* Seats.                                                                  *)

LEMMA AllocatedSeatIsFree ==
  ASSUME NEW m \in Member, NEW others, NEW s \in AllocatedSeat(m, others)
  PROVE  /\ s \in 1..PlayerLimit
         /\ \A p \in others : player[p].seat # s
  BY DEF AllocatedSeat, FirstSeat, FreeSeats

\* the playable are those who have a character
LEMMA PlayableHaveCharacters ==
  ASSUME RowInv
  PROVE  Playable = Characters(player)
  BY DEF RowInv, GoneHoldNothing, RowsAgree, Playable, Characters

\* the invariant as the runs state it
LEMMA RowsToSeats == RowInv => SeatsAgree
  BY PlayableHaveCharacters DEF RowInv, SeatsAgree, Distinct

LEMMA NoRows ==
  /\ NoPlayer \in PlayerRow /\ NoSwap \in SwapRow
  /\ NoPlayer.status = "NONE" /\ NoPlayer.character = NoCharacter
  BY SeatsAssumption DEF NoPlayer, PlayerRow, NoSwap, SwapRow

LEMMA InitInv == Init => Inv
  <1> SUFFICES ASSUME Init PROVE Inv
      OBVIOUS
  <1> USE NoRows, SeatsAssumption DEF Init
  <1>1. TypeOK
      BY DEF TypeOK, MemberRow
  <1>2. RowInv
      BY <1>1 DEF RowInv, GoneHoldNothing, RowsAgree, Distinct, Characters
  <1>3. OneBank
      BY DEF OneBank, ActiveBank, Active, Playing
  <1>4. PalaceFollowsCharacter
      BY DEF PalaceFollowsCharacter
  <1>5. SwapsNamed
      BY DEF SwapsNamed
  <1> QED
      BY <1>2, <1>3, <1>4, <1>5 DEF Inv

-----------------------------------------------------------------------------
(* Joining and choosing.                                                   *)

LEMMA JoinLobbyKeepsInv ==
  ASSUME Inv, NEW m \in Member, JoinLobby(m)
  PROVE  Inv'
  <1> USE DEF Inv, RowInv, JoinLobby
  <1>0. /\ member' = [member EXCEPT ![m].status = "ACTIVE"]
        /\ member \in [Member -> MemberRow] /\ member[m] \in MemberRow
        /\ ~ member[m].bank
      BY DEF TypeOK, GoneHoldNothing
  <1>1. \A n \in Member :
          /\ member'[n].character = member[n].character /\ member'[n].bank = member[n].bank
          /\ member[n].status = "ACTIVE" => member'[n].status = "ACTIVE"
          /\ n # m => member'[n] = member[n]
      BY <1>0 DEF MemberRow
  <1>2. TypeOK'
      BY <1>0 DEF TypeOK, MemberRow
  <1>3. GoneHoldNothing' /\ RowsAgree' /\ Distinct(player')
      BY <1>0, <1>1 DEF GoneHoldNothing, RowsAgree, Distinct, Characters, Active, MemberRow
  <1>4. OneBank'
      BY <1>0, <1>1 DEF OneBank, ActiveBank, Active, Playing, Lobby
  <1>5. PalaceFollowsCharacter'
    <2>1. \A c \in Character : palace[c] # Nobody => palace[c] \in Member
        BY DEF TypeOK
    <2>2. \A n \in Member : swap[n] # NoSwap => swap[n].target \in Member \cup {Nobody}
        BY DEF TypeOK, SwapRow
    <2>3. \A n \in Member : swap[n] # NoSwap /\ Active(swap[n].target)
            => member'[swap[n].target].status = "ACTIVE"
        BY <1>0, <1>1 DEF Active
    <2> QED
        BY <1>1, <2>1, <2>3 DEF PalaceFollowsCharacter, Lobby, Active
  <1> QED
      BY <1>2, <1>3, <1>4, <1>5 DEF SwapsNamed

\* m, who had none, gets a character nobody has, and a free seat
LEMMA SeatingKeepsRows ==
  ASSUME RowInv, NEW m \in Member, NEW c \in Character, NEW row \in MemberRow,
         member[m].character = NoCharacter, ~ Taken(c),
         row.status = "ACTIVE", row.character = c,
         member' = [member EXCEPT ![m] = row], Seated(m, c, Playable \ {m}),
         room' = room, swap' = swap, palace' \in [Character -> Member \cup {Nobody}]
  PROVE  RowInv'
  <1> USE DEF RowInv
  <1>0. member \in [Member -> MemberRow] /\ player \in [Member -> PlayerRow]
      BY DEF TypeOK
  <1>1. PICK s \in AllocatedSeat(m, Playable \ {m}) :
          player' = [player EXCEPT ![m] = [status |-> "ACTIVE", seat |-> s, character |-> c]]
      BY DEF Seated
  <1>2. s \in 1..PlayerLimit /\ \A p \in Playable \ {m} : player[p].seat # s
      BY AllocatedSeatIsFree
  <1>3. s \in 0..PlayerLimit /\ s # 0
      BY <1>2, SeatsAssumption
  <1>4. [status |-> "ACTIVE", seat |-> s, character |-> c] \in PlayerRow
      BY <1>3 DEF PlayerRow
  <1>5. TypeOK'
      BY <1>0, <1>1, <1>4 DEF TypeOK
  <1>6. /\ member'[m] = row /\ player'[m].character = c /\ player'[m].seat = s
        /\ player'[m].status = "ACTIVE"
        /\ \A n \in Member \ {m} : member'[n] = member[n] /\ player'[n] = player[n]
      BY <1>0, <1>1
  <1>7. GoneHoldNothing' /\ RowsAgree'
      BY <1>3, <1>6 DEF GoneHoldNothing, RowsAgree, Active
  <1>8. \A n \in Member \ {m} : player[n].character # c
      BY <1>0, SeatsAssumption DEF Taken, GoneHoldNothing, RowsAgree
  <1>9. Playable = Characters(player)
      BY PlayableHaveCharacters
  <1>10. Distinct(player')
      BY <1>2, <1>6, <1>8, <1>9 DEF Distinct, Characters
  <1> QED
      BY <1>5, <1>7, <1>10

\* who is bank and whether the room is played stay as they are
LEMMA BankStays ==
  ASSUME OneBank, \A m \in Member : ActiveBank(m)' <=> ActiveBank(m), Playing' => Playing
  PROVE  OneBank'
  BY DEF OneBank

\* no pending swap is disturbed, and the palaces of a lobby stay with the
\* characters
LEMMA PalacesStayRight ==
  ASSUME PalaceFollowsCharacter, Lobby' => Lobby, swap' = swap,
         \A m \in Member : Active(m) => Active(m)',
         \A m \in Member : swap[m] # NoSwap => swap[m].target \in Member,
         Lobby => \A c \in Character :
             palace'[c] # Nobody => member'[palace'[c]].character = c
  PROVE  PalaceFollowsCharacter'
  <1> USE DEF PalaceFollowsCharacter
  <1> SUFFICES ASSUME Lobby', Lobby, NEW m \in Member, swap[m] # NoSwap
               PROVE  Active(m)' /\ Active(swap[m].target)'
      OBVIOUS
  <1>1. Active(m) /\ Active(swap[m].target) /\ swap[m].target \in Member
      OBVIOUS
  <1> QED
      BY <1>1 DEF Active

LEMMA JoinPlayingKeepsInv ==
  ASSUME Inv, NEW m \in Member, NEW c \in Character, JoinPlaying(m, c)
  PROVE  Inv'
  <1> USE DEF Inv, JoinPlaying
  <1>0. member \in [Member -> MemberRow] /\ palace \in [Character -> Member \cup {Nobody}]
      BY DEF RowInv, TypeOK
  <1>1. member[m].character = NoCharacter /\ ~ ActiveBank(m)
      BY DEF RowInv, GoneHoldNothing, ActiveBank, Active
  <1>2. [status |-> "ACTIVE", bank |-> FALSE, character |-> c] \in MemberRow
      BY DEF MemberRow
  <1>3. RowInv'
      BY <1>0, <1>1, <1>2, SeatingKeepsRows
  <1>4. \A n \in Member : n # m => member'[n] = member[n]
      BY <1>0
  <1>5. member'[m] = [status |-> "ACTIVE", bank |-> FALSE, character |-> c]
      BY <1>0
  <1>6. OneBank'
      BY <1>1, <1>4, <1>5, BankStays DEF ActiveBank, Active, Playing
  <1>7. PalaceFollowsCharacter'
      BY DEF PalaceFollowsCharacter, Playing, Lobby
  <1> QED
      BY <1>3, <1>6, <1>7 DEF SwapsNamed

LEMMA SelectCharacterKeepsInv ==
  ASSUME Inv, NEW m \in Member, NEW c \in Character, SelectCharacter(m, c)
  PROVE  Inv'
  <1> USE DEF Inv, SelectCharacter
  <1>0. /\ member \in [Member -> MemberRow] /\ member[m] \in MemberRow
        /\ palace \in [Character -> Member \cup {Nobody}]
      BY DEF RowInv, TypeOK
  <1> DEFINE row == [member[m] EXCEPT !.character = c]
  <1>1. row \in MemberRow /\ row.status = "ACTIVE" /\ row.character = c /\ row.bank = member[m].bank
      BY <1>0 DEF MemberRow, Active
  <1>2. member' = [member EXCEPT ![m] = row]
      BY <1>0
  <1>3. palace' \in [Character -> Member \cup {Nobody}]
      BY <1>0
  <1> HIDE DEF row
  <1>4. RowInv'
      BY <1>1, <1>2, <1>3, SeatingKeepsRows
  <1>5. member'[m] = row /\ \A n \in Member : n # m => member'[n] = member[n]
      BY <1>0, <1>2
  <1>6. OneBank'
      BY <1>1, <1>5, BankStays DEF ActiveBank, Active, Playing
  <1>7. \A n \in Member : Active(n) => Active(n)'
      BY <1>1, <1>5 DEF Active
  <1>8. ASSUME Lobby, NEW d \in Character, palace'[d] # Nobody
        PROVE  member'[palace'[d]].character = d
    <2>1. CASE palace'[d] = palace[d]
      <3>1. member[palace[d]].character = d /\ palace[d] \in Member
          BY <1>0, <1>8, <2>1 DEF PalaceFollowsCharacter
      <3>2. palace[d] # m
          BY <3>1, SeatsAssumption
      <3> QED
          BY <1>5, <2>1, <3>1, <3>2
    <2>2. CASE palace'[d] # palace[d]
      <3>1. d = c /\ palace'[d] = m
          BY <1>0, <2>2
      <3> QED
          BY <1>1, <1>5, <3>1
    <2> QED
        BY <2>1, <2>2
  <1>9. PalaceFollowsCharacter'
      BY <1>7, <1>8, PalacesStayRight DEF SwapsNamed, Lobby
  <1> QED
      BY <1>4, <1>6, <1>9 DEF SwapsNamed

LEMMA SelectBankKeepsInv ==
  ASSUME Inv, NEW m \in Member, SelectBank(m)
  PROVE  Inv'
  <1> USE DEF Inv, SelectBank
  <1>0. member \in [Member -> MemberRow] /\ member[m] \in MemberRow
      BY DEF RowInv, TypeOK
  <1>1. /\ \A n \in Member \ {m} : member'[n] = member[n]
        /\ member'[m].status = "ACTIVE" /\ member'[m].character = member[m].character
        /\ member' \in [Member -> MemberRow]
      BY <1>0 DEF MemberRow, Active
  <1>2. RowInv'
      BY <1>1 DEF RowInv, TypeOK, GoneHoldNothing, RowsAgree, Distinct, Characters, Active
  <1>3. \A n \in Member : ActiveBank(n)' => n = m
      BY <1>1 DEF ActiveBank, Active
  <1>4. ActiveBank(m)'
      BY <1>0, <1>1 DEF ActiveBank, Active, MemberRow
  <1>5. OneBank'
      BY <1>3, <1>4 DEF OneBank
  <1>6. \A n \in Member : Active(n) => Active(n)'
      BY <1>1 DEF Active
  <1>7. Lobby => \A c \in Character : palace'[c] # Nobody => member'[palace'[c]].character = c
    <2>1. \A c \in Character : palace[c] \in Member \cup {Nobody}
        BY DEF RowInv, TypeOK
    <2> QED
        BY <1>1, <2>1 DEF PalaceFollowsCharacter
  <1>8. PalaceFollowsCharacter'
      BY <1>6, <1>7, PalacesStayRight DEF SwapsNamed, Lobby
  <1> QED
      BY <1>2, <1>5, <1>8 DEF SwapsNamed

-----------------------------------------------------------------------------
(* Swaps.                                                                  *)

\* only a request is made, or goes
LEMMA RequestsKeepInv ==
  ASSUME Inv, NEW m \in Member, NEW request \in SwapRow,
         swap' = [swap EXCEPT ![m] = request],
         UNCHANGED <<room, member, player, palace>>,
         request # NoSwap =>
           /\ Active(m) /\ Active(request.target)
           /\ request.target \in Member \ {m}
           /\ request.kind = "CHARACTER" => request.theirs \in Character
  PROVE  Inv'
  <1> USE DEF Inv
  <1>0. swap \in [Member -> SwapRow]
      BY DEF RowInv, TypeOK
  <1>1. swap'[m] = request /\ \A n \in Member \ {m} : swap'[n] = swap[n]
      BY <1>0
  <1>2. RowInv'
      BY <1>0 DEF RowInv, TypeOK, GoneHoldNothing, RowsAgree, Distinct, Characters, Active
  <1>3. OneBank'
      BY BankStays DEF ActiveBank, Active, Playing
  <1>4. SwapsNamed'
      BY <1>1, NoRows DEF SwapsNamed
  <1>5. PalaceFollowsCharacter'
      BY <1>1, NoRows DEF PalaceFollowsCharacter, Lobby, Active
  <1> QED
      BY <1>2, <1>3, <1>4, <1>5

LEMMA AskingKeepsInv ==
  ASSUME Inv, NEW m \in Member, NEW t \in Member,
         RequestRoleSwap(m, t) \/ RequestBankSwap(m, t)
  PROVE  Inv'
  <1>0. member \in [Member -> MemberRow]
      BY DEF Inv, RowInv, TypeOK
  <1>1. CASE RequestRoleSwap(m, t)
    <2> DEFINE request == [kind |-> "CHARACTER", target |-> t, mine |-> member[m].character,
                           theirs |-> member[t].character]
    <2>1. request \in SwapRow /\ request.theirs \in Character /\ t # m
        BY <1>0, <1>1 DEF SwapRow, MemberRow, RequestRoleSwap
    <2> QED
        BY <1>1, <2>1, RequestsKeepInv DEF RequestRoleSwap
  <1>2. CASE RequestBankSwap(m, t)
    <2> DEFINE request == [NoSwap EXCEPT !.kind = "BANK", !.target = t]
    <2>1. request \in SwapRow /\ request.kind = "BANK" /\ request.target = t
        BY NoRows DEF SwapRow, NoSwap
    <2>2. t # m /\ Active(t) /\ Active(m)
        BY <1>2 DEF RequestBankSwap, ActiveBank
    <2> QED
        BY <1>2, <2>1, <2>2, RequestsKeepInv DEF RequestBankSwap
  <1> QED
      BY <1>1, <1>2

LEMMA ClosingKeepsInv ==
  ASSUME Inv, NEW m \in Member, ResolveRoleSwap(m) \/ \E t \in Member : ConflictRoleSwap(m, t)
  PROVE  Inv'
  BY NoRows, RequestsKeepInv DEF ResolveRoleSwap, ConflictRoleSwap, Accepts

\* the bits of the bank change, and with them the pending swaps
LEMMA BankBitsKeepRows ==
  ASSUME RowInv, member' \in [Member -> MemberRow],
         \A n \in Member : /\ member'[n].status = member[n].status
                           /\ member'[n].character = member[n].character
                           /\ member'[n].bank => member[n].bank \/ Active(n),
         swap' \in [Member -> SwapRow], UNCHANGED <<room, player, palace>>
  PROVE  RowInv'
  BY DEF RowInv, TypeOK, GoneHoldNothing, RowsAgree, Distinct, Characters, Active

\* a lobby in which only bits of the bank changed and swaps were closed
LEMMA BankBitsKeepPalaces ==
  ASSUME RowInv, PalaceFollowsCharacter, SwapsNamed,
         \A n \in Member : /\ member'[n].status = member[n].status
                           /\ member'[n].character = member[n].character,
         \A n \in Member : swap'[n] = swap[n] \/ swap'[n] = NoSwap,
         UNCHANGED <<room, palace>>
  PROVE  PalaceFollowsCharacter' /\ SwapsNamed'
  <1>1. \A c \in Character : palace[c] \in Member \cup {Nobody}
      BY DEF RowInv, TypeOK
  <1>2. \A n \in Member : swap'[n] # NoSwap =>
          swap'[n] = swap[n] /\ swap[n] # NoSwap /\ swap[n].target \in Member
      BY DEF SwapsNamed
  <1>3. SwapsNamed'
      BY <1>2 DEF SwapsNamed
  <1>4. ASSUME Lobby', NEW n \in Member, swap'[n] # NoSwap
        PROVE  member'[n].status = "ACTIVE" /\ member'[swap'[n].target].status = "ACTIVE"
    <2>1. swap'[n] = swap[n] /\ swap[n].target \in Member
        BY <1>2, <1>4
    <2>2. member[n].status = "ACTIVE" /\ member[swap[n].target].status = "ACTIVE"
        BY <1>2, <1>4 DEF PalaceFollowsCharacter, Lobby, Active
    <2> QED
        BY <2>1, <2>2
  <1>5. ASSUME Lobby', NEW c \in Character, palace'[c] # Nobody
        PROVE  member'[palace'[c]].character = c
    <2>1. palace[c] \in Member /\ member[palace[c]].character = c
        BY <1>1, <1>5 DEF PalaceFollowsCharacter, Lobby
    <2> QED
        BY <2>1
  <1>6. PalaceFollowsCharacter'
      BY <1>4, <1>5 DEF PalaceFollowsCharacter, Active
  <1> QED
      BY <1>3, <1>6

LEMMA ExecuteBankSwapKeepsInv ==
  ASSUME Inv, NEW m \in Member, NEW t \in Member, ExecuteBankSwap(m, t)
  PROVE  Inv'
  <1> USE DEF Inv, ExecuteBankSwap, Accepts
  <1>0. /\ member \in [Member -> MemberRow] /\ member[m] \in MemberRow /\ member[t] \in MemberRow
        /\ swap \in [Member -> SwapRow] /\ m # t
      BY DEF RowInv, TypeOK
  <1>1. /\ member' \in [Member -> MemberRow]
        /\ member'[m] = [member[m] EXCEPT !.bank = TRUE]
        /\ member'[t] = [member[t] EXCEPT !.bank = FALSE]
        /\ \A n \in Member \ {m, t} : member'[n] = member[n]
      BY <1>0 DEF MemberRow
  <1>2. \A n \in Member : /\ member'[n].status = member[n].status
                          /\ member'[n].character = member[n].character
                          /\ member'[n].bank => member[n].bank \/ Active(n)
      BY <1>0, <1>1 DEF MemberRow
  <1>3. swap' \in [Member -> SwapRow] /\ \A n \in Member : swap'[n] = swap[n] \/ swap'[n] = NoSwap
      BY <1>0, NoRows
  <1>4. RowInv'
      BY <1>1, <1>2, <1>3, BankBitsKeepRows
  <1>5. PalaceFollowsCharacter' /\ SwapsNamed'
      BY <1>2, <1>3, BankBitsKeepPalaces
  <1>6. ActiveBank(t) /\ \A n \in Member : ActiveBank(n) => n = t
      BY DEF OneBank, ActiveBank
  <1>7. ActiveBank(m)' /\ \A n \in Member : ActiveBank(n)' => n = m
      BY <1>0, <1>1, <1>6 DEF ActiveBank, Active, MemberRow
  <1>8. OneBank'
      BY <1>7 DEF OneBank
  <1> QED
      BY <1>4, <1>5, <1>8

LEMMA ReassignKeepsInv ==
  ASSUME Inv, NEW m \in Member, ReassignAdminRoomBank(m)
  PROVE  Inv'
  <1> USE DEF Inv, ReassignAdminRoomBank
  <1>0. member \in [Member -> MemberRow] /\ swap \in [Member -> SwapRow]
      BY DEF RowInv, TypeOK
  <1>1. \A n \in Member : /\ member'[n] \in MemberRow
                          /\ member'[n].status = member[n].status
                          /\ member'[n].character = member[n].character
                          /\ member'[n].bank = (n = m \/ (member[n].bank /\ ~ Active(n)))
      BY <1>0 DEF MemberRow
  <1>2. member' \in [Member -> MemberRow]
      BY <1>1
  <1>3. RowInv'
      BY <1>0, <1>1, <1>2, BankBitsKeepRows
  <1>4. PalaceFollowsCharacter' /\ SwapsNamed'
      BY <1>1, BankBitsKeepPalaces
  <1>5. ActiveBank(m)' /\ \A n \in Member : ActiveBank(n)' => n = m
      BY <1>1 DEF ActiveBank, Active
  <1>6. OneBank'
      BY <1>5 DEF OneBank
  <1> QED
      BY <1>3, <1>4, <1>6

\* what the swap of characters changes, name by name
LEMMA SwapEffect ==
  ASSUME Inv, NEW m \in Member, NEW t \in Member, ExecuteSwap(m, t)
  PROVE  /\ m # t /\ Active(m) /\ Active(t) /\ swap[m].theirs \in Character
         /\ swap[m].mine \in Character \cup {NoCharacter}
         /\ member[m].character = swap[m].mine /\ player[m].character = swap[m].mine
         /\ member[t].character = swap[m].theirs /\ player[t].character = swap[m].theirs
         /\ member' = [member EXCEPT ![m].character = swap[m].theirs,
                                     ![t].character = swap[m].mine]
         /\ \E s \in 1..PlayerLimit :
              /\ player' = [player EXCEPT
                    ![m] = [status |-> "ACTIVE", seat |-> s, character |-> swap[m].theirs],
                    ![t].character = swap[m].mine]
              /\ \A p \in Playable \ {m, t} : player[p].seat # s
              /\ swap[m].mine # NoCharacter => s # player[t].seat
  <1> USE DEF Inv, ExecuteSwap, Accepts, NoDrift
  <1>0. /\ player \in [Member -> PlayerRow] /\ player[m] \in PlayerRow /\ player[t] \in PlayerRow
        /\ swap[m] \in SwapRow
      BY DEF RowInv, TypeOK
  <1>1. m # t /\ swap[m].theirs \in Character
      BY NoRows DEF SwapsNamed, NoSwap
  <1>2. t \in Playable /\ player[t].seat \in 1..PlayerLimit
      BY <1>0, <1>1, SeatsAssumption DEF Playable, RowInv, RowsAgree, PlayerRow
  <1>3. PICK s \in SwapSeat(m, t) : player' = [player EXCEPT
           ![m] = [status |-> "ACTIVE", seat |-> s, character |-> swap[m].theirs],
           ![t].character = swap[m].mine]
      OBVIOUS
  <1>4. Distinct(player) /\ Playable = Characters(player)
      BY PlayableHaveCharacters DEF RowInv
  <1>5. /\ s \in 1..PlayerLimit
        /\ \A p \in Playable \ {m, t} : player[p].seat # s
        /\ swap[m].mine # NoCharacter => s # player[t].seat
    <2>1. CASE ~ HasPlayer(m)
      <3>1. swap[m].mine = NoCharacter
          BY <2>1 DEF HasPlayer, RowInv, RowsAgree
      <3>2. s = player[t].seat
          BY <1>3, <2>1 DEF SwapSeat
      <3> QED
          BY <1>2, <1>4, <3>1, <3>2 DEF Distinct
    <2>2. CASE HasPlayer(m) /\ swap[m].mine = NoCharacter
      <3>1. s \in AllocatedSeat(m, Playable \ {m, t})
          BY <1>3, <2>2 DEF SwapSeat
      <3> QED
          BY <2>2, <3>1, AllocatedSeatIsFree
    <2>3. CASE HasPlayer(m) /\ swap[m].mine # NoCharacter
      <3>1. s = player[m].seat
          BY <1>3, <2>3 DEF SwapSeat
      <3>2. m \in Playable /\ s \in 1..PlayerLimit
          BY <1>0, <2>3, <3>1, SeatsAssumption DEF Playable, RowInv, RowsAgree, PlayerRow
      <3> QED
          BY <1>1, <1>2, <1>4, <3>1, <3>2 DEF Distinct
    <2> QED
        BY <2>1, <2>2, <2>3
  <1> QED
      BY <1>0, <1>1, <1>3, <1>5 DEF SwapRow

LEMMA ExecuteSwapKeepsInv ==
  ASSUME Inv, NEW m \in Member, NEW t \in Member, ExecuteSwap(m, t)
  PROVE  Inv'
  <1> USE DEF Inv
  <1> DEFINE mine == swap[m].mine
             theirs == swap[m].theirs
  <1>0. /\ member \in [Member -> MemberRow] /\ player \in [Member -> PlayerRow]
        /\ palace \in [Character -> Member \cup {Nobody}] /\ swap \in [Member -> SwapRow]
      BY DEF RowInv, TypeOK
  <1>1. /\ m # t /\ Active(m) /\ Active(t) /\ theirs \in Character
        /\ mine \in Character \cup {NoCharacter}
        /\ member[m].character = mine /\ player[m].character = mine
        /\ member[t].character = theirs /\ player[t].character = theirs
        /\ member' = [member EXCEPT ![m].character = theirs, ![t].character = mine]
      BY SwapEffect
  <1>2. PICK s \in 1..PlayerLimit :
          /\ player' = [player EXCEPT
                ![m] = [status |-> "ACTIVE", seat |-> s, character |-> theirs],
                ![t].character = mine]
          /\ \A p \in Playable \ {m, t} : player[p].seat # s
          /\ mine # NoCharacter => s # player[t].seat
      BY SwapEffect
  <1>3. /\ swap' = [swap EXCEPT ![m] = NoSwap] /\ room' = room /\ Lobby
        /\ palace' = PalacesMove(m, t)
      BY DEF ExecuteSwap, Accepts
  <1> HIDE DEF mine, theirs
  <1>4. /\ member'[m].character = theirs /\ member'[t].character = mine
        /\ member'[m].status = "ACTIVE" /\ member'[t].status = "ACTIVE"
        /\ member'[m].bank = member[m].bank /\ member'[t].bank = member[t].bank
        /\ \A n \in Member \ {m, t} : member'[n] = member[n]
      BY <1>0, <1>1 DEF MemberRow, Active
  <1>5. /\ player'[m] = [status |-> "ACTIVE", seat |-> s, character |-> theirs]
        /\ player'[t].character = mine /\ player'[t].status = player[t].status
        /\ player'[t].seat = player[t].seat
        /\ \A n \in Member \ {m, t} : player'[n] = player[n]
      BY <1>0, <1>1, <1>2 DEF PlayerRow
  <1>6. theirs # NoCharacter /\ player[t].status = "ACTIVE" /\ player[t].seat # 0
      BY <1>1, SeatsAssumption DEF RowInv, RowsAgree
  <1>7. TypeOK'
    <2>1. member' \in [Member -> MemberRow]
      <3>1. /\ member'[m] = [member[m] EXCEPT !.character = theirs]
            /\ member'[t] = [member[t] EXCEPT !.character = mine]
          BY <1>0, <1>1
      <3>2. member'[m] \in MemberRow /\ member'[t] \in MemberRow
          BY <1>0, <1>1, <3>1 DEF MemberRow
      <3>3. \A n \in Member : member'[n] \in MemberRow
          BY <1>0, <1>4, <3>2
      <3> QED
          BY <1>0, <1>1, <3>3
    <2>2. s \in 0..PlayerLimit
        OBVIOUS
    <2>3. [status |-> "ACTIVE", seat |-> s, character |-> theirs] \in PlayerRow
        BY <1>1, <2>2 DEF PlayerRow
    <2>4. player' \in [Member -> PlayerRow]
        BY <1>0, <1>1, <1>2, <2>3 DEF PlayerRow
    <2>5. palace' \in [Character -> Member \cup {Nobody}]
        BY <1>0, <1>3 DEF PalacesMove
    <2> QED
        BY <1>0, <1>3, <2>1, <2>4, <2>5, NoRows DEF TypeOK, RowInv
  <1>8. GoneHoldNothing' /\ RowsAgree'
    <2>1. GoneHoldNothing'
        BY <1>4 DEF RowInv, GoneHoldNothing, Active
    <2>2. s # 0
        OBVIOUS
    <2>3. RowsAgree'
        BY <1>4, <1>5, <1>6, <2>2 DEF RowInv, RowsAgree
    <2> QED
        BY <2>1, <2>3
  <1>9. Distinct(player')
    <2>1. Playable = Characters(player) /\ Distinct(player)
        BY PlayableHaveCharacters DEF RowInv
    <2>2. \A n \in Characters(player) \ {m, t} :
            /\ player[n].character # theirs /\ player[n].seat # player[t].seat
            /\ player[n].seat # s
            /\ mine # NoCharacter => player[n].character # mine
        BY <1>1, <1>2, <1>6, <2>1 DEF Distinct, Characters
    <2>3. mine # NoCharacter => mine # theirs
        BY <1>1, <1>6, <2>1 DEF Distinct, Characters
    <2>4. ASSUME NEW p \in Characters(player'), NEW q \in Characters(player'), p # q
          PROVE  player'[p].character # player'[q].character /\ player'[p].seat # player'[q].seat
      <3>1. \A n \in Characters(player') \ {m, t} :
              n \in Characters(player) /\ player'[n] = player[n]
          BY <1>5 DEF Characters
      <3>2. CASE p \notin {m, t} /\ q \notin {m, t}
          BY <2>1, <2>4, <3>1, <3>2 DEF Distinct
      <3>3. CASE p \notin {m, t} /\ q \in {m, t}
          BY <1>5, <2>2, <2>4, <3>1, <3>3 DEF Characters
      <3>4. CASE p \in {m, t} /\ q \notin {m, t}
          BY <1>5, <2>2, <2>4, <3>1, <3>4 DEF Characters
      <3>5. CASE p \in {m, t} /\ q \in {m, t}
        <4>1. mine # NoCharacter
            BY <1>1, <1>5, <2>4, <3>5 DEF Characters
        <4>2. player'[m].character # player'[t].character /\ player'[m].seat # player'[t].seat
            BY <1>2, <1>5, <2>3, <4>1
        <4> QED
            BY <2>4, <3>5, <4>2
      <3> QED
          BY <3>2, <3>3, <3>4, <3>5
    <2> QED
        BY <2>4 DEF Distinct
  <1>10. \A n \in Member : member'[n].status = member[n].status /\ member'[n].bank = member[n].bank
      BY <1>1, <1>4 DEF Active
  <1>11. OneBank'
    <2>1. \A n \in Member : ActiveBank(n)' <=> ActiveBank(n)
        BY <1>10 DEF ActiveBank, Active
    <2> QED
        BY <1>3, <2>1, BankStays DEF Playing
  <1>12. SwapsNamed'
    <2>1. \A n \in Member : swap'[n] = swap[n] \/ swap'[n] = NoSwap
        BY <1>0, <1>3
    <2> QED
        BY <2>1 DEF SwapsNamed
  <1>13. ASSUME NEW n \in Member, swap'[n] # NoSwap
         PROVE  member'[n].status = "ACTIVE" /\ member'[swap'[n].target].status = "ACTIVE"
    <2>1. swap'[n] = swap[n] /\ swap[n].target \in Member
        BY <1>0, <1>3, <1>13 DEF SwapsNamed
    <2>2. member[n].status = "ACTIVE" /\ member[swap[n].target].status = "ACTIVE"
        BY <1>3, <1>13, <2>1 DEF PalaceFollowsCharacter, Active
    <2> QED
        BY <1>10, <2>1, <2>2
  <1>14. ASSUME NEW c \in Character, palace'[c] # Nobody
         PROVE  member'[palace'[c]].character = c
    <2>1. /\ palace[c] = Nobody \/ (palace[c] \in Member /\ member[palace[c]].character = c)
          /\ m # Nobody /\ t # Nobody
        BY <1>0, <1>3, SeatsAssumption DEF PalaceFollowsCharacter
    <2>2. palace'[c] =
            IF c = theirs /\ (palace[c] = t \/ (palace[c] = Nobody /\ ~ HasPlayer(m)))
            THEN m
            ELSE IF c = mine /\ palace[c] = m THEN t
            ELSE palace[c]
        BY <1>3 DEF PalacesMove, mine, theirs
    <2>3. palace[c] = m => c = mine
        BY <1>1, <2>1
    <2>4. palace[c] = t => c = theirs
        BY <1>1, <2>1
    <2> QED
        BY <1>4, <1>14, <2>1, <2>2, <2>3, <2>4
  <1>15. PalaceFollowsCharacter'
      BY <1>13, <1>14 DEF PalaceFollowsCharacter, Active
  <1> QED
      BY <1>7, <1>8, <1>9, <1>11, <1>12, <1>15 DEF RowInv

-----------------------------------------------------------------------------
(* The administrator, the start and the end.                               *)

\* members that leave take nothing with them that others need
LEMMA LeavingKeepsRows ==
  ASSUME RowInv, NEW who \in SUBSET Member, Left(who),
         room' \in [status : {"LOBBY", "PLAYING", "FINISHED"}, midgame : BOOLEAN],
         palace' \in [Character -> Member \cup {Nobody}], swap' \in [Member -> SwapRow]
  PROVE  RowInv'
  <1>0. member \in [Member -> MemberRow] /\ player \in [Member -> PlayerRow]
      BY DEF RowInv, TypeOK
  <1>1. \A n \in Member :
          IF n \in who
          THEN member'[n] = [status |-> "LEFT", bank |-> FALSE, character |-> NoCharacter]
          ELSE member'[n] = member[n]
      BY DEF Left
  <1>2. \A n \in Member :
          IF n \in who /\ HasPlayer(n)
          THEN player'[n] = [player[n] EXCEPT !.status = "LEFT", !.character = NoCharacter]
          ELSE player'[n] = player[n]
      BY DEF Left
  <1>3. \A n \in Member : n \in who => player'[n].character = NoCharacter
      BY <1>0, <1>2 DEF HasPlayer, RowInv, RowsAgree, PlayerRow
  <1>4. TypeOK'
    <2>1. member' \in [Member -> MemberRow]
        BY <1>0 DEF Left, MemberRow
    <2>2. player' \in [Member -> PlayerRow]
      <3>1. ASSUME NEW n \in Member PROVE player'[n] \in PlayerRow
        <4>1. player[n] \in PlayerRow
            BY <1>0
        <4>2. [player[n] EXCEPT !.status = "LEFT", !.character = NoCharacter] \in PlayerRow
            BY <4>1 DEF PlayerRow
        <4> QED
            BY <1>2, <4>1, <4>2
      <3> QED
          BY <3>1 DEF Left
    <2> QED
        BY <2>1, <2>2 DEF TypeOK
  <1>5. GoneHoldNothing'
      BY <1>1 DEF RowInv, GoneHoldNothing, Active
  <1>6. \A n \in Member : n \notin who => player'[n] = player[n] /\ member'[n] = member[n]
      BY <1>1, <1>2
  <1>7. \A n \in Member : n \in who => member'[n].character = NoCharacter
      BY <1>1
  <1>8. RowsAgree'
      BY <1>3, <1>6, <1>7 DEF RowInv, RowsAgree
  <1>9. \A n \in Characters(player') : n \in Characters(player) /\ player'[n] = player[n]
      BY <1>3, <1>6 DEF Characters
  <1>10. Distinct(player')
      BY <1>9 DEF RowInv, Distinct
  <1> QED
      BY <1>4, <1>5, <1>8, <1>10 DEF RowInv

LEMMA RemoveKeepsInv ==
  ASSUME Inv, NEW m \in Member, RemoveAdminRoomMember(m)
  PROVE  Inv'
  <1> USE DEF Inv, RemoveAdminRoomMember
  <1>0. /\ swap \in [Member -> SwapRow] /\ palace \in [Character -> Member \cup {Nobody}]
        /\ room \in [status : {"LOBBY", "PLAYING", "FINISHED"}, midgame : BOOLEAN]
      BY DEF RowInv, TypeOK
  <1>1. swap' \in [Member -> SwapRow] /\ palace' \in [Character -> Member \cup {Nobody}]
      BY <1>0, NoRows
  <1>2. RowInv'
      BY <1>0, <1>1, LeavingKeepsRows
  <1>3. /\ \A n \in Member \ {m} : member'[n] = member[n]
        /\ member'[m].status = "LEFT"
      BY DEF Left
  <1>4. OneBank'
    <2>1. ~ ActiveBank(m)' /\ \A n \in Member \ {m} : ActiveBank(n)' <=> ActiveBank(n)
        BY <1>3 DEF ActiveBank, Active
    <2>2. Playing' => \E n \in Member \ {m} : ActiveBank(n)
        BY DEF Playing, Lobby, RemovableWhilePlaying, OneBank, ActiveBank
    <2> QED
        BY <2>1, <2>2 DEF OneBank
  <1>5. \A n \in Member : swap'[n] # NoSwap =>
          n # m /\ swap[n].target # m /\ swap'[n] = swap[n]
      BY DEF SwapsOf
  <1>6. SwapsNamed'
      BY <1>5 DEF SwapsNamed
  <1>7. ASSUME Lobby', NEW n \in Member, swap'[n] # NoSwap
        PROVE  member'[n].status = "ACTIVE" /\ member'[swap'[n].target].status = "ACTIVE"
    <2>1. swap'[n] = swap[n] /\ swap[n].target \in Member \ {m} /\ n # m
        BY <1>5, <1>7 DEF SwapsNamed
    <2>2. member[n].status = "ACTIVE" /\ member[swap[n].target].status = "ACTIVE"
        BY <1>7, <2>1 DEF PalaceFollowsCharacter, Active, Lobby
    <2> QED
        BY <1>3, <2>1, <2>2
  <1>8. ASSUME Lobby', NEW c \in Character, palace'[c] # Nobody
        PROVE  member'[palace'[c]].character = c
    <2>1. palace'[c] = palace[c] /\ palace[c] # m /\ palace[c] \in Member
        BY <1>0, <1>8
    <2> QED
        BY <1>3, <1>8, <2>1 DEF PalaceFollowsCharacter, Lobby
  <1>9. PalaceFollowsCharacter'
      BY <1>7, <1>8 DEF PalaceFollowsCharacter, Active
  <1> QED
      BY <1>2, <1>4, <1>6, <1>9

LEMMA StartKeepsInv ==
  ASSUME Inv, Start
  PROVE  Inv'
  <1> USE DEF Inv, Start
  <1> DEFINE who == {n \in Member : Active(n) /\ ~ member[n].bank
                                  /\ member[n].character = NoCharacter}
  <1>0. /\ swap \in [Member -> SwapRow] /\ palace \in [Character -> Member \cup {Nobody}]
        /\ room \in [status : {"LOBBY", "PLAYING", "FINISHED"}, midgame : BOOLEAN]
      BY DEF RowInv, TypeOK
  <1>1. /\ room' \in [status : {"LOBBY", "PLAYING", "FINISHED"}, midgame : BOOLEAN]
        /\ room'.status = "PLAYING"
        /\ swap' \in [Member -> SwapRow] /\ \A n \in Member : swap'[n] = NoSwap
      BY <1>0, NoRows
  <1>2. who \in SUBSET Member /\ Left(who)
      OBVIOUS
  <1>3. RowInv'
      BY <1>0, <1>1, <1>2, LeavingKeepsRows
  <1>4. \A n \in Member : ActiveBank(n)' <=> ActiveBank(n)
    <2> SUFFICES ASSUME NEW n \in Member
                 PROVE  member'[n].status = "ACTIVE" /\ member'[n].bank <=> ActiveBank(n)
        BY DEF ActiveBank, Active
    <2>1. n \in who => ~ ActiveBank(n) /\ member'[n].status = "LEFT"
        BY DEF Left, ActiveBank
    <2>2. n \notin who => member'[n] = member[n]
        BY <1>2 DEF Left
    <2> QED
        BY <2>1, <2>2 DEF ActiveBank, Active
  <1>5. OneBank'
      BY <1>4 DEF OneBank
  <1>6. PalaceFollowsCharacter' /\ SwapsNamed'
      BY <1>1 DEF PalaceFollowsCharacter, SwapsNamed, Lobby
  <1> QED
      BY <1>3, <1>5, <1>6

\* the game and the administrator's settings change no rows, and no swap but to
\* close it
LEMMA OthersKeepInv ==
  ASSUME Inv, UpdateAdminRoom \/ FinishNormal \/ FinishForced
              \/ \E c \in Character, p \in Member \cup {Nobody} : GameMovesPalace(c, p)
  PROVE  Inv'
  <1> USE DEF Inv, UpdateAdminRoom, FinishNormal, FinishForced, GameMovesPalace
  <1>0. /\ palace \in [Character -> Member \cup {Nobody}]
        /\ room \in [status : {"LOBBY", "PLAYING", "FINISHED"}, midgame : BOOLEAN]
      BY DEF RowInv, TypeOK
  <1>1. /\ UNCHANGED <<member, player>>
        /\ swap' \in [Member -> SwapRow]
        /\ \A m \in Member : swap'[m] = swap[m] \/ swap'[m] = NoSwap
        /\ Lobby' => swap' = swap
      BY NoRows DEF RowInv, TypeOK, Lobby
  <1>2. /\ room' \in [status : {"LOBBY", "PLAYING", "FINISHED"}, midgame : BOOLEAN]
        /\ palace' \in [Character -> Member \cup {Nobody}]
        /\ Lobby' => Lobby /\ palace' = palace
        /\ Playing' => Playing
      BY <1>0 DEF Lobby, Playing
  <1>3. RowInv'
      BY <1>1, <1>2 DEF RowInv, TypeOK, GoneHoldNothing, RowsAgree, Distinct, Characters, Active
  <1>4. OneBank'
      BY <1>1, <1>2, BankStays DEF ActiveBank, Active
  <1>5. PalaceFollowsCharacter' /\ SwapsNamed'
      BY <1>1, <1>2 DEF PalaceFollowsCharacter, SwapsNamed, Active
  <1> QED
      BY <1>3, <1>4, <1>5

-----------------------------------------------------------------------------
(* The specification.                                                      *)

LEMMA StepKeepsInv == Inv /\ [Next]_vars => Inv'
  <1> SUFFICES ASSUME Inv, [Next]_vars PROVE Inv'
      OBVIOUS
  <1>1. CASE UNCHANGED vars
      BY <1>1 DEF vars, Inv, RowInv, TypeOK, GoneHoldNothing, RowsAgree, Distinct, Characters,
                  OneBank, ActiveBank, Active, Playing, PalaceFollowsCharacter, Lobby, SwapsNamed
  <1>2. ASSUME NEW m \in Member, MemberStep(m) PROVE Inv'
      BY <1>2, JoinLobbyKeepsInv, JoinPlayingKeepsInv, SelectCharacterKeepsInv,
         SelectBankKeepsInv DEF MemberStep
  <1>3. ASSUME NEW m \in Member, SwapStep(m) PROVE Inv'
      BY <1>3, AskingKeepsInv, ClosingKeepsInv, ExecuteSwapKeepsInv, ExecuteBankSwapKeepsInv
         DEF SwapStep
  <1>4. CASE AdminStep
      BY <1>4, RemoveKeepsInv, ReassignKeepsInv, OthersKeepInv DEF AdminStep
  <1>5. CASE GameStep
      BY <1>5, StartKeepsInv, OthersKeepInv DEF GameStep
  <1> QED
      BY <1>1, <1>2, <1>3, <1>4, <1>5 DEF Next

\* The rows, the bank, the palaces and the pending swaps are what they
\* should be after every sequence of operations.
THEOREM SeatsInvHolds == Spec => []Inv
  BY InitInv, StepKeepsInv, PTL DEF Spec

\* Every row has its type: among others a player's seat is one of the
\* room's colours.
THEOREM SeatTypesHold == Spec => []TypeOK
  <1>1. Inv => TypeOK
      BY DEF Inv, RowInv
  <1> QED
      BY <1>1, SeatsInvHolds, PTL

\* Memberships and players agree and no two who play have the same
\* character or seat, for every number of members, characters and seats.
THEOREM SeatsAlwaysAgree == Spec => []SeatsAgree
  <1>1. Inv => SeatsAgree
      BY RowsToSeats DEF Inv
  <1> QED
      BY <1>1, SeatsInvHolds, PTL

\* A room has at most one bank, and one that is played has one.
THEOREM AlwaysOneBank == Spec => []OneBank
  <1>1. Inv => OneBank
      BY DEF Inv
  <1> QED
      BY <1>1, SeatsInvHolds, PTL

\* The palaces of a lobby belong to those who have their characters, and
\* pending swaps are between active members.
THEOREM PalacesFollowCharacters == Spec => []PalaceFollowsCharacter
  <1>1. Inv => PalaceFollowsCharacter
      BY DEF Inv
  <1> QED
      BY <1>1, SeatsInvHolds, PTL

-----------------------------------------------------------------------------
(* Characters change hands as agreed.                                      *)

\* m stays, had a character, and does not have it any more
Changes(m) ==
    /\ member[m].character \notin {NoCharacter, member'[m].character}
    /\ member'[m].status = "ACTIVE"

Agreed(m) == \E n \in Member : AsRequested(m, n) \/ AsRequested(n, m)

LEMMA MembersKeepCharacters ==
  ASSUME Inv, NEW n \in Member, MemberStep(n), NEW m \in Member
  PROVE  ~ Changes(m)
  <1>0. member \in [Member -> MemberRow]
      BY DEF Inv, RowInv, TypeOK
  <1>1. ASSUME NEW c \in Character, JoinPlaying(n, c) PROVE ~ Changes(m)
      BY <1>0, <1>1 DEF Changes, JoinPlaying, Inv, RowInv, GoneHoldNothing, Active
  <1>2. ASSUME NEW c \in Character, SelectCharacter(n, c) PROVE ~ Changes(m)
      BY <1>0, <1>2 DEF Changes, SelectCharacter, MemberRow
  <1>3. CASE JoinLobby(n) \/ SelectBank(n)
    <2>1. member'[m].character = member[m].character
        BY <1>0, <1>3 DEF JoinLobby, SelectBank, MemberRow
    <2> QED
        BY <2>1 DEF Changes
  <1> QED
      BY <1>1, <1>2, <1>3 DEF MemberStep

LEMMA SwapsAsAgreed ==
  ASSUME Inv, NEW n \in Member, SwapStep(n), NEW m \in Member, Changes(m)
  PROVE  Agreed(m)
  <1>0. member \in [Member -> MemberRow] /\ swap \in [Member -> SwapRow]
      BY DEF Inv, RowInv, TypeOK
  <1>1. ASSUME NEW t \in Member, ExecuteSwap(n, t) PROVE Agreed(m)
    <2>1. /\ n # t /\ member[n].character = swap[n].mine /\ member[t].character = swap[n].theirs
          /\ member' = [member EXCEPT ![n].character = swap[n].theirs,
                                      ![t].character = swap[n].mine]
        BY <1>1, SwapEffect
    <2>2. /\ member'[n].character = swap[n].theirs /\ member'[t].character = swap[n].mine
          /\ \A r \in Member \ {n, t} : member'[r] = member[r]
        BY <1>0, <2>1 DEF MemberRow
    <2>3. swap[n].kind = "CHARACTER" /\ swap[n].target = t /\ swap'[n] = NoSwap
        BY <1>0, <1>1 DEF ExecuteSwap, Accepts
    <2>4. AsRequested(n, t)
        BY <2>1, <2>2, <2>3 DEF AsRequested
    <2>5. m \in {n, t}
        BY <2>2 DEF Changes
    <2> QED
        BY <2>4, <2>5 DEF Agreed
  <1>2. ASSUME NEW t \in Member,
               RequestRoleSwap(n, t) \/ RequestBankSwap(n, t) \/ ConflictRoleSwap(n, t)
        PROVE  Agreed(m)
      BY <1>2 DEF Changes, RequestRoleSwap, RequestBankSwap, ConflictRoleSwap
  <1>3. ASSUME NEW t \in Member, ExecuteBankSwap(n, t) PROVE Agreed(m)
    <2>1. member'[m].character = member[m].character
        BY <1>0, <1>3 DEF ExecuteBankSwap, MemberRow
    <2> QED
        BY <2>1 DEF Changes
  <1>4. CASE ResolveRoleSwap(n)
      BY <1>4 DEF Changes, ResolveRoleSwap
  <1> QED
      BY <1>1, <1>2, <1>3, <1>4 DEF SwapStep

LEMMA OthersKeepCharacters ==
  ASSUME Inv, AdminStep \/ GameStep \/ UNCHANGED vars, NEW m \in Member
  PROVE  ~ Changes(m)
  <1>0. member \in [Member -> MemberRow]
      BY DEF Inv, RowInv, TypeOK
  <1>1. ASSUME NEW who \in SUBSET Member, Left(who) PROVE ~ Changes(m)
      BY <1>1 DEF Left, Changes
  <1>2. ASSUME NEW n \in Member, RemoveAdminRoomMember(n) PROVE ~ Changes(m)
      BY <1>1, <1>2 DEF RemoveAdminRoomMember
  <1>3. ASSUME NEW n \in Member, ReassignAdminRoomBank(n) PROVE ~ Changes(m)
    <2>1. member'[m].character = member[m].character
        BY <1>0, <1>3 DEF ReassignAdminRoomBank, MemberRow
    <2> QED
        BY <2>1 DEF Changes
  <1>4. CASE Start
    <2>1. \E who \in SUBSET Member : Left(who)
        BY <1>4 DEF Start
    <2> QED
        BY <1>1, <2>1
  <1> QED
      BY <1>2, <1>3, <1>4
         DEF AdminStep, GameStep, UpdateAdminRoom, GameMovesPalace, FinishNormal,
             FinishForced, vars, Changes

\* A member who stays loses or changes a character only by a swap that names
\* both characters as they are.
THEOREM SwapsAreWhatWasAgreed == Spec => SwapIsWhatWasAgreed
  <1>1. ASSUME Inv, [Next]_vars, NEW m \in Member, Changes(m) PROVE Agreed(m)
      BY <1>1, MembersKeepCharacters, SwapsAsAgreed, OthersKeepCharacters DEF Next
  <1>2. Inv /\ [Next]_vars =>
          [\A m \in Member :
              /\ member[m].character \notin {NoCharacter, member'[m].character}
              /\ member'[m].status = "ACTIVE"
              => \E n \in Member : AsRequested(m, n) \/ AsRequested(n, m)]_vars
      BY <1>1 DEF Changes, Agreed
  <1> QED
      BY <1>2, SeatsInvHolds, PTL DEF Spec, SwapIsWhatWasAgreed

-----------------------------------------------------------------------------
(* The trash and its cleaner                                               *)

ScanRow == [running : BOOLEAN, expired : SUBSET Room, failed : SUBSET Room, processed : Nat]

\* A scan has before it only rooms whose day is over and that are in the
\* trash: whoever leaves the trash leaves the scan.
TrashInv ==
    /\ trash \in Seq(Room)
    /\ due \in 0..Len(trash)
    /\ scan \in ScanRow
    /\ scan.expired \subseteq DueRooms

\* the rooms before and behind the one that leaves keep their order, and
\* those that are due stay due
LEMMA LeavesOneBehind ==
  ASSUME TrashInv, NEW r, Leaves(r)
  PROVE  /\ trash' \in Seq(Room)
         /\ due' \in 0..Len(trash')
         /\ DueRooms \ {r} \subseteq DueRooms'
<1>1. PICK i \in 1..Len(trash) :
        /\ trash[i] = r
        /\ trash' = RemoveAt(trash, i)
        /\ due' = IF i <= due THEN due - 1 ELSE due
  BY DEF Leaves, TrashInv
<1>2. trash \in Seq(Room) /\ due \in 0..Len(trash) /\ Len(trash) \in Nat
  BY DEF TrashInv
<1>3. trash' = SubSeq(trash, 1, i - 1) \o SubSeq(trash, i + 1, Len(trash))
  BY <1>1 DEF RemoveAt
<1>4. /\ trash' \in Seq(Room)
      /\ Len(trash') = Len(trash) - 1
      /\ \A j \in 1..(i - 1) : trash'[j] = trash[j]
      /\ \A j \in i..(Len(trash) - 1) : trash'[j] = trash[j + 1]
  <2> DEFINE front == SubSeq(trash, 1, i - 1)
             back == SubSeq(trash, i + 1, Len(trash))
  <2>1. \A j \in 1..Len(trash) : trash[j] \in Room
    BY <1>2
  <2>2. /\ front \in Seq(Room) /\ Len(front) = i - 1
        /\ \A j \in 1..(i - 1) : front[j] = trash[j]
    BY <1>2, <2>1, SubSeqProperties
  <2>3. /\ back \in Seq(Room) /\ Len(back) = Len(trash) - i
        /\ \A j \in 1..(Len(trash) - i) : back[j] = trash[j + i]
    BY <1>2, <2>1, SubSeqProperties
  <2> HIDE DEF front, back
  <2>4. /\ front \o back \in Seq(Room) /\ Len(front \o back) = Len(trash) - 1
        /\ \A j \in 1..(Len(trash) - 1) :
             (front \o back)[j] = IF j <= i - 1 THEN front[j] ELSE back[j - (i - 1)]
    <3>1. /\ front \o back \in Seq(Room)
          /\ Len(front \o back) = Len(front) + Len(back)
          /\ \A j \in 1..Len(front) + Len(back) :
               (front \o back)[j] = IF j <= Len(front) THEN front[j] ELSE back[j - Len(front)]
      BY <2>2, <2>3, ConcatProperties
    <3>2. Len(front) + Len(back) = Len(trash) - 1
      BY <1>2, <2>2, <2>3
    <3> QED
      BY <2>2, <3>1, <3>2
  <2>5. trash' = front \o back
    BY <1>3 DEF front, back
  <2>6. \A j \in i..(Len(trash) - 1) : back[j - (i - 1)] = trash[j + 1]
    BY <1>2, <2>3
  <2> QED
    BY <1>2, <2>2, <2>4, <2>5, <2>6
<1>5. due' \in 0..Len(trash')
  BY <1>1, <1>2, <1>4
<1>6. ASSUME NEW s \in DueRooms \ {r} PROVE s \in DueRooms'
  <2>1. PICK j \in 1..due : trash[j] = s /\ j # i
    BY <1>1, <1>6 DEF DueRooms
  <2>2. CASE j < i
    <3>1. j \in 1..due' /\ trash'[j] = s
      BY <1>1, <1>2, <1>4, <2>1, <2>2
    <3> QED
      BY <3>1 DEF DueRooms
  <2>3. CASE j > i
    <3>1. j - 1 \in 1..due' /\ trash'[j - 1] = s
      BY <1>1, <1>2, <1>4, <2>1, <2>3
    <3> QED
      BY <3>1 DEF DueRooms
  <2> QED
    BY <1>2, <2>1, <2>2, <2>3
<1> QED
  BY <1>4, <1>5, <1>6

LEMMA InitTrashInv == TrashInit => TrashInv
<1> SUFFICES ASSUME TrashInit PROVE TrashInv
  OBVIOUS
<1>1. Cardinality(Stuck) \in Nat
  BY TrashAssumption, FS_CardinalityType
<1>2. trash \in [1..Cardinality(Stuck) -> Stuck]
  BY DEF TrashInit, SetToSeqs
<1>3. trash \in Seq(Room) /\ Len(trash) = Cardinality(Stuck)
  BY <1>1, <1>2, TrashAssumption
<1>4. due = Len(trash) /\ scan = NoScan
  BY DEF TrashInit
<1> QED
  BY <1>1, <1>3, <1>4 DEF TrashInv, NoScan, DueRooms, ScanRow

\* a claimed room counts, whether it is deleted or not
LEMMA ScanEnlarged ==
  ASSUME NEW row \in ScanRow, NEW r \in Room
  PROVE  /\ [row EXCEPT !.processed = @ + 1, !.expired = @ \ {r}] \in ScanRow
         /\ [row EXCEPT !.processed = @ + 1, !.expired = @ \ {r}].expired = row.expired \ {r}
         /\ [row EXCEPT !.processed = @ + 1, !.failed = @ \cup {r}] \in ScanRow
         /\ [row EXCEPT !.processed = @ + 1, !.failed = @ \cup {r}].expired = row.expired
<1> DEFINE w == [row EXCEPT !.processed = @ + 1]
<1>1. w \in ScanRow /\ w.expired = row.expired
  BY DEF ScanRow
<1>2. /\ [row EXCEPT !.processed = @ + 1, !.expired = @ \ {r}] = [w EXCEPT !.expired = @ \ {r}]
      /\ [row EXCEPT !.processed = @ + 1, !.failed = @ \cup {r}] = [w EXCEPT !.failed = @ \cup {r}]
  OBVIOUS
<1> HIDE DEF w
<1>3. /\ [w EXCEPT !.expired = @ \ {r}] \in ScanRow
      /\ [w EXCEPT !.expired = @ \ {r}].expired = w.expired \ {r}
      /\ [w EXCEPT !.failed = @ \cup {r}] \in ScanRow
      /\ [w EXCEPT !.failed = @ \cup {r}].expired = w.expired
  BY <1>1 DEF ScanRow
<1> QED
  BY <1>1, <1>2, <1>3

\* a step that moves no room keeps what is due
LEMMA TrashStepKeeps ==
  ASSUME TrashInv, [TrashNext]_trashVars
  PROVE  TrashInv'
<1> USE DEF TrashInv
<1>1. ASSUME NEW r \in Room, MoveToTrash(r) PROVE TrashInv'
  <2>1. trash' = Append(trash, r) /\ due' = due /\ scan' = scan
    BY <1>1 DEF MoveToTrash
  <2>2. /\ trash' \in Seq(Room) /\ Len(trash') = Len(trash) + 1
        /\ \A j \in 1..due : trash'[j] = trash[j]
    BY <2>1
  <2>3. DueRooms \subseteq DueRooms'
    BY <2>1, <2>2 DEF DueRooms
  <2> QED
    BY <2>1, <2>2, <2>3
<1>2. ASSUME NEW r \in Room, Restore(r) \/ PurgeNow(r) PROVE TrashInv'
  <2>1. Leaves(r) /\ scan' = [scan EXCEPT !.expired = @ \ {r}]
    BY <1>2 DEF Restore, PurgeNow, Delete
  <2> QED
    BY <2>1, LeavesOneBehind DEF ScanRow
<1>3. ASSUME NEW r \in Room, PurgeClaimed(r) PROVE TrashInv'
  <2>1. Leaves(r) /\ scan' = [scan EXCEPT !.processed = @ + 1, !.expired = @ \ {r}]
    BY <1>3 DEF PurgeClaimed, Delete
  <2>2. scan' \in ScanRow /\ scan'.expired = scan.expired \ {r}
    BY <2>1, ScanEnlarged
  <2> QED
    BY <2>1, <2>2, LeavesOneBehind
<1>4. ASSUME NEW r \in Room, PurgeFails(r) PROVE TrashInv'
  <2>1. scan' = [scan EXCEPT !.processed = @ + 1, !.failed = @ \cup {r}]
        /\ trash' = trash /\ due' = due
    BY <1>4 DEF PurgeFails
  <2>2. scan' \in ScanRow /\ scan'.expired = scan.expired
    BY <2>1, ScanEnlarged
  <2> QED
    BY <2>1, <2>2 DEF DueRooms
<1>5. CASE DayPasses
  <2>1. due < Len(trash) /\ due' = due + 1 /\ trash' = trash /\ scan' = scan
    BY <1>5 DEF DayPasses
  <2>2. DueRooms \subseteq DueRooms'
    BY <2>1 DEF DueRooms
  <2> QED
    BY <2>1, <2>2
<1>6. CASE StartScan
  <2>1. /\ scan' = [NoScan EXCEPT !.running = TRUE, !.expired = DueRooms]
        /\ trash' = trash /\ due' = due
    BY <1>6 DEF StartScan
  <2>2. DueRooms \subseteq Room
    BY DEF DueRooms
  <2> QED
    BY <2>1, <2>2 DEF NoScan, DueRooms, ScanRow
<1>7. CASE EndScan \/ Restart
  <2>1. scan' = NoScan /\ trash' = trash /\ due' = due
    BY <1>7 DEF EndScan, Restart
  <2> QED
    BY <2>1 DEF NoScan, ScanRow, DueRooms
<1>8. ASSUME NEW r \in Room, PhaseStep(r) PROVE TrashInv'
  BY <1>8 DEF PhaseStep, DueRooms
<1>9. CASE UNCHANGED trashVars
  BY <1>9 DEF trashVars, DueRooms
<1> QED
  BY <1>1, <1>2, <1>3, <1>4, <1>5, <1>6, <1>7, <1>8, <1>9 DEF TrashNext, ScanStep

\* The cleaner deletes a room only while its day is over: one that was
\* restored since the scan began, also if it was moved back, is not before
\* the scan any more.
THEOREM RestoredRoomsAreSpared == TrashSpec => ScanSparesRestored
<1>1. TrashInit => TrashInv
  BY InitTrashInv
<1>2. TrashInv /\ [TrashNext]_trashVars => TrashInv'
  BY TrashStepKeeps
<1>3. TrashInv /\ [TrashNext]_trashVars
        => [\A r \in purged' \ purged :
              scan'.processed > scan.processed => r \in DueRooms]_trashVars
  <2> SUFFICES ASSUME TrashInv, TrashNext, NEW r \in purged' \ purged,
                      scan'.processed > scan.processed
               PROVE  r \in DueRooms
    OBVIOUS
  <2>1. ASSUME NEW s \in Room, PurgeNow(s) PROVE FALSE
    <3>1. scan' = [scan EXCEPT !.expired = @ \ {s}]
      BY <2>1 DEF PurgeNow
    <3> QED
      BY <3>1 DEF TrashInv, ScanRow
  <2>2. ASSUME NEW s \in Room, PurgeClaimed(s) PROVE r \in DueRooms
    <3>1. r = s /\ s \in scan.expired
      BY <2>2 DEF PurgeClaimed, Delete, Claims, Claimable
    <3> QED
      BY <3>1 DEF TrashInv, ScanRow
  <2>3. purged' # purged
    OBVIOUS
  <2> QED
    BY <2>1, <2>2, <2>3 DEF TrashNext, ScanStep, MoveToTrash, Restore, PhaseStep, DayPasses,
                            StartScan, PurgeFails, EndScan, Restart
<1> QED
  BY <1>1, <1>2, <1>3, PTL DEF TrashSpec, ScanSparesRestored

=============================================================================
