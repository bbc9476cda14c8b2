------------------------------ MODULE LogProof -------------------------------
(***************************************************************************)
(* The transactions of a room: a landing is charged one toll, a reversal   *)
(* undoes one transaction exactly, every change of a balance is entered,   *)
(* and the requests of the room implement RequestLifecycle. Every step     *)
(* leaves the log, writes one transaction or reverses one.                 *)
(***************************************************************************)
EXTENDS LandingProof

-----------------------------------------------------------------------------
(* What a step does to the log *)

\* The step leaves balances and tolls, and of a transaction it changes at most
\* that it can be reversed.
LeavesLog ==
  /\ UNCHANGED <<balance, settled>>
  /\ DOMAIN log' = DOMAIN log
  /\ \A i \in DOMAIN log :
       log'[i] = log[i] \/ log'[i] = [log[i] EXCEPT !.reversible = FALSE]

\* The step commits a transaction that is neither a toll nor a reversal.
WritesLog ==
  /\ UNCHANGED settled
  /\ \E tx \in TransactionRow :
       /\ tx.type # "TOLL" /\ tx.status = "COMMITTED" /\ tx.undoes = 0
       /\ Commit(tx)

PaysToll == \E p \in Player, o \in Property : PayToll(p, o)

\* A step that does not touch log and balances leaves the log.
LEMMA SameBooks ==
  ASSUME UNCHANGED <<balance, log, settled>>
  PROVE  LeavesLog
  BY DEF LeavesLog

\* Turns, landings, requests and the room itself leave the log.
LEMMA QuietLog ==
  ASSUME TypeInv,
         TurnStep \/ LandingStep \/ DeedRequestStep \/ CashRequestStep \/ RoomStep
  PROVE  LeavesLog
<1>1. ASSUME NEW p \in Player, EndTurn(p) PROVE LeavesLog
  <2>1. PICK n : log' = Frozen(TollLandings(n, p))
    BY <1>1 DEF EndTurn
  <2>2. UNCHANGED <<balance, settled>>
    BY <1>1 DEF EndTurn
  <2> QED
    BY <2>1, <2>2 DEF Frozen, LeavesLog
<1>2. CASE TurnStep
  BY <1>1, <1>2, SameBooks DEF TurnStep, Start, Roll, SkipTurn, ForceNext, InvalidateRoll,
                               moneyVars
<1>3. CASE LandingStep
  BY <1>3, SameBooks DEF LandingStep, DeclareLandingOnTurn, DeclareLandingOnBoard,
                         DeclareStartOnTurn, DeclareStartOnBoard, ConfirmLanding,
                         CancelLandingPropertyActions, moneyVars
<1>4. CASE DeedRequestStep \/ CashRequestStep
  BY <1>4, DeedRequestEffect, CashRequestEffect, SameBooks
  DEF FilesDeedRequest, FilesCashRequest, FileFor, File, moneyVars
<1>5. CASE RoomStep
  BY <1>5, SameBooks DEF RoomStep, SetApprovalMode, JoinMidgame, FinishNormal, FinishForced,
                         CloseRoom, moneyVars
<1> QED
  BY <1>2, <1>3, <1>4, <1>5

\* The row an execution commits is the given one with the request's name.
LEMMA ExecutedRow ==
  ASSUME NEW r \in RequestId, NEW tx \in TransactionRow, tx.status = "COMMITTED",
         tx.undoes = 0, tx.type # "TOLL", Execute(r, tx)
  PROVE  WritesLog
<1> DEFINE row == [tx EXCEPT !.request = r]
<1>1. /\ row \in TransactionRow /\ row.type = tx.type
      /\ row.status = tx.status /\ row.undoes = tx.undoes
  BY DEF TransactionRow
<1>2. Commit(row) /\ UNCHANGED settled
  BY DEF Execute
<1> HIDE DEF row
<1> QED
  BY <1>1, <1>2 DEF WritesLog

\* The transaction of an executed property request is one.
LEMMA DeedTransaction ==
  ASSUME TypeInv, NEW r \in RequestId, request[r].status = "PENDING",
         request[r].type \in DeedRequest, NEW delta \in [Player -> Int],
         NEW deed \in Deed, NEW after \in Face, ExecuteDeed(r, delta, deed, after)
  PROVE  \E tx \in TransactionRow :
           /\ tx.status = "COMMITTED" /\ tx.undoes = 0 /\ tx.type # "TOLL"
           /\ Execute(r, tx)
<1> DEFINE q == request[r]
           d == prop[q.prop]
           left == [after EXCEPT !.version = d.version + 1]
           plain == Transaction(q.type, delta)
           tx == [plain EXCEPT !.prop = q.prop, !.before = FaceOf(d), !.after = left]
<1>1. /\ prop \in [Property -> Deed] /\ q \in RequestRow /\ RowShape(q)
      /\ q.type \in TransactionType /\ q.type # "TOLL"
  BY DEF TypeInv, TypeOK, RequestShape, TransactionType, RequestType, DeedRequest
<1>2. q.prop \in Property /\ d \in Deed
  BY <1>1 DEF RequestRow, RowShape
<1>3. FaceOf(d) \in Face /\ left \in Face
  <2>1. d.version + 1 \in Nat
    BY <1>2 DEF Deed
  <2> QED
    BY <1>2, <2>1 DEF FaceOf, Deed, Face
<1>4. /\ plain \in TransactionRow /\ plain.status = "COMMITTED"
      /\ plain.undoes = 0 /\ plain.type = q.type
  BY <1>1, TransactionTyped DEF Transaction
<1>5. Execute(r, tx)
  BY DEF ExecuteDeed
<1> HIDE DEF q, d, left, plain
<1>6. /\ tx \in TransactionRow /\ tx.status = "COMMITTED"
      /\ tx.undoes = 0 /\ tx.type = q.type
  BY <1>2, <1>3, <1>4 DEF TransactionRow
<1> HIDE DEF tx
<1> QED
  BY <1>1, <1>5, <1>6

\* Every step leaves the log, writes one transaction, pays one toll or
\* reverses one transaction.
LEMMA LogEffect ==
  ASSUME TypeInv, Next
  PROVE  LeavesLog \/ WritesLog \/ PaysToll \/ ReverseLatest
<1>1. CASE SettleStep
  <2>1. ASSUME NEW r \in RequestId, ConfirmTrade(r) \/ Reject(r) PROVE LeavesLog
    BY <2>1, SameBooks DEF ConfirmTrade, Reject, moneyVars
  <2>2. ASSUME NEW r \in RequestId, ApproveCash(r) PROVE WritesLog
    BY <2>2, ApproveCashEffect, ExecutedRow DEF ExecutesPlainly, Plain
  <2>3. ASSUME NEW r \in RequestId, ApproveDeed(r) PROVE WritesLog
    BY <2>3, ApproveDeedEffect, DeedTransaction, ExecutedRow DEF ExecutesDeed
  <2> QED
    BY <1>1, <2>1, <2>2, <2>3 DEF SettleStep, Approve, ApproveCash, ApproveDeed
<1>2. CASE MovesCash
  BY <1>2, SameBooks DEF MovesCash, Plain, WritesLog, PaysToll, moneyVars
<1>3. CASE MoneyStep
  BY <1>2, <1>3, MovesCashEffect DEF MoneyStep
<1>4. ASSUME NEW p \in Player, NEW n \in Count, NEW palace \in BOOLEAN,
             AddSkipTurns(p, n, palace)
      PROVE  LeavesLog \/ WritesLog \/ PaysToll \/ ReverseLatest
  BY <1>2, <1>4, MovesCashEffect
<1>5. CASE BankStep
  BY <1>4, <1>5, SameBooks DEF BankStep, AdjustProperty, ConsumeSkip, moneyVars
<1> QED
  BY <1>1, <1>3, <1>5, QuietLog DEF Next

-----------------------------------------------------------------------------
(* The rows after a step *)

\* A step that leaves the log leaves all a row says.
LEMMA LeftRows ==
  ASSUME TypeInv, LeavesLog, NEW i \in DOMAIN log'
  PROVE  /\ i \in DOMAIN log
         /\ log'[i].type = log[i].type /\ log'[i].status = log[i].status
         /\ log'[i].landing = log[i].landing /\ log'[i].request = log[i].request
         /\ log'[i].delta = log[i].delta /\ log'[i].undoes = log[i].undoes
         /\ log'[i].reversible => log[i].reversible
<1>1. i \in DOMAIN log
  BY DEF LeavesLog
<1>2. log[i] \in TransactionRow
  BY <1>1 DEF TypeInv, TypeOK
<1>3. log'[i] = log[i] \/ log'[i] = [log[i] EXCEPT !.reversible = FALSE]
  BY <1>1 DEF LeavesLog
<1> QED
  BY <1>1, <1>2, <1>3 DEF TransactionRow

\* Committing a transaction puts it behind the others.
LEMMA CommittedRows ==
  ASSUME TypeInv, NEW tx, Commit(tx)
  PROVE  /\ Len(log) \in Nat /\ DOMAIN log = 1 .. Len(log)
         /\ Len(log') = Len(log) + 1 /\ DOMAIN log' = 1 .. Len(log) + 1
         /\ \A i \in DOMAIN log : log'[i] = log[i]
         /\ log'[Len(log) + 1] = tx
<1>1. log \in Seq(TransactionRow) /\ log' = Append(log, tx)
  BY DEF TypeInv, TypeOK, Commit
<1> QED
  BY <1>1

\* The toll paid for landing l.
TollRowFor(tx, l) ==
  /\ tx.type = "TOLL" /\ tx.status = "COMMITTED" /\ tx.landing = l
  /\ tx.undoes = 0 /\ tx.request = Nil

\* Paying a toll commits the toll of a landing that has none in force.
LEMMA PaidToll ==
  ASSUME TypeInv, PaysToll
  PROVE  \E l \in LandingId : \E tx :
           /\ TollOpen(l) /\ Commit(tx) /\ TollRowFor(tx, l)
           /\ settled' = [settled EXCEPT ![l] = Len(log) + 1]
           /\ landing[l].turn \in ActiveTurns \cup {0}
           /\ UNCHANGED <<landing, turn, request>>
<1>1. PICK p \in Player, o \in Property : PayToll(p, o)
  BY DEF PaysToll
<1> DEFINE plain == Transaction("TOLL", Flow(p, prop[o].owner, TollAmount(o)))
<1>2. PICK l \in LandingId :
        /\ TollOpen(l) /\ Commit([plain EXCEPT !.landing = l])
        /\ settled' = [settled EXCEPT ![l] = Len(log) + 1]
        /\ landing[l].turn \in ActiveTurns \cup {0}
  BY <1>1 DEF PayToll
<1>3. TollRowFor([plain EXCEPT !.landing = l], l)
  BY DEF Transaction, TollRowFor
<1>4. UNCHANGED <<landing, turn, request>>
  BY <1>1 DEF PayToll, turnVars
<1> QED
  BY <1>2, <1>3, <1>4

\* The row that undoes transaction t, at position i.
Undoing(tx, i) ==
  /\ tx.type = "REVERSAL" /\ tx.status = "COMMITTED" /\ ~tx.reversible
  /\ tx.undoes = i /\ tx.request = Nil
  /\ tx.delta = Negated(log[i].delta)

\* A reversal marks one row and puts the row that undoes it behind the others.
LEMMA ReversedRows ==
  ASSUME TypeInv, ReverseLatest
  PROVE  \E i \in DOMAIN log :
           /\ Undoable(i)
           /\ DOMAIN log = 1 .. Len(log) /\ Len(log) \in Nat
           /\ Len(log') = Len(log) + 1 /\ DOMAIN log' = 1 .. Len(log) + 1
           /\ \A j \in DOMAIN log \ {i} : log'[j] = log[j]
           /\ log'[i] = [log[i] EXCEPT !.status = "REVERSED"]
           /\ Undoing(log'[Len(log) + 1], i)
           /\ ApplyToBalances(Negated(log[i].delta))
           /\ request' = RequestReversed(log[i])
           /\ UNCHANGED <<landing, turn, settled>>
<1>1. PICK i \in DOMAIN log :
        /\ Undoable(i)
        /\ log' = Append([log EXCEPT ![i].status = "REVERSED"],
                         [Transaction("REVERSAL", Negated(log[i].delta))
                            EXCEPT !.reversible = FALSE, !.undoes = i])
        /\ ApplyToBalances(Negated(log[i].delta))
        /\ request' = RequestReversed(log[i])
  BY DEF ReverseLatest
<1> DEFINE row == [log[i] EXCEPT !.status = "REVERSED"]
           undo == [Transaction("REVERSAL", Negated(log[i].delta))
                      EXCEPT !.reversible = FALSE, !.undoes = i]
           marked == [log EXCEPT ![i] = row]
<1>2. /\ log \in Seq(TransactionRow) /\ log[i] \in TransactionRow
      /\ DOMAIN log = 1 .. Len(log) /\ Len(log) \in Nat
  BY DEF TypeInv, TypeOK
<1>3. row \in TransactionRow /\ Undoing(undo, i)
  BY <1>2 DEF TransactionRow, Transaction, Undoing
<1>4. log' = Append(marked, undo)
  BY <1>1
<1> HIDE DEF row, undo
<1>5. /\ Len(marked) = Len(log) /\ DOMAIN marked = 1 .. Len(log)
      /\ \A j \in 1 .. Len(log) : marked[j] = IF j = i THEN row ELSE log[j]
  BY <1>2, <1>3, ExceptSeq
<1>6. /\ Len(log') = Len(log) + 1 /\ DOMAIN log' = 1 .. Len(log) + 1
      /\ \A j \in 1 .. Len(log) : log'[j] = marked[j]
      /\ log'[Len(log) + 1] = undo
  BY <1>2, <1>4, <1>5
<1> HIDE DEF marked
<1>7. /\ \A j \in DOMAIN log \ {i} : log'[j] = log[j]
      /\ log'[i] = [log[i] EXCEPT !.status = "REVERSED"]
      /\ Undoing(log'[Len(log) + 1], i)
  BY <1>2, <1>3, <1>5, <1>6 DEF row
<1>8. UNCHANGED <<landing, turn, settled>>
  BY DEF ReverseLatest, turnVars
<1> QED
  BY <1>1, <1>2, <1>6, <1>7, <1>8

-----------------------------------------------------------------------------
(* One toll for a landing *)

\* A settlement points to the toll of its landing, and a toll names a landing.
SettledToll ==
  \A l \in LandingId : settled[l] # 0 =>
    /\ settled[l] \in DOMAIN log
    /\ log[settled[l]].type = "TOLL" /\ log[settled[l]].landing = l
TollsNameLandings ==
  \A i \in DOMAIN log : log[i].type = "TOLL" => log[i].landing \in LandingId

\* The inductive invariant of the tolls.
TollInv == SettledToll /\ TollsNameLandings /\ TollOnce

\* TollInv holds at first: nothing is settled.
LEMMA InitTollInv == Init => TollInv
<1> SUFFICES ASSUME Init PROVE TollInv
  OBVIOUS
<1>1. DOMAIN log = {} /\ \A l \in LandingId : settled[l] = 0
  BY DEF Init
<1> QED
  BY <1>1 DEF TollInv, SettledToll, TollsNameLandings, TollOnce

\* A step that settles nothing and keeps what the rows say of tolls keeps
\* TollInv; a new row is no toll.
LEMMA TollsKept ==
  ASSUME TollInv, UNCHANGED settled, DOMAIN log \subseteq DOMAIN log',
         \A i \in DOMAIN log :
            /\ log'[i].type = log[i].type /\ log'[i].landing = log[i].landing
            /\ log'[i].status = "COMMITTED" => log[i].status = "COMMITTED",
         \A i \in DOMAIN log' \ DOMAIN log : log'[i].type # "TOLL"
  PROVE  TollInv'
<1>1. SettledToll'
  BY DEF TollInv, SettledToll
<1>2. TollsNameLandings'
  BY DEF TollInv, TollsNameLandings
<1>3. TollOnce'
  BY DEF TollInv, TollOnce
<1> QED
  BY <1>1, <1>2, <1>3 DEF TollInv

\* A toll is paid only for a landing that has none in force.
LEMMA PayTollKeeps ==
  ASSUME TypeInv, TollInv, PaysToll
  PROVE  TollInv'
<1>1. PICK l \in LandingId : \E tx :
        /\ TollOpen(l) /\ Commit(tx) /\ TollRowFor(tx, l)
        /\ settled' = [settled EXCEPT ![l] = Len(log) + 1]
  BY PaidToll
<1>2. PICK tx : Commit(tx) /\ TollRowFor(tx, l)
  BY <1>1
<1> DEFINE n == Len(log) + 1
<1>3. /\ n \in Nat /\ n # 0 /\ n \notin DOMAIN log /\ DOMAIN log' = DOMAIN log \cup {n}
      /\ \A i \in DOMAIN log : log'[i] = log[i]
      /\ log'[n] = tx
  <2>1. /\ Len(log) \in Nat /\ DOMAIN log = 1 .. Len(log)
        /\ DOMAIN log' = 1 .. Len(log) + 1
        /\ \A i \in DOMAIN log : log'[i] = log[i]
        /\ log'[Len(log) + 1] = tx
    BY <1>2, CommittedRows
  <2> QED
    BY <2>1
<1>4. /\ settled'[l] = n
      /\ \A k \in LandingId \ {l} : settled'[k] = settled[k]
  BY <1>1 DEF TypeInv, TypeOK
<1> HIDE DEF n
<1>5. SettledToll'
  BY <1>2, <1>3, <1>4 DEF TollInv, SettledToll, TollRowFor
<1>6. TollsNameLandings'
  BY <1>2, <1>3 DEF TollInv, TollsNameLandings, TollRowFor
<1>7. TollOnce'
  <2>1. ASSUME NEW i \in DOMAIN log, log[i].type = "TOLL", log[i].status = "COMMITTED"
        PROVE  settled'[log[i].landing] = i
    <3>1. settled[log[i].landing] = i /\ log[i].landing \in LandingId
      BY <2>1 DEF TollInv, TollsNameLandings, TollOnce
    <3>2. i # 0
      BY DEF TypeInv, TypeOK
    <3>3. log[i].landing # l
      BY <1>1, <2>1, <3>1, <3>2 DEF TollOpen
    <3> QED
      BY <1>4, <3>1, <3>3
  <2>2. ASSUME NEW i \in DOMAIN log', log'[i].type = "TOLL", log'[i].status = "COMMITTED"
        PROVE  settled'[log'[i].landing] = i
    BY <1>2, <1>3, <1>4, <2>1, <2>2 DEF TollRowFor
  <2> QED
    BY <2>2 DEF TollOnce
<1> QED
  BY <1>5, <1>6, <1>7 DEF TollInv

\* Every step keeps TollInv.
LEMMA TollStep ==
  ASSUME TypeInv, TollInv, Next
  PROVE  TollInv'
<1>1. CASE LeavesLog
  <2>1. UNCHANGED settled /\ DOMAIN log' = DOMAIN log
    BY <1>1 DEF LeavesLog
  <2> QED
    BY <1>1, <2>1, LeftRows, TollsKept
<1>2. CASE WritesLog
  <2>1. PICK tx \in TransactionRow : tx.type # "TOLL" /\ Commit(tx)
    BY <1>2 DEF WritesLog
  <2>2. /\ Len(log) \in Nat /\ DOMAIN log = 1 .. Len(log)
        /\ DOMAIN log' = 1 .. Len(log) + 1
        /\ \A i \in DOMAIN log : log'[i] = log[i]
        /\ log'[Len(log) + 1] = tx
    BY <2>1, CommittedRows
  <2>3. \A i \in DOMAIN log' \ DOMAIN log : log'[i] = tx
    BY <2>2
  <2>4. DOMAIN log \subseteq DOMAIN log'
    BY <2>2
  <2>5. UNCHANGED settled
    BY <1>2 DEF WritesLog
  <2> QED
    BY <2>1, <2>2, <2>3, <2>4, <2>5, TollsKept
<1>3. CASE ReverseLatest
  <2>1. PICK i \in DOMAIN log :
          /\ DOMAIN log = 1 .. Len(log) /\ Len(log) \in Nat
          /\ DOMAIN log' = 1 .. Len(log) + 1
          /\ \A j \in DOMAIN log \ {i} : log'[j] = log[j]
          /\ log'[i] = [log[i] EXCEPT !.status = "REVERSED"]
          /\ Undoing(log'[Len(log) + 1], i)
          /\ UNCHANGED settled
    BY <1>3, ReversedRows
  <2>2. log[i] \in TransactionRow
    BY DEF TypeInv, TypeOK
  <2>3. /\ log'[i].type = log[i].type /\ log'[i].landing = log[i].landing
        /\ log'[i].status = "REVERSED"
    BY <2>1, <2>2 DEF TransactionRow
  <2>4. \A j \in DOMAIN log' \ DOMAIN log : log'[j].type # "TOLL"
    BY <2>1 DEF Undoing
  <2>5. DOMAIN log \subseteq DOMAIN log'
    BY <2>1
  <2> QED
    BY <2>1, <2>3, <2>4, <2>5, TollsKept
<1> QED
  BY <1>1, <1>2, <1>3, PayTollKeeps, LogEffect

\* TollInv holds in every reachable state of every room.
THEOREM TollInvariant == Spec => [](TypeInv /\ TollInv)
<1>1. Init => TypeInv /\ TollInv
  BY InitTypeInv, InitTollInv
<1>2. TypeInv /\ TollInv /\ [Next]_vars => TypeInv' /\ TollInv'
  <2> SUFFICES ASSUME TypeInv, TollInv, [Next]_vars PROVE TypeInv' /\ TollInv'
    OBVIOUS
  <2>1. TypeInv'
    BY TypeInvStep
  <2>2. CASE UNCHANGED vars
    BY <2>1, <2>2 DEF vars, TollInv, SettledToll, TollsNameLandings, TollOnce
  <2> QED
    BY <2>1, <2>2, TollStep
<1> QED
  BY <1>1, <1>2, PTL DEF Spec

\* However often a toll is paid, reversed and paid again, and whatever becomes
\* of its landing, at most one toll of a landing is in force: the one the
\* landing's settlement points to.
THEOREM TollsAreChargedOnce == Spec => []TollOnce
<1>1. TollInv => TollOnce
  BY DEF TollInv
<1> QED
  BY <1>1, TollInvariant, PTL

-----------------------------------------------------------------------------
(* Reversals *)

\* The log is a sequence of rows.
LEMMA LogRows ==
  ASSUME TypeInv
  PROVE  /\ Len(log) \in Nat /\ DOMAIN log = 1 .. Len(log)
         /\ \A i \in DOMAIN log : log[i] \in TransactionRow /\ log[i].undoes \in Nat
<1>1. log \in Seq(TransactionRow)
  BY DEF TypeInv, TypeOK
<1>2. \A i \in DOMAIN log : log[i] \in TransactionRow
  BY <1>1
<1> QED
  BY <1>1, <1>2 DEF TransactionRow

\* The step puts one committed transaction that undoes nothing behind the
\* others and leaves those.
AddsRow ==
  /\ Len(log) \in Nat /\ DOMAIN log = 1 .. Len(log) /\ DOMAIN log' = 1 .. Len(log) + 1
  /\ \A i \in DOMAIN log : log'[i] = log[i]
  /\ log'[Len(log) + 1].status = "COMMITTED" /\ log'[Len(log) + 1].undoes = 0

\* Payments, approvals and tolls add a row.
LEMMA WritingAddsRow ==
  ASSUME TypeInv, WritesLog \/ PaysToll
  PROVE  AddsRow
<1>1. PICK tx : Commit(tx) /\ tx.status = "COMMITTED" /\ tx.undoes = 0
  BY PaidToll DEF WritesLog, TollRowFor
<1> QED
  BY <1>1, CommittedRows DEF AddsRow

\* A new row that undoes nothing leaves the reversals exact.
LEMMA AddedRowExact ==
  ASSUME TypeInv, ReversalExact, AddsRow
  PROVE  ReversalExact'
<1> DEFINE n == Len(log) + 1
<1>1. /\ n \in Nat /\ n \notin DOMAIN log /\ DOMAIN log' = DOMAIN log \cup {n}
      /\ \A i \in DOMAIN log : log'[i] = log[i] /\ log[i].undoes \in Nat
      /\ log'[n].status = "COMMITTED" /\ log'[n].undoes = 0
      /\ \A i \in DOMAIN log, k \in Nat : k < i /\ k # 0 => k \in DOMAIN log
  <2>1. \A i \in DOMAIN log : log[i].undoes \in Nat
    BY LogRows
  <2> QED
    BY <2>1 DEF AddsRow
<1> HIDE DEF n
<1>2. ASSUME NEW i \in DOMAIN log', log'[i].status = "REVERSED"
      PROVE  \E j \in DOMAIN log' : log'[j].undoes = i
  BY <1>1, <1>2 DEF ReversalExact
<1>3. ASSUME NEW j \in DOMAIN log', log'[j].undoes # 0
      PROVE  /\ j \in DOMAIN log /\ log'[j].undoes = log[j].undoes
             /\ log[j].undoes \in DOMAIN log
  BY <1>1, <1>3 DEF ReversalExact
<1>4. ASSUME NEW j \in DOMAIN log', log'[j].undoes # 0
      PROVE  /\ log'[j].undoes < j
             /\ log'[log'[j].undoes].status = "REVERSED" /\ log'[j].status = "COMMITTED"
             /\ ~log'[j].reversible
             /\ \A p \in Player : log'[j].delta[p] = -log'[log'[j].undoes].delta[p]
             /\ \A k \in DOMAIN log' : log'[k].undoes = log'[j].undoes => k = j
  BY <1>1, <1>3, <1>4 DEF ReversalExact
<1> QED
  BY <1>2, <1>4 DEF ReversalExact

\* The row a reversal marks has not been undone before, and the rows that
\* undo others cannot be reversed.
LEMMA ReverseLatestExact ==
  ASSUME TypeInv, ReversalExact, ReverseLatest
  PROVE  ReversalExact'
<1>1. PICK i \in DOMAIN log :
        /\ Undoable(i)
        /\ DOMAIN log = 1 .. Len(log) /\ Len(log) \in Nat
        /\ DOMAIN log' = 1 .. Len(log) + 1
        /\ \A j \in DOMAIN log \ {i} : log'[j] = log[j]
        /\ log'[i] = [log[i] EXCEPT !.status = "REVERSED"]
        /\ Undoing(log'[Len(log) + 1], i)
  BY ReversedRows
<1> DEFINE n == Len(log) + 1
<1>2. /\ n \in Nat /\ n \notin DOMAIN log /\ DOMAIN log' = DOMAIN log \cup {n}
      /\ \A j \in DOMAIN log : j < n /\ j \in Nat /\ j # 0
      /\ \A j \in DOMAIN log, k \in Nat : k < j /\ k # 0 => k \in DOMAIN log
      /\ \A j \in DOMAIN log : log[j] \in TransactionRow
      /\ Undoing(log'[n], i)
  BY <1>1 DEF TypeInv, TypeOK
<1> HIDE DEF n
<1>3. /\ log'[i].status = "REVERSED"
      /\ \A j \in DOMAIN log :
           /\ log'[j].undoes = log[j].undoes /\ log'[j].reversible = log[j].reversible
           /\ log'[j].delta = log[j].delta /\ log[j].delta \in [Player -> Int]
           /\ log[j].undoes \in Nat
           /\ j # i => log'[j].status = log[j].status
  BY <1>1, <1>2 DEF TransactionRow
<1>4. log[i].status = "COMMITTED" /\ log[i].reversible
  BY <1>1 DEF Undoable
<1>5. ASSUME NEW j \in DOMAIN log, log[j].undoes # 0
      PROVE  j # i /\ log[j].undoes # i /\ log[j].undoes \in DOMAIN log
  BY <1>2, <1>3, <1>4, <1>5 DEF ReversalExact
<1>6. ASSUME NEW j \in DOMAIN log', log'[j].status = "REVERSED"
      PROVE  \E k \in DOMAIN log' : log'[k].undoes = j
  <2>1. CASE j = i
    BY <1>2, <2>1 DEF Undoing
  <2>2. CASE j # i
    BY <1>2, <1>3, <1>6, <2>2 DEF Undoing, ReversalExact
  <2> QED
    BY <2>1, <2>2
<1>7. ASSUME NEW j \in DOMAIN log', log'[j].undoes # 0
      PROVE  /\ log'[j].undoes < j
             /\ log'[log'[j].undoes].status = "REVERSED" /\ log'[j].status = "COMMITTED"
             /\ ~log'[j].reversible
             /\ \A p \in Player : log'[j].delta[p] = -log'[log'[j].undoes].delta[p]
             /\ \A k \in DOMAIN log' : log'[k].undoes = log'[j].undoes => k = j
  <2>1. CASE j = n
    <3>1. log'[j].undoes = i
      BY <1>2, <2>1 DEF Undoing
    <3>2. \A p \in Player : log'[j].delta[p] = -log'[i].delta[p]
      BY <1>2, <1>3, <2>1 DEF Undoing, Negated
    <3> QED
      BY <1>2, <1>3, <1>5, <2>1, <3>1, <3>2 DEF Undoing
  <2>2. CASE j \in DOMAIN log
    <3>1. /\ log[j].undoes # 0 /\ log'[j].undoes = log[j].undoes
          /\ j # i /\ log[j].undoes # i /\ log[j].undoes \in DOMAIN log
      BY <1>3, <1>5, <1>7, <2>2
    <3>2. /\ log[j].undoes < j /\ log[log[j].undoes].status = "REVERSED"
          /\ log[j].status = "COMMITTED" /\ ~log[j].reversible
          /\ \A p \in Player : log[j].delta[p] = -log[log[j].undoes].delta[p]
          /\ \A k \in DOMAIN log : log[k].undoes = log[j].undoes => k = j
      BY <2>2, <3>1 DEF ReversalExact
    <3>3. \A k \in DOMAIN log' : log'[k].undoes = log'[j].undoes => k = j
      BY <1>2, <1>3, <2>2, <3>1, <3>2 DEF Undoing
    <3> QED
      BY <1>3, <2>2, <3>1, <3>2, <3>3
  <2> QED
    BY <1>2, <2>1, <2>2
<1> QED
  BY <1>6, <1>7 DEF ReversalExact

\* A step that leaves the log leaves the reversals.
LEMMA LeftExact ==
  ASSUME TypeInv, ReversalExact, LeavesLog
  PROVE  ReversalExact'
<1>1. /\ DOMAIN log' = DOMAIN log
      /\ \A i \in DOMAIN log :
           /\ log'[i].status = log[i].status /\ log'[i].undoes = log[i].undoes
           /\ log'[i].delta = log[i].delta
           /\ log'[i].reversible => log[i].reversible
  BY LeftRows DEF LeavesLog
<1>2. /\ \A j \in DOMAIN log : log[j].undoes \in Nat
      /\ \A j \in DOMAIN log, k \in Nat : k < j /\ k # 0 => k \in DOMAIN log
  BY LogRows
<1>3. \A j \in DOMAIN log : log[j].undoes # 0 => log[j].undoes \in DOMAIN log
  BY <1>2 DEF ReversalExact
<1> QED
  BY <1>1, <1>3 DEF ReversalExact

\* Whatever is paid, approved and reversed in whatever order, a transaction is
\* undone at most once, by one later transaction with the opposite sums that
\* itself stands, and it is marked as reversed exactly then.
THEOREM ReversalsAreExact == Spec => []ReversalExact
<1>1. Init => TypeInv /\ ReversalExact
  <2>1. Init => DOMAIN log = {}
    BY DEF Init
  <2> QED
    BY <2>1, InitTypeInv DEF ReversalExact
<1>2. TypeInv /\ ReversalExact /\ [Next]_vars => TypeInv' /\ ReversalExact'
  <2> SUFFICES ASSUME TypeInv, ReversalExact, [Next]_vars PROVE TypeInv' /\ ReversalExact'
    OBVIOUS
  <2>1. TypeInv'
    BY TypeInvStep
  <2>2. CASE UNCHANGED vars
    BY <2>1, <2>2 DEF vars, ReversalExact
  <2> QED
    BY <2>1, <2>2, LogEffect, LeftExact, WritingAddsRow, AddedRowExact, ReverseLatestExact
<1> QED
  BY <1>1, <1>2, PTL DEF Spec

-----------------------------------------------------------------------------
(* The ledger *)

\* A step leaves all balances and entries, or puts one transaction behind the
\* others, and its entries are what the step adds to the balances.
BalancesStay ==
  /\ balance' = balance /\ Len(log') = Len(log)
  /\ \A i \in 1 .. Len(log) : log'[i].delta = log[i].delta
ChangeEntered ==
  /\ Len(log') = Len(log) + 1
  /\ \A i \in 1 .. Len(log) : log'[i].delta = log[i].delta
  /\ balance' = [p \in Player |-> balance[p] + log'[Len(log) + 1].delta[p]]
EntersChanges == BalancesStay \/ ChangeEntered

\* No command changes a balance without entering it.
LEMMA EntersStep ==
  ASSUME TypeInv, [Next]_vars
  PROVE  EntersChanges
<1>0. Len(log) \in Nat /\ DOMAIN log = 1 .. Len(log)
  BY LogRows
<1>1. CASE UNCHANGED vars
  BY <1>1 DEF vars, EntersChanges, BalancesStay
<1>2. CASE LeavesLog
  <2>1. log' \in Seq(TransactionRow)
    BY TypeInvStep DEF TypeInv, TypeOK
  <2>2. Len(log') \in Nat /\ DOMAIN log' = 1 .. Len(log')
    BY <2>1
  <2>3. DOMAIN log' = DOMAIN log /\ balance' = balance
    BY <1>2 DEF LeavesLog
  <2>4. Len(log') = Len(log)
    BY <1>0, <2>2, <2>3, SameRange
  <2>5. \A i \in 1 .. Len(log) : log'[i].delta = log[i].delta
    BY <1>0, <1>2, <2>3, LeftRows
  <2> QED
    BY <2>3, <2>4, <2>5 DEF EntersChanges, BalancesStay
<1>3. CASE WritesLog \/ PaysToll
  <2>1. PICK tx : Commit(tx)
    BY <1>3, PaidToll DEF WritesLog
  <2>2. balance' = [p \in Player |-> balance[p] + tx.delta[p]]
    BY <2>1 DEF Commit, ApplyToBalances
  <2> QED
    BY <1>0, <2>1, <2>2, CommittedRows DEF EntersChanges, ChangeEntered
<1>4. CASE ReverseLatest
  <2>1. PICK i \in DOMAIN log :
          /\ Len(log') = Len(log) + 1
          /\ \A j \in DOMAIN log \ {i} : log'[j] = log[j]
          /\ log'[i] = [log[i] EXCEPT !.status = "REVERSED"]
          /\ Undoing(log'[Len(log) + 1], i)
          /\ ApplyToBalances(Negated(log[i].delta))
    BY <1>4, ReversedRows
  <2>2. log'[i].delta = log[i].delta
    BY <2>1, LogRows DEF TransactionRow
  <2>3. balance' = [p \in Player |-> balance[p] + log'[Len(log) + 1].delta[p]]
    BY <2>1 DEF Undoing, ApplyToBalances
  <2> QED
    BY <1>0, <2>1, <2>2, <2>3 DEF EntersChanges, ChangeEntered
<1> QED
  BY <1>1, <1>2, <1>3, <1>4, LogEffect

\* f adds up the entries of p, as LedgerSum does.
AddsUp(p, f) ==
  f = [n \in 0 .. Len(log) |-> IF n = 0 THEN 0 ELSE f[n - 1] + log[n].delta[p]]

\* The inductive invariant of the ledger: the entries of a player can be added
\* up, and whatever adds them up ends at what the player has gained.
LedgerInv ==
  \A p \in Player :
    /\ \E f : AddsUp(p, f)
    /\ \A f : AddsUp(p, f) => f[Len(log)] = balance[p] - InitialBalance[p]

\* No transaction, nothing gained.
LEMMA InitLedgerInv == Init => LedgerInv
<1> SUFFICES ASSUME Init, NEW p \in Player
             PROVE  /\ \E f : AddsUp(p, f)
                    /\ \A f : AddsUp(p, f) => f[Len(log)] = balance[p] - InitialBalance[p]
  BY DEF LedgerInv
<1>1. /\ log = <<>> /\ Len(log) = 0
      /\ balance[p] = InitialBalance[p] /\ InitialBalance[p] \in Nat
  BY SetupAssumption DEF Init
<1>2. AddsUp(p, [n \in 0 .. Len(log) |-> 0])
  BY <1>1 DEF AddsUp
<1>3. \A f : AddsUp(p, f) => f[0] = 0
  BY <1>1 DEF AddsUp
<1> QED
  BY <1>1, <1>2, <1>3

\* A step that leaves balances and entries leaves the sums.
LEMMA StayingKeepsLedger ==
  ASSUME TypeInv, LedgerInv, BalancesStay
  PROVE  LedgerInv'
<1>1. ASSUME NEW p \in Player, NEW f PROVE AddsUp(p, f)' <=> AddsUp(p, f)
  BY LogRows DEF AddsUp, BalancesStay
<1> QED
  BY <1>1 DEF LedgerInv, BalancesStay

\* An entered change adds its entry to both sides.
LEMMA EnteringKeepsLedger ==
  ASSUME TypeInv, TypeInv', LedgerInv, ChangeEntered
  PROVE  LedgerInv'
<1> SUFFICES ASSUME NEW p \in Player
             PROVE  /\ \E f : AddsUp(p, f)'
                    /\ \A f : AddsUp(p, f)' => f[Len(log')] = balance'[p] - InitialBalance[p]
  BY DEF LedgerInv
<1> DEFINE n == Len(log)
           d(i) == log[i].delta[p]
           e(i) == log'[i].delta[p]
<1>1. /\ n \in Nat /\ Len(log') = n + 1
      /\ \A i \in 1 .. n : e(i) = d(i)
      /\ balance'[p] = balance[p] + e(n + 1)
  BY LogRows DEF ChangeEntered
<1>2. balance[p] \in Nat /\ InitialBalance[p] \in Nat /\ e(n + 1) \in Int
  <2>1. log' \in Seq(TransactionRow)
    BY DEF TypeInv, TypeOK
  <2>2. log'[n + 1] \in TransactionRow
    BY <1>1, <2>1
  <2>3. e(n + 1) \in Int
    BY <2>2 DEF TransactionRow
  <2> QED
    BY <2>3, SetupAssumption DEF TypeInv, TypeOK
<1>3. \A f : AddsUp(p, f) <=>
        f = [i \in 0 .. n |-> IF i = 0 THEN 0 ELSE f[i - 1] + d(i)]
  BY DEF AddsUp
<1>4. \A f : AddsUp(p, f)' <=>
        f = [i \in 0 .. n + 1 |-> IF i = 0 THEN 0 ELSE f[i - 1] + e(i)]
  BY <1>1 DEF AddsUp
<1>5. \A f : AddsUp(p, f) => f[n] = balance[p] - InitialBalance[p]
  BY DEF LedgerInv
<1>6. PICK g : AddsUp(p, g)
  BY DEF LedgerInv
<1> HIDE DEF n, d, e
<1>7. \E f : AddsUp(p, f)'
  <2> DEFINE h == [i \in 0 .. n + 1 |-> IF i = n + 1 THEN g[n] + e(n + 1) ELSE g[i]]
  <2>1. /\ g[0] = 0
        /\ \A i \in 1 .. n : g[i] = g[i - 1] + e(i)
    BY <1>1, <1>3, <1>6
  <2>2. ASSUME NEW i \in 0 .. n + 1
        PROVE  h[i] = IF i = 0 THEN 0 ELSE h[i - 1] + e(i)
    BY <1>1, <2>1
  <2>3. h = [i \in 0 .. n + 1 |-> IF i = 0 THEN 0 ELSE h[i - 1] + e(i)]
    BY <2>2
  <2> QED
    BY <1>4, <2>3
<1>8. ASSUME NEW f, AddsUp(p, f)'
      PROVE  f[n + 1] = balance'[p] - InitialBalance[p]
  <2> DEFINE h == [i \in 0 .. n |-> f[i]]
  <2>1. /\ f[0] = 0
        /\ \A i \in 1 .. n + 1 : f[i] = f[i - 1] + e(i)
    BY <1>1, <1>4, <1>8
  <2>2. ASSUME NEW i \in 0 .. n
        PROVE  h[i] = IF i = 0 THEN 0 ELSE h[i - 1] + d(i)
    BY <1>1, <2>1
  <2>3. h = [i \in 0 .. n |-> IF i = 0 THEN 0 ELSE h[i - 1] + d(i)]
    BY <2>2
  <2>4. h[n] = balance[p] - InitialBalance[p]
    BY <1>3, <1>5, <2>3
  <2>5. f[n + 1] = f[n] + e(n + 1) /\ h[n] = f[n]
    BY <1>1, <2>1
  <2> QED
    BY <1>1, <1>2, <2>4, <2>5
<1> QED
  BY <1>1, <1>7, <1>8

\* LedgerInv says that the sums LedgerSum computes are what was gained.
LEMMA LedgerAdds ==
  ASSUME TypeInv, LedgerInv
  PROVE  LedgerExplainsBalances
<1> SUFFICES ASSUME NEW p \in Player
             PROVE  balance[p] = InitialBalance[p] + LedgerSum(p)
  BY DEF LedgerExplainsBalances
<1> DEFINE f == CHOOSE g : AddsUp(p, g)
<1>1. AddsUp(p, f)
  BY DEF LedgerInv
<1>2. LedgerSum(p) = f[Len(log)]
  BY DEF LedgerSum, AddsUp
<1> HIDE DEF f
<1>3. f[Len(log)] = balance[p] - InitialBalance[p]
  BY <1>1 DEF LedgerInv
<1>4. balance[p] \in Nat /\ InitialBalance[p] \in Nat
  BY SetupAssumption DEF TypeInv, TypeOK
<1> QED
  BY <1>2, <1>3, <1>4

\* LedgerInv holds in every reachable state of every room.
THEOREM LedgerInvariant == Spec => [](TypeInv /\ LedgerInv)
<1>1. Init => TypeInv /\ LedgerInv
  BY InitTypeInv, InitLedgerInv
<1>2. TypeInv /\ LedgerInv /\ [Next]_vars => TypeInv' /\ LedgerInv'
  BY TypeInvStep, EntersStep, StayingKeepsLedger, EnteringKeepsLedger DEF EntersChanges
<1> QED
  BY <1>1, <1>2, PTL DEF Spec

\* The ledger explains every balance: the cash of a player is what he was
\* seated with plus all his entries, those of reversed transactions and of
\* their reversals included, in a game of any length.
THEOREM LedgersExplainBalances == Spec => []LedgerExplainsBalances
<1>1. TypeInv /\ LedgerInv => LedgerExplainsBalances
  BY LedgerAdds
<1> QED
  BY <1>1, LedgerInvariant, PTL

-----------------------------------------------------------------------------
(* A toll stands once its turn is over *)

\* Turns are only ever added, and a landing belongs to a turn that is there.
LandingTurns == \A l \in LandingId : landing[l].turn <= Len(turn)

\* The inductive invariant behind TollStands.
StandInv == TurnInv /\ LockInv /\ TollInv /\ LandingTurns

\* The turns of a room only grow in number.
LEMMA TurnsGrow ==
  ASSUME TurnInv, TurnInv', Next
  PROVE  Len(turn) \in Nat /\ Len(turn') \in Nat /\ Len(turn) <= Len(turn')
<1>1. /\ turn \in Seq(TurnRow) /\ turn' \in Seq(TurnRow)
      /\ Len(turn) \in Nat /\ Len(turn') \in Nat
  BY DEF TurnInv, TypeInv, TypeOK
<1>2. CASE DOMAIN turn' = DOMAIN turn
  BY <1>1, <1>2, SameRange
<1>3. CASE Start
  <2>1. Len(turn) = 0
    BY <1>3 DEF Start, TurnInv, LobbyHasNoTurns
  <2> QED
    BY <1>1, <2>1
<1>4. CASE status = "PLAYING" /\ DiceMode = "ELECTRONIC" /\ PassesOn
  <2>1. Len(turn') > Len(turn)
    BY <1>4, PassOnTurn DEF PassesOn
  <2> QED
    BY <1>1, <2>1
<1> QED
  BY <1>1, <1>2, <1>3, <1>4, TurnsAdded

\* A landing stays on its turn; a new one is on a turn that is there.
LEMMA LandingsStayOnTurn ==
  ASSUME LockInv, Next, NEW l \in LandingId
  PROVE  landing'[l].turn = landing[l].turn \/ landing'[l].turn \in {0} \cup DOMAIN turn
<1>0. landing[l] \in LandingRow /\ TypeInv
  BY DEF LockInv, TypeInv, TypeOK
<1>1. ASSUME NEW L, NEW s, landing' = WithStatus(L, s)
      PROVE  landing'[l].turn = landing[l].turn
  BY <1>0, <1>1 DEF WithStatus, LandingRow
<1>2. CASE TurnStep
  BY <1>1, <1>2 DEF TurnStep, Start, Roll, EndTurn, SkipTurn, ForceNext, InvalidateRoll
<1>3. ASSUME NEW k \in LandingId, NEW old, DOMAIN old = LandingId, old[l].turn = landing[l].turn,
             NEW p, NEW o, NEW n, NEW t, landing' = [old EXCEPT ![k] = NewLanding(p, o, n, t)]
      PROVE  landing'[l].turn \in {landing[l].turn, n}
  <2>1. landing'[l] = IF l = k THEN NewLanding(p, o, n, t) ELSE old[l]
    BY <1>3
  <2> QED
    BY <1>3, <2>1 DEF NewLanding
<1>4. CASE LandingStep
  <2>1. ASSUME NEW k \in LandingId, NEW p \in Player, NEW o \in Property,
               DeclareLandingOnTurn(p, o, k)
        PROVE  landing'[l].turn \in {landing[l].turn} \cup DOMAIN turn
    <3>1. PICK n \in DOMAIN turn :
            landing' = [WithStatus(LandingsOf(n, {"DECLARED"}), "INVALIDATED")
                          EXCEPT ![k] = NewLanding(p, o, n, "DECLARED")]
      BY <2>1 DEF DeclareLandingOnTurn
    <3> DEFINE old == WithStatus(LandingsOf(n, {"DECLARED"}), "INVALIDATED")
    <3>2. DOMAIN old = LandingId /\ old[l].turn = landing[l].turn
      BY <1>0 DEF WithStatus, LandingRow
    <3> HIDE DEF old
    <3>3. landing' = [old EXCEPT ![k] = NewLanding(p, o, n, "DECLARED")]
      BY <3>1 DEF old
    <3>4. landing'[l].turn \in {landing[l].turn, n}
      BY <1>3, <3>2, <3>3
    <3> QED
      BY <3>4
  <2>2. ASSUME NEW k \in LandingId, NEW p \in Player, NEW r \in RequestId,
               DeclareStartOnTurn(p, k, r)
        PROVE  landing'[l].turn \in {landing[l].turn} \cup DOMAIN turn
    <3>1. PICK n \in DOMAIN turn :
            landing' = [WithStatus(LandingsOf(n, {"DECLARED", "CONFIRMED"}), "INVALIDATED")
                          EXCEPT ![k] = NewLanding(p, Nil, n, "CONFIRMED")]
      BY <2>2 DEF DeclareStartOnTurn
    <3> DEFINE old == WithStatus(LandingsOf(n, {"DECLARED", "CONFIRMED"}), "INVALIDATED")
    <3>2. DOMAIN old = LandingId /\ old[l].turn = landing[l].turn
      BY <1>0 DEF WithStatus, LandingRow
    <3> HIDE DEF old
    <3>3. landing' = [old EXCEPT ![k] = NewLanding(p, Nil, n, "CONFIRMED")]
      BY <3>1 DEF old
    <3>4. landing'[l].turn \in {landing[l].turn, n}
      BY <1>3, <3>2, <3>3
    <3> QED
      BY <3>4
  <2>3. ASSUME NEW k \in LandingId, NEW p \in Player, NEW o, NEW t,
               landing' = [AdvancedLandings(p) EXCEPT ![k] = NewLanding(p, o, 0, t)]
        PROVE  landing'[l].turn \in {landing[l].turn, 0}
    <3> DEFINE old == AdvancedLandings(p)
    <3>1. DOMAIN old = LandingId /\ old[l].turn = landing[l].turn
      <4>1. old[l] \in {landing[l], [landing[l] EXCEPT !.status = "INVALIDATED"],
                        [landing[l] EXCEPT !.status = "CLOSED"]}
        BY DEF AdvancedLandings
      <4> QED
        BY <1>0, <4>1 DEF AdvancedLandings, LandingRow
    <3> HIDE DEF old
    <3>2. landing' = [old EXCEPT ![k] = NewLanding(p, o, 0, t)]
      BY <2>3 DEF old
    <3> QED
      BY <1>3, <3>1, <3>2
  <2>4. ASSUME NEW k \in LandingId, NEW p \in Player, NEW o \in Property,
               DeclareLandingOnBoard(p, o, k)
        PROVE  landing'[l].turn \in {landing[l].turn, 0}
    BY <2>3, <2>4 DEF DeclareLandingOnBoard
  <2>5. ASSUME NEW k \in LandingId, NEW p \in Player, NEW r \in RequestId,
               DeclareStartOnBoard(p, k, r)
        PROVE  landing'[l].turn \in {landing[l].turn, 0}
    BY <2>3, <2>5 DEF DeclareStartOnBoard
  <2>6. ASSUME NEW k \in LandingId, NEW b \in BOOLEAN, ConfirmLanding(k, b)
        PROVE  landing'[l].turn = landing[l].turn
    BY <1>0, <2>6 DEF ConfirmLanding, TypeInv, TypeOK, LandingRow
  <2>7. ASSUME NEW k \in LandingId, CancelLandingPropertyActions(k)
        PROVE  landing'[l].turn = landing[l].turn
    BY <1>0, <2>7 DEF CancelLandingPropertyActions, TypeInv, TypeOK, LandingRow
  <2> QED
    BY <1>4, <2>1, <2>2, <2>4, <2>5, <2>6, <2>7 DEF LandingStep
<1>5. CASE DeedRequestStep \/ CashRequestStep
  BY <1>0, <1>5, DeedRequestEffect, CashRequestEffect
  DEF FilesDeedRequest, FilesCashRequest, FileFor, File
<1>6. CASE SettleStep \/ MoneyStep \/ BankStep
  BY <1>6, SettlingMoves
<1>7. CASE RoomStep
  <2>1. CASE FinishForced
    <3>1. landing'[l] \in {landing[l], [landing[l] EXCEPT !.status = "INVALIDATED",
                                                        !.cancelled = TRUE]}
      BY <2>1 DEF FinishForced
    <3> QED
      BY <1>0, <3>1 DEF LandingRow
  <2> QED
    BY <1>7, <2>1 DEF RoomStep, SetApprovalMode, JoinMidgame, FinishNormal
<1> QED
  BY <1>2, <1>4, <1>5, <1>6, <1>7 DEF Next

\* Every step keeps landings on turns that are there.
LEMMA LandingTurnsStep ==
  ASSUME TurnInv, LockInv, LandingTurns, TurnInv', Next
  PROVE  LandingTurns'
<1>1. /\ Len(turn) \in Nat /\ Len(turn') \in Nat /\ Len(turn) <= Len(turn')
  BY TurnsGrow
<1>2. DOMAIN turn = 1 .. Len(turn)
  BY DEF TurnInv, TypeInv, TypeOK
<1>3. ASSUME NEW l \in LandingId PROVE landing'[l].turn <= Len(turn')
  <2>1. landing[l].turn \in Nat /\ landing[l].turn <= Len(turn)
    BY DEF LandingTurns, TurnInv, TypeInv, TypeOK, LandingRow
  <2> QED
    BY <1>1, <1>2, <2>1, LandingsStayOnTurn
<1> QED
  BY <1>1, <1>3 DEF LandingTurns

\* What is read of a toll in force: the row its settlement points to.
LEMMA TollOf ==
  ASSUME TollInv, NEW l \in LandingId, TollCommitted(l)
  PROVE  /\ settled[l] \in DOMAIN log /\ log[settled[l]].status = "COMMITTED"
         /\ log[settled[l]].type = "TOLL" /\ log[settled[l]].landing = l
  BY DEF TollInv, SettledToll, TollCommitted

\* No step undoes the toll of a landing that is not current any more.
LEMMA TollStandsStep ==
  ASSUME StandInv, [Next]_vars, NEW l \in LandingId, TollCommitted(l),
         \/ landing[l].status # "CONFIRMED"
         \/ landing[l].turn # 0 /\ landing[l].turn \notin ActiveTurns
  PROVE  TollCommitted(l)'
<1> DEFINE i == settled[l]
<1>1. /\ i \in DOMAIN log /\ i # 0 /\ log[i].status = "COMMITTED"
      /\ log[i].type = "TOLL" /\ log[i].landing = l
  BY TollOf DEF StandInv, TollCommitted
<1>2. ASSUME settled'[l] = i, log'[i].status = "COMMITTED" PROVE TollCommitted(l)'
  BY <1>1, <1>2 DEF TollCommitted
<1>3. TypeInv
  BY DEF StandInv, TurnInv
<1>4. CASE UNCHANGED vars
  BY <1>1, <1>2, <1>4 DEF vars
<1>5. CASE LeavesLog
  BY <1>1, <1>2, <1>3, <1>5, LeftRows DEF LeavesLog
<1>6. CASE WritesLog
  BY <1>1, <1>2, <1>3, <1>6, CommittedRows DEF WritesLog
<1>7. CASE PaysToll
  <2>1. PICK k \in LandingId : \E tx :
          /\ TollOpen(k) /\ Commit(tx)
          /\ settled' = [settled EXCEPT ![k] = Len(log) + 1]
    BY <1>3, <1>7, PaidToll
  <2>2. k # l
    BY <1>1, <2>1 DEF TollOpen
  <2>3. settled'[l] = settled[l]
    BY <1>3, <2>1, <2>2 DEF TypeInv, TypeOK
  <2> QED
    BY <1>1, <1>2, <1>3, <2>1, <2>3, CommittedRows
<1>8. CASE ReverseLatest
  <2>1. PICK j \in DOMAIN log :
          /\ Undoable(j) /\ UNCHANGED settled
          /\ \A k \in DOMAIN log \ {j} : log'[k] = log[k]
    BY <1>3, <1>8, ReversedRows
  <2>2. i # j
    <3>1. SUFFICES ASSUME i = j PROVE FALSE
      OBVIOUS
    <3>2. /\ landing[l].status = "CONFIRMED"
          /\ landing[l].turn # 0 => turn[landing[l].turn].status = "ACTIVE"
      BY <1>1, <2>1, <3>1 DEF Undoable, TollStillOpen
    <3>3. landing[l].turn # 0 => landing[l].turn \in DOMAIN turn
      <4>1. landing[l].turn \in Nat /\ landing[l].turn <= Len(turn)
        BY <1>3 DEF StandInv, LandingTurns, TypeInv, TypeOK, LandingRow
      <4>2. Len(turn) \in Nat /\ DOMAIN turn = 1 .. Len(turn)
        BY <1>3 DEF TypeInv, TypeOK
      <4> QED
        BY <4>1, <4>2
    <3> QED
      BY <3>2, <3>3 DEF ActiveTurns
  <2> QED
    BY <1>1, <1>2, <2>1, <2>2
<1> QED
  BY <1>3, <1>4, <1>5, <1>6, <1>7, <1>8, LogEffect

\* Once a landing was closed or voided, or its turn has ended in whatever way,
\* the toll paid for it stands: no later command takes it back, not even where
\* no endTurn() has made it irreversible.
THEOREM TollsStand == Spec => TollStands
<1>1. Init => StandInv
  <2>1. Init => LandingTurns
    BY DEF Init, LandingTurns, NoLanding
  <2>2. Init => TurnInv
    BY InitTypeInv DEF Init, TurnInv, OneActiveTurn, ActiveTurns, LobbyHasNoTurns
  <2> QED
    BY <2>1, <2>2, InitLockInv, InitTollInv DEF StandInv
<1>2. StandInv /\ TurnInv' /\ LockInv' /\ [Next]_vars => StandInv'
  <2> SUFFICES ASSUME StandInv, TurnInv', LockInv', [Next]_vars PROVE StandInv'
    OBVIOUS
  <2>1. CASE UNCHANGED vars
    BY <2>1 DEF vars, StandInv, LandingTurns, TollInv, SettledToll, TollsNameLandings,
                TollOnce
  <2>2. CASE Next
    BY <2>2, TollStep, LandingTurnsStep DEF StandInv, TurnInv
  <2> QED
    BY <2>1, <2>2
<1>3. StandInv /\ [Next]_vars =>
        [\A l \in LandingId :
           ( /\ TollCommitted(l)
             /\ \/ landing[l].status # "CONFIRMED"
                \/ landing[l].turn # 0 /\ landing[l].turn \notin ActiveTurns )
           => TollCommitted(l)']_vars
  BY TollStandsStep
<1> QED
  BY <1>1, <1>2, <1>3, TurnInvariant, LockInvariant, PTL DEF Spec, TollStands

-----------------------------------------------------------------------------
(* The requests implement RequestLifecycle *)

\* How a step may change the statuses of the requests: cancel some and file at
\* most one, reject one, execute one with a committed transaction, or reverse
\* one.
FilesOrCancels ==
  \E S \in SUBSET Pending, F \in SUBSET {r \in RequestId : request[r].status = "NONE"} :
    /\ \A f, g \in F : f = g
    /\ \A r \in RequestId :
         request'[r].status = IF r \in S THEN "CANCELLED"
                              ELSE IF r \in F THEN "PENDING" ELSE request[r].status
OthersStay(r) == \A s \in RequestId \ {r} : request'[s].status = request[s].status
RejectsOne ==
  \E r \in RequestId : /\ request[r].status = "PENDING" /\ request'[r].status = "REJECTED"
                       /\ OthersStay(r)
ExecutesOne ==
  \E r \in RequestId : \E tx :
    /\ request[r].status = "PENDING" /\ request'[r].status = "EXECUTED" /\ OthersStay(r)
    /\ Commit(tx) /\ tx.request = r /\ tx.status = "COMMITTED"
ReversesOne ==
  \E r \in RequestId : /\ request[r].status = "EXECUTED" /\ request'[r].status = "REVERSED"
                       /\ OthersStay(r)
MovesPhases == FilesOrCancels \/ RejectsOne \/ ExecutesOne \/ ReversesOne

\* Some requests are cancelled and at most one is filed.
LEMMA PhasesMoved ==
  ASSUME NEW S \in SUBSET Pending,
         NEW F \in SUBSET {r \in RequestId : request[r].status = "NONE"},
         \A f, g \in F : f = g,
         \A r \in RequestId :
           request'[r].status = IF r \in S THEN "CANCELLED"
                                ELSE IF r \in F THEN "PENDING" ELSE request[r].status
  PROVE  FilesOrCancels
  BY DEF FilesOrCancels

\* Requests that keep their status.
LEMMA PhasesStay ==
  ASSUME \A r \in RequestId : request'[r].status = request[r].status
  PROVE  FilesOrCancels
<1> DEFINE none == {r \in RequestId : request[r].status = "NONE"}
<1>1. {} \in SUBSET Pending /\ {} \in SUBSET none
  OBVIOUS
<1> QED
  BY <1>1, PhasesMoved

\* Cancelling pending requests.
LEMMA PhasesCancelled ==
  ASSUME TypeInv, NEW S \in SUBSET Pending, request' = Cancelled(S)
  PROVE  FilesOrCancels
<1> DEFINE none == {r \in RequestId : request[r].status = "NONE"}
<1>1. \A r \in RequestId :
        request'[r].status = IF r \in S THEN "CANCELLED" ELSE request[r].status
  BY CancelledFields
<1>2. {} \in SUBSET none /\ \A r \in RequestId : r \notin {}
  OBVIOUS
<1>3. \A r \in RequestId :
        request'[r].status = IF r \in S THEN "CANCELLED"
                             ELSE IF r \in {} THEN "PENDING" ELSE request[r].status
  BY <1>1
<1> QED
  BY <1>2, <1>3, PhasesMoved

\* Filing one request, others may be cancelled in the same step.
LEMMA PhaseFiled ==
  ASSUME TypeInv, NEW S \in SUBSET Pending, NEW r \in RequestId, request[r].status = "NONE",
         NEW row, row.status = "PENDING",
         \/ request' = [Cancelled(S) EXCEPT ![r] = row]
         \/ S = {} /\ request' = [request EXCEPT ![r] = row]
  PROVE  FilesOrCancels
<1> DEFINE none == {s \in RequestId : request[s].status = "NONE"}
<1>1. r \notin S /\ {r} \in SUBSET none
  BY DEF Pending
<1>2. request'[r].status = "PENDING"
  BY DEF Cancelled, TypeInv, TypeOK
<1>3. ASSUME NEW s \in RequestId \ {r}
      PROVE  request'[s].status = IF s \in S THEN "CANCELLED" ELSE request[s].status
  <2>1. request'[s] = Cancelled(S)[s]
    BY <1>3 DEF Cancelled, TypeInv, TypeOK
  <2> QED
    BY <2>1, CancelledFields
<1>4. \A s \in RequestId :
        request'[s].status = IF s \in S THEN "CANCELLED"
                             ELSE IF s \in {r} THEN "PENDING" ELSE request[s].status
  BY <1>1, <1>2, <1>3
<1>5. \A f, g \in {r} : f = g
  OBVIOUS
<1> QED
  BY <1>1, <1>4, <1>5, PhasesMoved

\* Executing a pending request.
LEMMA PhaseExecuted ==
  ASSUME TypeInv, NEW r \in RequestId, request[r].status = "PENDING",
         NEW tx \in TransactionRow, tx.status = "COMMITTED", Execute(r, tx)
  PROVE  ExecutesOne
<1> DEFINE row == [tx EXCEPT !.request = r]
<1>1. row.request = r /\ row.status = "COMMITTED"
  BY DEF TransactionRow
<1>2. Commit(row)
  BY DEF Execute
<1>3. request'[r].status = "EXECUTED" /\ OthersStay(r)
  BY DEF Execute, OthersStay, TypeInv, TypeOK, RequestRow
<1> HIDE DEF row
<1> QED
  BY <1>1, <1>2, <1>3 DEF ExecutesOne

\* Turns, landings and the room itself cancel requests, a START landing files
\* one.
LEMMA QuietPhases ==
  ASSUME TypeInv, TurnStep \/ LandingStep \/ RoomStep
  PROVE  FilesOrCancels
<1>1. ASSUME UNCHANGED request PROVE FilesOrCancels
  BY <1>1, PhasesStay
<1>2. CASE TurnStep
  <2>1. ASSUME NEW n, CancelRequests(PendingOfTurn(n)) PROVE FilesOrCancels
    <3>1. PendingOfTurn(n) \in SUBSET Pending
      BY DEF PendingOfTurn
    <3> QED
      BY <2>1, <3>1, PhasesCancelled DEF CancelRequests
  <2> QED
    BY <1>1, <1>2, <2>1 DEF TurnStep, Start, Roll, EndTurn, SkipTurn, ForceNext, InvalidateRoll
<1>3. CASE RoomStep
  <2>1. CASE FinishForced
    BY <2>1, PhasesCancelled DEF FinishForced
  <2> QED
    BY <1>1, <1>3, <2>1 DEF RoomStep, SetApprovalMode, JoinMidgame, FinishNormal
<1>4. CASE LandingStep
  <2>0. \A L : PendingOfLandings(L) \in SUBSET Pending
    BY DEF PendingOfLandings
  <2>1. ASSUME NEW L, CancelRequests(PendingOfLandings(L)) PROVE FilesOrCancels
    BY <2>0, <2>1, PhasesCancelled DEF CancelRequests
  <2>2. ASSUME NEW p \in Player, NEW l \in LandingId, NEW r \in RequestId,
               request[r].status = "NONE", NEW L, NEW n,
               request' = [Cancelled(PendingOfLandings(L)) EXCEPT ![r] = StartRewardRequest(p, l, n)]
        PROVE  FilesOrCancels
    <3>1. StartRewardRequest(p, l, n).status = "PENDING"
      BY DEF StartRewardRequest, NoRequest
    <3> QED
      BY <2>0, <2>2, <3>1, PhaseFiled
  <2>3. ASSUME NEW p \in Player, NEW l \in LandingId, NEW r \in RequestId,
               DeclareStartOnTurn(p, l, r)
        PROVE  FilesOrCancels
    <3>1. PICK n \in DOMAIN turn :
            request' = [Cancelled(PendingOfLandings(LandingsOf(n, {"CONFIRMED"})))
                          EXCEPT ![r] = StartRewardRequest(p, l, n)]
      BY <2>3 DEF DeclareStartOnTurn
    <3>2. request[r].status = "NONE"
      BY <2>3 DEF DeclareStartOnTurn
    <3> QED
      BY <2>2, <3>1, <3>2
  <2>4. ASSUME NEW p \in Player, NEW l \in LandingId, NEW r \in RequestId,
               DeclareStartOnBoard(p, l, r)
        PROVE  FilesOrCancels
    BY <2>2, <2>4 DEF DeclareStartOnBoard
  <2> QED
    BY <1>1, <1>4, <2>1, <2>3, <2>4
    DEF LandingStep, DeclareLandingOnTurn, DeclareLandingOnBoard, ConfirmLanding,
        CancelLandingPropertyActions
<1> QED
  BY <1>2, <1>3, <1>4

\* Every step moves the requests as RequestLifecycle lets them.
LEMMA PhaseStep ==
  ASSUME LockInv, Next
  PROVE  MovesPhases
<1>0. TypeInv /\ request \in [RequestId -> RequestRow]
  BY DEF LockInv, TypeInv, TypeOK
<1>1. ASSUME UNCHANGED request PROVE MovesPhases
  BY <1>1, PhasesStay DEF MovesPhases
<1>2. CASE DeedRequestStep \/ CashRequestStep
  <2>1. ASSUME NEW r \in RequestId, request[r].status = "NONE",
               NEW row, row.status = "PENDING", request' = [request EXCEPT ![r] = row]
        PROVE  MovesPhases
    <3>1. {} \in SUBSET Pending
      OBVIOUS
    <3> QED
      BY <1>0, <2>1, <3>1, PhaseFiled DEF MovesPhases
  <2>2. CASE DeedRequestStep
    <3>1. PICK p \in Player, o \in Property, r \in RequestId, row \in RequestRow :
            /\ request[r].status = "NONE" /\ row.status = "PENDING" /\ FileFor(o, r, row)
      BY <1>0, <2>2, DeedRequestEffect DEF FilesDeedRequest, MayFileFor, MayFile
    <3> DEFINE new == [row EXCEPT !.prop = o, !.mortgaged = prop[o].mortgaged]
    <3>2. new.status = "PENDING" /\ request' = [request EXCEPT ![r] = new]
      BY <3>1 DEF FileFor, File, RequestRow
    <3> HIDE DEF new
    <3> QED
      BY <2>1, <3>1, <3>2
  <2>3. CASE CashRequestStep
    BY <1>0, <2>1, <2>3, CashRequestEffect DEF FilesCashRequest, File
  <2> QED
    BY <1>2, <2>2, <2>3
<1>3. CASE SettleStep
  <2>1. ASSUME NEW r \in RequestId, ConfirmTrade(r) PROVE MovesPhases
    <3>1. \A s \in RequestId : request'[s].status = request[s].status
      BY <1>0, <2>1 DEF ConfirmTrade, RequestRow
    <3> QED
      BY <3>1, PhasesStay DEF MovesPhases
  <2>2. ASSUME NEW r \in RequestId, Reject(r) PROVE MovesPhases
    BY <1>0, <2>2 DEF Reject, RequestRow, MovesPhases, RejectsOne, OthersStay
  <2>3. ASSUME NEW r \in RequestId, ApproveCash(r) PROVE MovesPhases
    BY <1>0, <2>3, ApproveCashEffect, PhaseExecuted DEF ExecutesPlainly, Plain, MovesPhases
  <2>4. ASSUME NEW r \in RequestId, ApproveDeed(r) PROVE MovesPhases
    BY <1>0, <2>4, ApproveDeedEffect, DeedTransaction, PhaseExecuted
    DEF ExecutesDeed, MovesPhases
  <2> QED
    BY <1>3, <2>1, <2>2, <2>3, <2>4 DEF SettleStep, Approve, ApproveCash, ApproveDeed
<1>4. CASE ReverseLatest
  <2>1. PICK i \in DOMAIN log :
          log[i].status = "COMMITTED" /\ request' = RequestReversed(log[i])
    BY <1>4 DEF ReverseLatest, Undoable
  <2>2. CASE log[i].request = Nil
    BY <1>1, <2>1, <2>2 DEF RequestReversed
  <2>3. CASE log[i].request # Nil
    <3> DEFINE r == log[i].request
    <3>1. r \in RequestId
      BY <1>0, <2>3, LogRows DEF TransactionRow
    <3>2. request[r].status = "EXECUTED"
      BY <2>1, <2>3 DEF LockInv, RequestReceipts
    <3>3. request' = [request EXCEPT ![r].status = "REVERSED"]
      BY <2>1, <2>3 DEF RequestReversed
    <3> HIDE DEF r
    <3>4. request'[r].status = "REVERSED" /\ OthersStay(r)
      BY <1>0, <3>1, <3>3 DEF RequestRow, OthersStay
    <3> QED
      BY <3>1, <3>2, <3>4 DEF MovesPhases, ReversesOne
  <2> QED
    BY <2>2, <2>3
<1>5. CASE MoneyStep
  BY <1>0, <1>1, <1>4, <1>5, MovesCashEffect DEF MoneyStep, MovesCash
<1>6. CASE BankStep
  BY <1>1, <1>6 DEF BankStep, AdjustProperty, AddSkipTurns, ConsumeSkip
<1> QED
  BY <1>0, <1>2, <1>3, <1>5, <1>6, QuietPhases DEF Next, MovesPhases

\* An executed request has the transaction that executed it in force. With
\* RequestReceipts this makes InForce a function of the status.
ExecutedHasReceipt ==
  \A r \in RequestId :
    request[r].status = "EXECUTED" =>
      \E i \in DOMAIN log : log[i].request = r /\ log[i].status = "COMMITTED"

\* The inductive invariant of the refinement.
ReceiptInv == LockInv /\ ExecutedHasReceipt

\* No step takes the receipt of a request that stays executed.
LEMMA ReceiptStep ==
  ASSUME ReceiptInv, Next
  PROVE  ExecutedHasReceipt'
<1>0. TypeInv /\ LockInv
  BY DEF ReceiptInv, LockInv
<1> SUFFICES ASSUME NEW r \in RequestId, request'[r].status = "EXECUTED"
             PROVE  \E i \in DOMAIN log' :
                      log'[i].request = r /\ log'[i].status = "COMMITTED"
  BY DEF ExecutedHasReceipt
<1>1. CASE request[r].status # "EXECUTED"
  <2>1. PICK tx : Commit(tx) /\ tx.request = r /\ tx.status = "COMMITTED"
    BY <1>0, <1>1, PhaseStep DEF MovesPhases, FilesOrCancels, RejectsOne, ExecutesOne,
                                 ReversesOne, OthersStay
  <2> QED
    BY <1>0, <2>1, CommittedRows
<1>2. CASE request[r].status = "EXECUTED"
  <2>1. PICK i \in DOMAIN log : log[i].request = r /\ log[i].status = "COMMITTED"
    BY <1>2 DEF ReceiptInv, ExecutedHasReceipt
  <2>2. CASE LeavesLog
    <3>1. i \in DOMAIN log'
      BY <2>2 DEF LeavesLog
    <3> QED
      BY <1>0, <2>1, <2>2, <3>1, LeftRows
  <2>3. CASE WritesLog \/ PaysToll
    <3>1. PICK tx : Commit(tx)
      BY <1>0, <2>3, PaidToll DEF WritesLog
    <3> QED
      BY <1>0, <2>1, <3>1, CommittedRows
  <2>4. CASE ReverseLatest
    <3>1. PICK j \in DOMAIN log :
            /\ DOMAIN log = 1 .. Len(log) /\ Len(log) \in Nat
            /\ DOMAIN log' = 1 .. Len(log) + 1
            /\ \A k \in DOMAIN log \ {j} : log'[k] = log[k]
            /\ request' = RequestReversed(log[j])
      BY <1>0, <2>4, ReversedRows
    <3>2. j # i
      BY <1>0, <2>1, <3>1, NilAssumption DEF RequestReversed, TypeInv, TypeOK, RequestRow
    <3> QED
      BY <2>1, <3>1, <3>2
  <2> QED
    BY <1>0, <2>2, <2>3, <2>4, LogEffect
<1> QED
  BY <1>1, <1>2

\* ReceiptInv holds in every reachable state of every room.
THEOREM ReceiptInvariant == Spec => []ReceiptInv
<1>1. Init => ReceiptInv
  BY InitLockInv DEF Init, ReceiptInv, ExecutedHasReceipt, NoRequest
<1>2. ReceiptInv /\ LockInv' /\ [Next]_vars => ReceiptInv'
  <2> SUFFICES ASSUME ReceiptInv, LockInv', [Next]_vars PROVE ReceiptInv'
    OBVIOUS
  <2>1. CASE UNCHANGED vars
    BY <2>1 DEF vars, ReceiptInv, ExecutedHasReceipt
  <2> QED
    BY <2>1, ReceiptStep DEF ReceiptInv
<1> QED
  BY <1>1, <1>2, LockInvariant, PTL DEF Spec

\* A request has one transaction in force while it is executed, else none.
InForceByStatus ==
  \A r \in RequestId : InForce(r) = IF request[r].status = "EXECUTED" THEN 1 ELSE 0

\* Receipts make it so.
LEMMA ReceiptsInForce ==
  ASSUME ReceiptInv
  PROVE  InForceByStatus
<1> SUFFICES ASSUME NEW r \in RequestId
             PROVE  InForce(r) = IF request[r].status = "EXECUTED" THEN 1 ELSE 0
  BY DEF InForceByStatus
<1> DEFINE I == {i \in DOMAIN log : log[i].request = r /\ log[i].status = "COMMITTED"}
<1>1. \A i \in I : request[r].status = "EXECUTED" /\ \A j \in I : j = i
  BY NilAssumption DEF ReceiptInv, LockInv, RequestReceipts
<1>2. CASE request[r].status = "EXECUTED"
  <2>1. PICK i \in DOMAIN log : i \in I
    BY <1>2 DEF ReceiptInv, ExecutedHasReceipt
  <2>2. I = {i}
    BY <1>1, <2>1
  <2> HIDE DEF I
  <2>3. Cardinality(I) = 1
    BY <2>2, FS_Singleton
  <2> QED
    BY <1>2, <2>3 DEF InForce, I
<1>3. CASE request[r].status # "EXECUTED"
  <2>1. I = {}
    BY <1>1, <1>3
  <2> HIDE DEF I
  <2>2. Cardinality(I) = 0
    BY <2>1, FS_EmptySet
  <2> QED
    BY <1>3, <2>2 DEF InForce, I
<1> QED
  BY <1>2, <1>3

\* What RequestLifecycle calls the phase and the effect of the requests.
Phase == [r \in RequestId |-> request[r].status]
Effect == [r \in RequestId |-> InForce(r)]

\* A step of the room is a step of RequestLifecycle or leaves its variables.
LEMMA LifecycleStep ==
  ASSUME LockInv, InForceByStatus, InForceByStatus', [Next]_vars
  PROVE  [Lifecycle!Next]_(Lifecycle!vars)
<1> DEFINE one(s) == IF s = "EXECUTED" THEN 1 ELSE 0
<1>1. /\ Effect = [r \in RequestId |-> one(request[r].status)]
      /\ Effect' = [r \in RequestId |-> one(request'[r].status)]
  BY DEF InForceByStatus, Effect
<1> HIDE DEF Effect
<1>2. Phase' = [r \in RequestId |-> request'[r].status]
  BY DEF Phase
<1>3. CASE UNCHANGED vars
  <2>1. UNCHANGED <<Phase, Effect>>
    BY <1>1, <1>3 DEF Phase, vars
  <2> QED
    BY <2>1 DEF Lifecycle!vars, Phase, Effect
<1>4. CASE FilesOrCancels
  <2>1. PICK S \in SUBSET Pending, F \in SUBSET {r \in RequestId : request[r].status = "NONE"} :
          /\ \A f, g \in F : f = g
          /\ \A r \in RequestId :
               request'[r].status = IF r \in S THEN "CANCELLED"
                                    ELSE IF r \in F THEN "PENDING" ELSE request[r].status
    BY <1>4 DEF FilesOrCancels
  <2>2. Effect' = Effect
    BY <1>1, <2>1 DEF Pending
  <2>3. /\ S \subseteq {r \in RequestId : Phase[r] = "PENDING"} /\ S \in SUBSET RequestId
        /\ F \in SUBSET {r \in RequestId : Phase[r] = "NONE"}
        /\ Phase' = [r \in RequestId |-> IF r \in S THEN "CANCELLED"
                                         ELSE IF r \in F THEN "PENDING" ELSE Phase[r]]
    BY <1>2, <2>1 DEF Phase, Pending
  <2> QED
    BY <2>1, <2>2, <2>3 DEF Lifecycle!Next, Lifecycle!Cancel, Phase, Effect
<1>5. CASE RejectsOne \/ ExecutesOne \/ ReversesOne
  <2>1. PICK r \in RequestId :
          /\ OthersStay(r)
          /\ \/ request[r].status = "PENDING" /\ request'[r].status = "REJECTED"
             \/ request[r].status = "PENDING" /\ request'[r].status = "EXECUTED"
             \/ request[r].status = "EXECUTED" /\ request'[r].status = "REVERSED"
    BY <1>5 DEF RejectsOne, ExecutesOne, ReversesOne
  <2>2. /\ Phase[r] = request[r].status
        /\ Phase' = [Phase EXCEPT ![r] = request'[r].status]
        /\ Effect' = [Effect EXCEPT ![r] = one(request'[r].status)]
    BY <1>1, <1>2, <2>1 DEF OthersStay, Phase
  <2>3. CASE request[r].status = "PENDING" /\ request'[r].status = "REJECTED"
    <3>1. Effect' = Effect
      BY <1>1, <2>1, <2>3 DEF OthersStay
    <3> QED
      BY <2>2, <2>3, <3>1 DEF Lifecycle!Next, Lifecycle!Reject, Phase, Effect
  <2>4. CASE request[r].status = "PENDING" /\ request'[r].status = "EXECUTED"
    BY <2>2, <2>4 DEF Lifecycle!Next, Lifecycle!Execute, Phase, Effect
  <2>5. CASE request[r].status = "EXECUTED" /\ request'[r].status = "REVERSED"
    BY <2>2, <2>5 DEF Lifecycle!Next, Lifecycle!Reverse, Phase, Effect
  <2> QED
    BY <2>1, <2>3, <2>4, <2>5
<1> QED
  BY <1>3, <1>4, <1>5, PhaseStep DEF MovesPhases

\* The room implements RequestLifecycle: whatever is filed, confirmed,
\* approved, rejected, cancelled with its turn or landing, and reversed, a
\* request is filed once, settled once, and has one transaction in force
\* exactly while it is executed.
THEOREM RequestsImplementLifecycle == Spec => RequestsKeepLifecycle
<1>1. Init => Lifecycle!Init
  <2> SUFFICES ASSUME Init PROVE Lifecycle!Init
    OBVIOUS
  <2>1. \A r \in RequestId : request[r].status = "NONE"
    BY DEF Init, NoRequest
  <2>2. \A r \in RequestId : InForce(r) = 0
    <3>1. \A r \in RequestId :
            {i \in DOMAIN log : log[i].request = r /\ log[i].status = "COMMITTED"} = {}
      BY DEF Init
    <3> QED
      BY <3>1, FS_EmptySet DEF InForce
  <2> QED
    BY <2>1, <2>2 DEF Lifecycle!Init
<1>2. ReceiptInv => LockInv /\ InForceByStatus
  BY ReceiptsInForce DEF ReceiptInv
<1>3. LockInv /\ InForceByStatus /\ InForceByStatus' /\ [Next]_vars
        => [Lifecycle!Next]_(Lifecycle!vars)
  BY LifecycleStep
<1> QED
  BY <1>1, <1>2, <1>3, ReceiptInvariant, PTL DEF Spec, RequestsKeepLifecycle, Lifecycle!Spec
=============================================================================
