----------------------------- MODULE DeedProof ------------------------------
(***************************************************************************)
(* Locks match pending requests. Filing, approving, rejecting and          *)
(* cancelling change both sides together; a reversal rewrites the status   *)
(* of a request, and leaves locks alone because no transaction of the log  *)
(* belongs to a request that still waits. That is RequestReceipts, proved  *)
(* along with it.                                                          *)
(*                                                                         *)
(* Deeds keep their shape, their version names their state, and a deed on  *)
(* which a request waits is changed by the execution of that request       *)
(* only. Old deeds come back through a reversal, so the invariant also     *)
(* speaks of the deeds the log has recorded.                               *)
(***************************************************************************)
EXTENDS GameRoomProof

-----------------------------------------------------------------------------
(* Locks and requests                                                      *)

\* The inductive invariant: locks match requests and requests match receipts.
LockInv == TypeInv /\ LockMatchesRequest /\ RequestReceipts

\* The step adds no transaction of a request and alters no status of one.
LogReceiptsKept ==
  \A i \in DOMAIN log' :
     \/ log'[i].request = Nil
     \/ /\ i \in DOMAIN log
        /\ log'[i].request = log[i].request /\ log'[i].status = log[i].status

\* The step leaves the status of executed and reversed requests.
SettledKept ==
  \A r \in RequestId :
     request[r].status \in {"EXECUTED", "REVERSED"} => request'[r].status = request[r].status

\* Such a step keeps RequestReceipts.
LEMMA ReceiptsKept ==
  ASSUME TypeInv, RequestReceipts, LogReceiptsKept, SettledKept
  PROVE  RequestReceipts'
<1>1. ASSUME NEW i \in DOMAIN log', log'[i].request # Nil
      PROVE  /\ i \in DOMAIN log /\ log[i].request \in RequestId
             /\ log'[i].request = log[i].request /\ log'[i].status = log[i].status
  <2>1. /\ i \in DOMAIN log
        /\ log'[i].request = log[i].request /\ log'[i].status = log[i].status
    BY <1>1 DEF LogReceiptsKept
  <2>2. log[i] \in TransactionRow
    BY <2>1 DEF TypeInv, TypeOK
  <2> QED
    BY <1>1, <2>1, <2>2 DEF TransactionRow
<1>2. ASSUME NEW i \in DOMAIN log', log'[i].request # Nil
      PROVE  request'[log'[i].request].status =
               IF log'[i].status = "COMMITTED" THEN "EXECUTED" ELSE "REVERSED"
  BY <1>1, <1>2 DEF RequestReceipts, SettledKept
<1>3. ASSUME NEW i \in DOMAIN log', log'[i].request # Nil,
             NEW j \in DOMAIN log', log'[j].request = log'[i].request
      PROVE  j = i
  BY <1>1, <1>3 DEF RequestReceipts
<1> QED
  BY <1>2, <1>3 DEF RequestReceipts

\* A step that leaves the log keeps its receipts.
LEMMA SameReceipts ==
  ASSUME log' = log
  PROVE  LogReceiptsKept
  BY DEF LogReceiptsKept

\* Freezing the tolls of a turn keeps the receipts.
LEMMA FrozenReceipts ==
  ASSUME TypeOK, NEW L, log' = Frozen(L)
  PROVE  LogReceiptsKept
<1>1. DOMAIN log' = DOMAIN log
  BY DEF Frozen
<1>2. ASSUME NEW i \in DOMAIN log
      PROVE  log'[i].request = log[i].request /\ log'[i].status = log[i].status
  <2>1. log[i] \in TransactionRow
    BY DEF TypeOK
  <2> QED
    BY <2>1 DEF Frozen, TransactionRow
<1> QED
  BY <1>1, <1>2 DEF LogReceiptsKept

-----------------------------------------------------------------------------
(* Cancelling and filing *)

\* A step that leaves deeds, requests and receipts keeps both invariants.
LEMMA QuietLock ==
  ASSUME LockInv, LogReceiptsKept, UNCHANGED <<prop, request>>
  PROVE  LockMatchesRequest' /\ RequestReceipts'
<1>1. SettledKept
  BY DEF SettledKept
<1> QED
  BY <1>1, ReceiptsKept DEF LockInv, LockMatchesRequest

\* Cancelling changes the status of the cancelled requests only.
LEMMA CancelledFields ==
  ASSUME TypeInv, NEW S \in SUBSET Pending, NEW r \in RequestId
  PROVE  /\ Cancelled(S)[r].prop = request[r].prop
         /\ Cancelled(S)[r].type = request[r].type
         /\ Cancelled(S)[r].status = IF r \in S THEN "CANCELLED" ELSE request[r].status
         /\ r \in S => request[r].status = "PENDING"
<1>1. request[r] \in RequestRow
  BY DEF TypeInv, TypeOK
<1> QED
  BY <1>1 DEF Cancelled, Pending, RequestRow

\* Unlocking clears the locks of the given requests only.
LEMMA UnlockedLock ==
  ASSUME TypeInv, NEW S \in SUBSET Pending, NEW o \in Property
  PROVE  Unlocked(S)[o].lock = IF prop[o].lock \in S THEN Nil ELSE prop[o].lock
<1>1. prop[o] \in Deed
  BY DEF TypeInv, TypeOK
<1> QED
  BY <1>1 DEF Unlocked, Deed

\* Cancelling pending requests takes their locks along.
LEMMA CancelLock ==
  ASSUME LockInv, LogReceiptsKept, NEW S \in SUBSET Pending,
         prop' = Unlocked(S), request' = Cancelled(S)
  PROVE  LockMatchesRequest' /\ RequestReceipts'
<1>1. SettledKept
  BY CancelledFields DEF SettledKept, LockInv
<1>2. ASSUME NEW o \in Property, NEW r \in RequestId
      PROVE  prop'[o].lock = r <=> request'[r].status = "PENDING" /\ request'[r].prop = o
  <2>1. prop[o].lock = r <=> request[r].status = "PENDING" /\ request[r].prop = o
    BY DEF LockInv, LockMatchesRequest
  <2>2. r # Nil
    BY NilAssumption
  <2> QED
    BY <2>1, <2>2, CancelledFields, UnlockedLock DEF LockInv
<1> QED
  BY <1>1, <1>2, ReceiptsKept DEF LockInv, LockMatchesRequest

\* So it does when a start reward is filed in the same step.
LEMMA CancelFileLock ==
  ASSUME LockInv, LogReceiptsKept, NEW S \in SUBSET Pending,
         NEW r \in RequestId, request[r].status = "NONE",
         NEW row, row.prop = Nil,
         prop' = Unlocked(S), request' = [Cancelled(S) EXCEPT ![r] = row]
  PROVE  LockMatchesRequest' /\ RequestReceipts'
<1>0. Cancelled(S) \in [RequestId -> RequestRow]
  BY CancelledType DEF LockInv, TypeInv
<1>1. SettledKept
  BY <1>0, CancelledFields DEF SettledKept, LockInv
<1>2. ASSUME NEW o \in Property, NEW s \in RequestId
      PROVE  prop'[o].lock = s <=> request'[s].status = "PENDING" /\ request'[s].prop = o
  <2>1. prop[o].lock = s <=> request[s].status = "PENDING" /\ request[s].prop = o
    BY DEF LockInv, LockMatchesRequest
  <2>2. s # Nil /\ o # Nil
    BY NilAssumption
  <2>3. request'[s] = IF s = r THEN row ELSE Cancelled(S)[s]
    BY <1>0
  <2> QED
    BY <2>1, <2>2, <2>3, CancelledFields, UnlockedLock DEF LockInv
<1> QED
  BY <1>1, <1>2, ReceiptsKept DEF LockInv, LockMatchesRequest

\* Filing a request about no property disturbs no lock.
LEMMA FileLock ==
  ASSUME LockInv, NEW r \in RequestId, request[r].status = "NONE",
         NEW row, row.prop = Nil, File(r, row), UNCHANGED prop
  PROVE  LockMatchesRequest' /\ RequestReceipts'
<1>1. /\ request \in [RequestId -> RequestRow]
      /\ request' = [request EXCEPT ![r] = row]
      /\ log' = log
  BY DEF LockInv, TypeInv, TypeOK, File, moneyVars
<1>2. SettledKept
  BY <1>1 DEF SettledKept
<1>3. ASSUME NEW o \in Property, NEW s \in RequestId
      PROVE  prop'[o].lock = s <=> request'[s].status = "PENDING" /\ request'[s].prop = o
  BY <1>1, NilAssumption DEF LockInv, LockMatchesRequest
<1> QED
  BY <1>1, <1>2, <1>3, SameReceipts, ReceiptsKept DEF LockInv, LockMatchesRequest

\* Filing a request about an unlocked property locks it for that request.
LEMMA FileForLock ==
  ASSUME LockInv, NEW p, NEW o \in Property, NEW r \in RequestId, MayFileFor(p, o, r),
         NEW row \in RequestRow, row.status = "PENDING", FileFor(o, r, row)
  PROVE  LockMatchesRequest' /\ RequestReceipts'
<1> DEFINE new == [row EXCEPT !.prop = o, !.mortgaged = prop[o].mortgaged]
<1>1. /\ request \in [RequestId -> RequestRow] /\ prop \in [Property -> Deed]
      /\ request' = [request EXCEPT ![r] = new]
      /\ log' = log
      /\ request[r].status = "NONE" /\ prop[o].lock = Nil
  BY DEF LockInv, TypeInv, TypeOK, FileFor, File, moneyVars, MayFileFor, MayFile
<1>2. new.prop = o /\ new.status = "PENDING"
  BY DEF RequestRow
<1>3. \A x \in Property : prop'[x].lock = IF x = o THEN r ELSE prop[x].lock
  BY <1>1 DEF FileFor, Deed
<1> HIDE DEF new
<1>4. SettledKept
  BY <1>1 DEF SettledKept
<1>5. ASSUME NEW x \in Property, NEW s \in RequestId
      PROVE  prop'[x].lock = s <=> request'[s].status = "PENDING" /\ request'[s].prop = x
  <2>1. prop[x].lock = s <=> request[s].status = "PENDING" /\ request[s].prop = x
    BY DEF LockInv, LockMatchesRequest
  <2>2. request'[s] = IF s = r THEN new ELSE request[s]
    BY <1>1
  <2>3. s # Nil
    BY NilAssumption
  <2>4. CASE x = o
    BY <1>1, <1>2, <1>3, <2>1, <2>2, <2>3, <2>4
  <2>5. CASE x # o
    BY <1>1, <1>2, <1>3, <2>1, <2>2, <2>3, <2>5
  <2> QED
    BY <2>4, <2>5
<1> QED
  BY <1>1, <1>4, <1>5, SameReceipts, ReceiptsKept DEF LockInv, LockMatchesRequest

-----------------------------------------------------------------------------
(* Approving and reversing *)

\* Executing a pending request gives it its only receipt.
LEMMA ExecuteReceipts ==
  ASSUME LockInv, NEW r \in RequestId, request[r].status = "PENDING",
         NEW tx \in TransactionRow, tx.status = "COMMITTED", Execute(r, tx)
  PROVE  RequestReceipts'
<1> DEFINE row == [tx EXCEPT !.request = r]
<1>1. row \in TransactionRow /\ row.request = r /\ row.status = "COMMITTED"
  BY DEF TransactionRow
<1>2. /\ request \in [RequestId -> RequestRow] /\ log \in Seq(TransactionRow)
      /\ log' = Append(log, row)
      /\ request' = [request EXCEPT ![r].status = "EXECUTED"]
  BY DEF LockInv, TypeInv, TypeOK, Execute, Commit
<1> HIDE DEF row
<1>3. /\ Len(log') = Len(log) + 1 /\ DOMAIN log' = 1 .. Len(log')
      /\ \A i \in 1 .. Len(log) : log'[i] = log[i]
      /\ log'[Len(log) + 1] = row
  BY <1>1, <1>2, AppendProperties
<1>4. \A i \in 1 .. Len(log) : log[i].request # r
  BY <1>2, NilAssumption DEF LockInv, RequestReceipts
<1>5. ASSUME NEW i \in DOMAIN log', log'[i].request # Nil
      PROVE  /\ request'[log'[i].request].status =
                  IF log'[i].status = "COMMITTED" THEN "EXECUTED" ELSE "REVERSED"
             /\ \A j \in DOMAIN log' : log'[j].request = log'[i].request => j = i
  <2>1. CASE i = Len(log) + 1
    <3>1. request'[r].status = "EXECUTED"
      BY <1>2 DEF RequestRow
    <3> QED
      BY <1>1, <1>2, <1>3, <1>4, <2>1, <3>1
  <2>2. CASE i # Len(log) + 1
    <3>1. i \in 1 .. Len(log) /\ log'[i] = log[i]
      BY <1>2, <1>3, <2>2
    <3>2. log[i].request \in RequestId /\ log[i].request # r
      <4>1. log[i] \in TransactionRow
        BY <1>2, <3>1
      <4>2. log[i].request # Nil
        BY <1>5, <3>1
      <4> QED
        BY <1>4, <3>1, <4>1, <4>2 DEF TransactionRow
    <3>3. request'[log[i].request] = request[log[i].request]
      BY <1>2, <3>2
    <3>4. request[log[i].request].status =
            IF log[i].status = "COMMITTED" THEN "EXECUTED" ELSE "REVERSED"
      BY <1>2, <3>1, <3>2, NilAssumption DEF LockInv, RequestReceipts
    <3>5. ASSUME NEW j \in DOMAIN log', log'[j].request = log'[i].request
          PROVE  j = i
      <4>1. j # Len(log) + 1
        BY <1>1, <1>3, <3>1, <3>2, <3>5
      <4>2. j \in 1 .. Len(log) /\ log'[j] = log[j]
        BY <1>2, <1>3, <4>1
      <4>3. log[i].request # Nil
        BY <3>2, NilAssumption
      <4> QED
        BY <1>2, <3>1, <3>2, <3>5, <4>2, <4>3 DEF LockInv, RequestReceipts
    <3> QED
      BY <3>1, <3>3, <3>4, <3>5
  <2> QED
    BY <2>1, <2>2
<1> QED
  BY <1>5 DEF RequestReceipts

\* Executing a request about no property disturbs no lock.
LEMMA ExecutePlainLock ==
  ASSUME LockInv, NEW r \in RequestId, request[r].status = "PENDING",
         request[r].type \notin DeedRequest,
         NEW tx \in TransactionRow, tx.status = "COMMITTED", Execute(r, tx),
         UNCHANGED prop
  PROVE  LockMatchesRequest' /\ RequestReceipts'
<1>1. /\ request \in [RequestId -> RequestRow] /\ RowShape(request[r])
      /\ request' = [request EXCEPT ![r].status = "EXECUTED"]
  BY DEF LockInv, TypeInv, TypeOK, RequestShape, Execute
<1>2. request[r].prop = Nil
  BY <1>1 DEF RowShape
<1>3. request'[r].status = "EXECUTED"
  BY <1>1 DEF RequestRow
<1>4. ASSUME NEW o \in Property, NEW s \in RequestId
      PROVE  prop'[o].lock = s <=> request'[s].status = "PENDING" /\ request'[s].prop = o
  <2>1. prop[o].lock = s <=> request[s].status = "PENDING" /\ request[s].prop = o
    BY DEF LockInv, LockMatchesRequest
  <2>2. s # r => request'[s] = request[s]
    BY <1>1
  <2> QED
    BY <1>2, <1>3, <2>1, <2>2, NilAssumption
<1> QED
  BY <1>4, ExecuteReceipts DEF LockMatchesRequest

\* Executing a property request releases exactly its own lock.
LEMMA ExecuteDeedLock ==
  ASSUME LockInv, NEW r \in RequestId, request[r].status = "PENDING",
         request[r].type \in DeedRequest, NEW delta \in [Player -> Int],
         NEW deed \in Deed, NEW after \in Face,
         ExecuteDeed(r, delta, deed, after)
  PROVE  LockMatchesRequest' /\ RequestReceipts'
<1> DEFINE q == request[r]
           d == prop[q.prop]
           tx == [Transaction(q.type, delta)
                    EXCEPT !.prop = q.prop, !.before = FaceOf(d),
                           !.after = [after EXCEPT !.version = d.version + 1]]
           new == [deed EXCEPT !.lock = Nil, !.version = d.version + 1]
<1>1. /\ prop \in [Property -> Deed] /\ request \in [RequestId -> RequestRow]
      /\ q \in RequestRow /\ RowShape(q) /\ q.type \in TransactionType
  BY DEF LockInv, TypeInv, TypeOK, RequestShape, TransactionType, RequestType
<1>2. q.prop \in Property /\ d \in Deed
  BY <1>1 DEF RequestRow, RowShape
<1>3. /\ FaceOf(d) \in Face
      /\ [after EXCEPT !.version = d.version + 1] \in Face
      /\ new.lock = Nil
  <2>1. d.version + 1 \in Nat
    BY <1>2 DEF Deed
  <2> QED
    BY <1>2, <2>1 DEF FaceOf, Deed, Face
<1>4. tx \in TransactionRow /\ tx.status = "COMMITTED"
  <2> DEFINE plain == Transaction(q.type, delta)
  <2>1. plain \in TransactionRow /\ plain.status = "COMMITTED"
    BY <1>1, TransactionTyped DEF Transaction
  <2> HIDE DEF plain, q, d
  <2>2. [plain EXCEPT !.prop = q.prop, !.before = FaceOf(d),
                      !.after = [after EXCEPT !.version = d.version + 1]] \in TransactionRow
    BY <1>2, <1>3, <2>1 DEF TransactionRow
  <2>3. [plain EXCEPT !.prop = q.prop, !.before = FaceOf(d),
                      !.after = [after EXCEPT !.version = d.version + 1]].status = "COMMITTED"
    BY <2>1 DEF TransactionRow
  <2> QED
    BY <2>2, <2>3 DEF plain
<1>5. /\ d.lock = r
      /\ prop' = [prop EXCEPT ![q.prop] = new]
      /\ Execute(r, tx)
      /\ request' = [request EXCEPT ![r].status = "EXECUTED"]
  BY DEF ExecuteDeed, Execute
<1>6. request'[r].status = "EXECUTED"
  BY <1>1, <1>5 DEF RequestRow
<1> HIDE DEF d, tx, new
<1>7. ASSUME NEW o \in Property, NEW s \in RequestId
      PROVE  prop'[o].lock = s <=> request'[s].status = "PENDING" /\ request'[s].prop = o
  <2>1. prop[o].lock = s <=> request[s].status = "PENDING" /\ request[s].prop = o
    BY DEF LockInv, LockMatchesRequest
  <2>2. s # r => request'[s] = request[s]
    BY <1>1, <1>5
  <2>3. prop'[o] = IF o = q.prop THEN new ELSE prop[o]
    BY <1>1, <1>5
  <2>4. s # Nil
    BY NilAssumption
  <2>5. CASE o = q.prop
    BY <1>3, <1>5, <1>6, <2>1, <2>2, <2>3, <2>4, <2>5 DEF d
  <2>6. CASE o # q.prop
    BY <1>6, <2>1, <2>2, <2>3, <2>6
  <2> QED
    BY <2>5, <2>6
<1>8. RequestReceipts'
  BY <1>4, <1>5, ExecuteReceipts
<1> QED
  BY <1>7, <1>8 DEF LockMatchesRequest

\* A reversal marks an executed request, or none, and moves no lock.
LEMMA ReverseLatestLock ==
  ASSUME LockInv, ReverseLatest
  PROVE  LockMatchesRequest' /\ RequestReceipts'
<1>1. PICK i \in DOMAIN log :
        /\ Undoable(i)
        /\ log' = Append([log EXCEPT ![i].status = "REVERSED"],
                         [Transaction("REVERSAL", Negated(log[i].delta))
                            EXCEPT !.reversible = FALSE, !.undoes = i])
        /\ prop' = IF log[i].prop = Nil THEN prop
                   ELSE [prop EXCEPT ![log[i].prop] = Restored(@, log[i].before)]
        /\ request' = IF log[i].request = Nil THEN request
                      ELSE [request EXCEPT ![log[i].request].status = "REVERSED"]
  BY DEF ReverseLatest, RequestReversed
<1> DEFINE t == log[i]
           row == [t EXCEPT !.status = "REVERSED"]
           undo == [Transaction("REVERSAL", Negated(t.delta))
                      EXCEPT !.reversible = FALSE, !.undoes = i]
<1>2. /\ t \in TransactionRow /\ log \in Seq(TransactionRow) /\ i \in 1 .. Len(log)
      /\ prop \in [Property -> Deed] /\ request \in [RequestId -> RequestRow]
  BY DEF LockInv, TypeInv, TypeOK
<1>3. /\ row \in TransactionRow /\ row.request = t.request /\ row.status = "REVERSED"
  BY <1>2 DEF TransactionRow
<1>4. undo.request = Nil
  BY DEF Transaction
<1>5. log' = Append([log EXCEPT ![i] = row], undo)
  BY <1>1
<1>6. t.request # Nil =>
        /\ t.request \in RequestId
        /\ request[t.request].status = "EXECUTED"
        /\ request' = [request EXCEPT ![t.request].status = "REVERSED"]
  BY <1>1, <1>2 DEF LockInv, RequestReceipts, Undoable, TransactionRow
<1>7. t.request = Nil => request' = request
  BY <1>1
<1>8. \A o \in Property : prop'[o].lock = prop[o].lock
  <2>1. prop' = IF t.prop = Nil THEN prop
                ELSE [prop EXCEPT ![t.prop] = Restored(prop[t.prop], t.before)]
    BY <1>1
  <2>2. \A o \in Property : Restored(prop[o], t.before).lock = prop[o].lock
    BY <1>2 DEF Restored, Deed
  <2> HIDE DEF t
  <2> QED
    BY <1>2, <2>1, <2>2
<1> HIDE DEF t, row, undo
<1>9. ASSUME NEW s \in RequestId
      PROVE  request'[s].prop = request[s].prop
             /\ (request'[s].status = "PENDING" <=> request[s].status = "PENDING")
  <2>1. CASE s = t.request /\ t.request # Nil
    BY <1>2, <1>6, <2>1 DEF RequestRow
  <2>2. CASE s # t.request \/ t.request = Nil
    BY <1>2, <1>6, <1>7, <2>2
  <2> QED
    BY <2>1, <2>2
<1>10. LockMatchesRequest'
  BY <1>8, <1>9 DEF LockInv, LockMatchesRequest
<1>11. /\ Len(log') = Len(log) + 1 /\ DOMAIN log' = 1 .. Len(log')
       /\ \A j \in 1 .. Len(log) : log'[j] = IF j = i THEN row ELSE log[j]
       /\ log'[Len(log) + 1] = undo
  <2> DEFINE marked == [log EXCEPT ![i] = row]
  <2>1. /\ Len(marked) = Len(log) /\ DOMAIN marked = 1 .. Len(log)
        /\ \A j \in 1 .. Len(log) : marked[j] = IF j = i THEN row ELSE log[j]
    BY <1>2, <1>3, ExceptSeq
  <2>2. /\ Len(log') = Len(marked) + 1 /\ DOMAIN log' = 1 .. Len(log')
        /\ \A j \in 1 .. Len(marked) : log'[j] = marked[j]
        /\ log'[Len(marked) + 1] = undo
    BY <1>2, <1>5, <2>1
  <2> HIDE DEF marked
  <2> QED
    BY <2>1, <2>2
<1>12. ASSUME NEW j \in DOMAIN log', log'[j].request # Nil
       PROVE  /\ j \in DOMAIN log /\ log'[j].request = log[j].request
              /\ log[j].request \in RequestId
              /\ log'[j].status = IF j = i THEN "REVERSED" ELSE log[j].status
  <2>1. j \in 1 .. Len(log)
    BY <1>2, <1>4, <1>11, <1>12
  <2>2. log'[j].request = log[j].request
    BY <1>3, <1>11, <2>1 DEF t
  <2>3. log[j].request \in RequestId
    <3>1. log[j] \in TransactionRow
      BY <1>2, <2>1
    <3>2. log[j].request # Nil
      BY <1>12, <2>2
    <3> QED
      BY <3>1, <3>2 DEF TransactionRow
  <2>4. log'[j].status = IF j = i THEN "REVERSED" ELSE log[j].status
    BY <1>3, <1>11, <2>1
  <2> QED
    BY <1>2, <2>1, <2>2, <2>3, <2>4
<1>13. ASSUME NEW j \in DOMAIN log', log'[j].request # Nil
       PROVE  request'[log'[j].request].status =
                IF log'[j].status = "COMMITTED" THEN "EXECUTED" ELSE "REVERSED"
  <2>1. CASE j = i
    <3>1. t.request = log'[j].request /\ t.request # Nil
      BY <1>12, <1>13, <2>1 DEF t
    <3>2. request'[t.request].status = "REVERSED"
      BY <1>2, <1>6, <3>1 DEF RequestRow
    <3> QED
      BY <1>12, <1>13, <2>1, <3>1, <3>2
  <2>2. CASE j # i
    <3>1. log[j].request # t.request
      BY <1>2, <1>12, <1>13, <2>2 DEF LockInv, RequestReceipts, t
    <3>2. request'[log[j].request] = request[log[j].request]
      BY <1>2, <1>6, <1>7, <1>12, <1>13, <3>1
    <3> QED
      BY <1>12, <1>13, <2>2, <3>2 DEF LockInv, RequestReceipts
  <2> QED
    BY <2>1, <2>2
<1>14. ASSUME NEW j \in DOMAIN log', log'[j].request # Nil,
              NEW k \in DOMAIN log', log'[k].request = log'[j].request
       PROVE  k = j
  BY <1>12, <1>14 DEF LockInv, RequestReceipts
<1>15. RequestReceipts'
  BY <1>13, <1>14 DEF RequestReceipts
<1> QED
  BY <1>10, <1>15

\* Steps that only move cash disturb no lock and no receipt.
LEMMA MovesCashLock ==
  ASSUME LockInv, MovesCash
  PROVE  LockMatchesRequest' /\ RequestReceipts'
<1>1. LogReceiptsKept
  <2>1. CASE log' = log
    BY <2>1, SameReceipts
  <2>2. CASE log' # log
    <3>1. PICK tx \in TransactionRow : tx.request = Nil /\ log' = Append(log, tx)
      BY <2>2 DEF MovesCash, Commit, moneyVars
    <3>2. log \in Seq(TransactionRow)
      BY DEF LockInv, TypeInv, TypeOK
    <3> QED
      BY <3>1, <3>2, AppendProperties DEF LogReceiptsKept
  <2> QED
    BY <2>1, <2>2
<1> QED
  BY <1>1, QuietLock DEF MovesCash

-----------------------------------------------------------------------------
(* The commands *)

\* The turn commands keep locks and receipts.
LEMMA TurnStepLock ==
  ASSUME LockInv, TurnStep
  PROVE  LockMatchesRequest' /\ RequestReceipts'
<1>0. \A n : PendingOfTurn(n) \in SUBSET Pending
  BY DEF PendingOfTurn
<1>1. CASE Start
  BY <1>1, SameReceipts, QuietLock DEF Start, moneyVars
<1>2. ASSUME NEW p \in Player, Roll(p) \/ SkipTurn(p)
      PROVE  LockMatchesRequest' /\ RequestReceipts'
  BY <1>2, SameReceipts, QuietLock DEF Roll, SkipTurn, moneyVars
<1>3. ASSUME NEW p \in Player, EndTurn(p)
      PROVE  LockMatchesRequest' /\ RequestReceipts'
  <2>1. PICK n : /\ log' = Frozen(TollLandings(n, p))
                 /\ prop' = Unlocked(PendingOfTurn(n))
                 /\ request' = Cancelled(PendingOfTurn(n))
    BY <1>3 DEF EndTurn, CancelRequests
  <2>2. LogReceiptsKept
    BY <2>1, FrozenReceipts DEF LockInv, TypeInv
  <2> QED
    BY <1>0, <2>1, <2>2, CancelLock
<1>4. CASE ForceNext \/ InvalidateRoll
  <2>1. PICK n : /\ prop' = Unlocked(PendingOfTurn(n))
                 /\ request' = Cancelled(PendingOfTurn(n))
    BY <1>4 DEF ForceNext, InvalidateRoll, CancelRequests
  <2>2. LogReceiptsKept
    BY <1>4, SameReceipts DEF ForceNext, InvalidateRoll, moneyVars
  <2> QED
    BY <1>0, <2>1, <2>2, CancelLock
<1> QED
  BY <1>1, <1>2, <1>3, <1>4 DEF TurnStep

\* The landing commands keep locks and receipts.
LEMMA LandingStepLock ==
  ASSUME LockInv, LandingStep
  PROVE  LockMatchesRequest' /\ RequestReceipts'
<1>0. \A L : PendingOfLandings(L) \in SUBSET Pending
  BY DEF PendingOfLandings
<1>1. ASSUME NEW l \in LandingId, NEW p \in Player, NEW o \in Property,
             DeclareLandingOnTurn(p, o, l)
      PROVE  LockMatchesRequest' /\ RequestReceipts'
  BY <1>1, SameReceipts, QuietLock DEF DeclareLandingOnTurn, moneyVars
<1>2. ASSUME NEW l \in LandingId, NEW p \in Player, NEW o \in Property,
             DeclareLandingOnBoard(p, o, l)
      PROVE  LockMatchesRequest' /\ RequestReceipts'
  <2>1. PICK S \in SUBSET Pending : prop' = Unlocked(S) /\ request' = Cancelled(S)
    BY <1>0, <1>2 DEF DeclareLandingOnBoard, CancelRequests
  <2> QED
    BY <1>2, <2>1, SameReceipts, CancelLock DEF DeclareLandingOnBoard, moneyVars
<1>3. ASSUME NEW l \in LandingId, NEW p \in Player, NEW r \in RequestId,
             DeclareStartOnTurn(p, l, r) \/ DeclareStartOnBoard(p, l, r)
      PROVE  LockMatchesRequest' /\ RequestReceipts'
  <2>1. PICK S \in SUBSET Pending : \E n :
          /\ prop' = Unlocked(S)
          /\ request' = [Cancelled(S) EXCEPT ![r] = StartRewardRequest(p, l, n)]
    BY <1>0, <1>3 DEF DeclareStartOnTurn, DeclareStartOnBoard
  <2>2. \A n : StartRewardRequest(p, l, n).prop = Nil
    BY DEF StartRewardRequest, NoRequest
  <2>3. request[r].status = "NONE" /\ log' = log
    BY <1>3 DEF DeclareStartOnTurn, DeclareStartOnBoard, moneyVars
  <2> QED
    BY <2>1, <2>2, <2>3, SameReceipts, CancelFileLock
<1>4. ASSUME NEW l \in LandingId, NEW b \in BOOLEAN, ConfirmLanding(l, b)
      PROVE  LockMatchesRequest' /\ RequestReceipts'
  BY <1>4, SameReceipts, QuietLock DEF ConfirmLanding, moneyVars
<1>5. ASSUME NEW l \in LandingId, CancelLandingPropertyActions(l)
      PROVE  LockMatchesRequest' /\ RequestReceipts'
  <2>1. PICK S \in SUBSET Pending : prop' = Unlocked(S) /\ request' = Cancelled(S)
    BY <1>0, <1>5 DEF CancelLandingPropertyActions, CancelRequests
  <2> QED
    BY <1>5, <2>1, SameReceipts, CancelLock DEF CancelLandingPropertyActions, moneyVars
<1> QED
  BY <1>1, <1>2, <1>3, <1>4, <1>5 DEF LandingStep

\* Filing any request keeps locks and receipts.
LEMMA RequestStepLock ==
  ASSUME LockInv, DeedRequestStep \/ CashRequestStep
  PROVE  LockMatchesRequest' /\ RequestReceipts'
<1>1. FilesDeedRequest \/ FilesCashRequest
  BY DeedRequestEffect, CashRequestEffect DEF LockInv
<1>2. CASE FilesDeedRequest
  BY <1>2, FileForLock DEF FilesDeedRequest
<1>3. CASE FilesCashRequest
  BY <1>3, FileLock DEF FilesCashRequest
<1> QED
  BY <1>1, <1>2, <1>3

\* Confirming, approving and rejecting keep locks and receipts.
LEMMA SettleStepLock ==
  ASSUME LockInv, SettleStep
  PROVE  LockMatchesRequest' /\ RequestReceipts'
<1>0. request \in [RequestId -> RequestRow]
  BY DEF LockInv, TypeInv, TypeOK
<1>1. ASSUME NEW r \in RequestId, ConfirmTrade(r)
      PROVE  LockMatchesRequest' /\ RequestReceipts'
  <2>1. ASSUME NEW s \in RequestId
        PROVE  request'[s].status = request[s].status /\ request'[s].prop = request[s].prop
    BY <1>0, <1>1 DEF ConfirmTrade, RequestRow
  <2>2. prop' = prop /\ log' = log
    BY <1>1 DEF ConfirmTrade, moneyVars
  <2>3. SettledKept
    BY <2>1 DEF SettledKept
  <2>4. LockMatchesRequest'
    BY <2>1, <2>2 DEF LockInv, LockMatchesRequest
  <2> QED
    BY <2>2, <2>3, <2>4, SameReceipts, ReceiptsKept DEF LockInv
<1>2. ASSUME NEW r \in RequestId, Reject(r)
      PROVE  LockMatchesRequest' /\ RequestReceipts'
  <2>1. ASSUME NEW s \in RequestId
        PROVE  /\ request'[s].status = IF s = r THEN "REJECTED" ELSE request[s].status
               /\ request'[s].prop = request[s].prop
    BY <1>0, <1>2 DEF Reject, RequestRow
  <2>2. /\ prop' = Unlocked({r}) /\ log' = log
        /\ {r} \in SUBSET Pending
    BY <1>2 DEF Reject, Pending, moneyVars
  <2>3. SettledKept
    BY <2>1, <2>2 DEF SettledKept, Pending
  <2>4. ASSUME NEW o \in Property, NEW s \in RequestId
        PROVE  prop'[o].lock = s <=> request'[s].status = "PENDING" /\ request'[s].prop = o
    <3>1. prop[o].lock = s <=> request[s].status = "PENDING" /\ request[s].prop = o
      BY DEF LockInv, LockMatchesRequest
    <3>2. prop'[o].lock = IF prop[o].lock \in {r} THEN Nil ELSE prop[o].lock
      BY <2>2, UnlockedLock DEF LockInv
    <3>3. s # Nil
      BY NilAssumption
    <3> QED
      BY <2>1, <3>1, <3>2, <3>3
  <2> QED
    BY <2>2, <2>3, <2>4, SameReceipts, ReceiptsKept DEF LockInv, LockMatchesRequest
<1>3. ASSUME NEW r \in RequestId, ApproveCash(r)
      PROVE  LockMatchesRequest' /\ RequestReceipts'
  <2>1. ExecutesPlainly(r)
    BY <1>3, ApproveCashEffect DEF LockInv
  <2>2. CashTypes \cap DeedRequest = {}
    BY DEF CashTypes, DeedRequest
  <2> QED
    BY <2>1, <2>2, ExecutePlainLock DEF ExecutesPlainly, Plain
<1>4. ASSUME NEW r \in RequestId, ApproveDeed(r)
      PROVE  LockMatchesRequest' /\ RequestReceipts'
  <2>1. ExecutesDeed(r)
    BY <1>4, ApproveDeedEffect DEF LockInv
  <2> QED
    BY <2>1, ExecuteDeedLock DEF ExecutesDeed
<1> QED
  BY <1>1, <1>2, <1>3, <1>4 DEF SettleStep, Approve, ApproveCash, ApproveDeed

\* The money commands keep locks and receipts.
LEMMA MoneyStepLock ==
  ASSUME LockInv, MoneyStep
  PROVE  LockMatchesRequest' /\ RequestReceipts'
<1>1. MovesCash \/ ReverseLatest
  BY MovesCashEffect DEF MoneyStep, LockInv
<1> QED
  BY <1>1, MovesCashLock, ReverseLatestLock

\* The bank's own changes touch unlocked deeds only.
LEMMA BankStepLock ==
  ASSUME LockInv, BankStep
  PROVE  LockMatchesRequest' /\ RequestReceipts'
<1>1. ASSUME NEW o \in Property, NEW owner \in Player \cup {Nil}, NEW level \in Level,
             NEW m \in BOOLEAN, AdjustProperty(o, owner, level, m)
      PROVE  LockMatchesRequest' /\ RequestReceipts'
  <2> DEFINE deed == [owner |-> owner, level |-> level, mortgaged |-> m, lock |-> Nil,
                      version |-> prop[o].version + 1]
  <2>1. /\ prop' = [prop EXCEPT ![o] = deed] /\ prop[o].lock = Nil
        /\ log' = log /\ request' = request
    BY <1>1 DEF AdjustProperty, moneyVars
  <2>2. deed.lock = Nil /\ prop \in [Property -> Deed]
    BY DEF LockInv, TypeInv, TypeOK
  <2> HIDE DEF deed
  <2>3. \A x \in Property : prop'[x].lock = prop[x].lock
    BY <2>1, <2>2
  <2>4. SettledKept
    BY <2>1 DEF SettledKept
  <2>5. LockMatchesRequest'
    BY <2>1, <2>3 DEF LockInv, LockMatchesRequest
  <2> QED
    BY <2>1, <2>4, <2>5, SameReceipts, ReceiptsKept DEF LockInv
<1>2. ASSUME NEW p \in Player, NEW n \in Count, NEW palace \in BOOLEAN,
             AddSkipTurns(p, n, palace)
      PROVE  LockMatchesRequest' /\ RequestReceipts'
  BY <1>2, MovesCashEffect, MovesCashLock DEF LockInv
<1>3. ASSUME NEW p \in Player, NEW n \in Count, ConsumeSkip(p, n)
      PROVE  LockMatchesRequest' /\ RequestReceipts'
  BY <1>3, SameReceipts, QuietLock DEF ConsumeSkip, moneyVars
<1> QED
  BY <1>1, <1>2, <1>3 DEF BankStep

\* A forced finish cancels every pending request and clears every lock.
LEMMA RoomStepLock ==
  ASSUME LockInv, RoomStep
  PROVE  LockMatchesRequest' /\ RequestReceipts'
<1>1. CASE SetApprovalMode
  BY <1>1, SameReceipts, QuietLock DEF SetApprovalMode, moneyVars
<1>2. ASSUME NEW p \in Player, JoinMidgame(p)
      PROVE  LockMatchesRequest' /\ RequestReceipts'
  BY <1>2, SameReceipts, QuietLock DEF JoinMidgame, moneyVars
<1>3. CASE FinishNormal
  BY <1>3, SameReceipts, QuietLock DEF FinishNormal, CloseRoom, moneyVars
<1>4. CASE FinishForced
  <2>1. request' = Cancelled(Pending) /\ log' = log
    BY <1>4 DEF FinishForced, CloseRoom, moneyVars
  <2>2. SettledKept
    BY <2>1, CancelledFields DEF SettledKept, LockInv
  <2>3. \A o \in Property : prop'[o].lock = Nil
    <3>1. \A o \in Property : prop[o] \in Deed
      BY DEF LockInv, TypeInv, TypeOK
    <3> QED
      BY <1>4, <3>1 DEF FinishForced, Deed
  <2>4. \A r \in RequestId : request'[r].status # "PENDING" /\ r # Nil
    BY <2>1, CancelledFields, NilAssumption DEF Pending, LockInv
  <2> QED
    BY <2>1, <2>2, <2>3, <2>4, SameReceipts, ReceiptsKept DEF LockInv, LockMatchesRequest
<1> QED
  BY <1>1, <1>2, <1>3, <1>4 DEF RoomStep

-----------------------------------------------------------------------------
(* The theorems *)

\* Nothing is locked and nothing filed when the room is created.
LEMMA InitLockInv == Init => LockInv
<1> SUFFICES ASSUME Init PROVE LockInv
  OBVIOUS
<1>1. TypeInv
  BY InitTypeInv
<1>2. LockMatchesRequest /\ RequestReceipts
  BY NilAssumption DEF Init, LockMatchesRequest, RequestReceipts, NoRequest
<1> QED
  BY <1>1, <1>2 DEF LockInv

\* LockInv holds in every reachable state of every room.
THEOREM LockInvariant == Spec => []LockInv
<1>1. LockInv /\ [Next]_vars => LockInv'
  <2> SUFFICES ASSUME LockInv, [Next]_vars PROVE LockInv'
    OBVIOUS
  <2>1. TypeInv'
    BY TypeInvStep DEF LockInv
  <2>2. CASE UNCHANGED vars
    BY <2>1, <2>2, SameReceipts, QuietLock DEF vars, LockInv
  <2>3. CASE Next
    BY <2>1, <2>3, TurnStepLock, LandingStepLock, RequestStepLock, SettleStepLock,
       MoneyStepLock, BankStepLock, RoomStepLock DEF Next, LockInv
  <2> QED
    BY <2>2, <2>3
<1> QED
  BY <1>1, InitLockInv, PTL DEF Spec

\* A property is locked by a request exactly while that request is pending
\* about it, through filing, approval, rejection, every way of cancelling,
\* reversals and a forced finish: no lock is left behind and no property can
\* be sold twice.
THEOREM LocksMatchRequests == Spec => []LockMatchesRequest
<1>1. LockInv => LockMatchesRequest
  BY DEF LockInv
<1> QED
  BY <1>1, LockInvariant, PTL

\* A request is executed by at most one transaction and carries the status of
\* that transaction: approving twice or reversing what was never executed is
\* impossible.
THEOREM ReceiptsMatchRequests == Spec => []RequestReceipts
<1>1. LockInv => RequestReceipts
  BY DEF LockInv
<1> QED
  BY <1>1, LockInvariant, PTL

-----------------------------------------------------------------------------
(* Deeds                                                                   *)

\* No recorded version is newer than the deed, and the version of a deed names
\* its state: every step that changes a deed raises its version.
VersionsRecorded ==
  \A i \in DOMAIN log : log[i].prop # Nil =>
    LET now == FaceOf(prop[log[i].prop]) IN
    /\ log[i].after.version <= now.version
    /\ log[i].after.version = now.version => log[i].after = now

\* The inductive invariant: deeds have their shape, so have the recorded ones,
\* and versions name what they name.
ShapeRules == DeedShape /\ RecordedShape /\ VersionsRecorded
ShapeInv == TypeInv /\ ShapeRules

\* The step adds no transaction about a property and alters no recorded deed.
LogRecordsKept ==
  \A i \in DOMAIN log' :
     \/ log'[i].prop = Nil
     \/ /\ i \in DOMAIN log
        /\ log'[i].prop = log[i].prop
        /\ log'[i].before = log[i].before /\ log'[i].after = log[i].after

\* The step keeps every deed, apart from its lock, and every recorded one.
LeavesDeeds == LogRecordsKept /\ \A o \in Property : FaceOf(prop'[o]) = FaceOf(prop[o])

-----------------------------------------------------------------------------
(* Steps that leave the deeds *)

\* The owner, level and mortgage of a deed are those of its face.
LEMMA FaceFields ==
  ASSUME NEW d, NEW e, FaceOf(e) = FaceOf(d)
  PROVE  SameFace(d, e) /\ e.version = d.version
<1>1. /\ FaceOf(e).owner = e.owner /\ FaceOf(e).level = e.level
      /\ FaceOf(e).mortgaged = e.mortgaged /\ FaceOf(e).version = e.version
      /\ FaceOf(d).owner = d.owner /\ FaceOf(d).level = d.level
      /\ FaceOf(d).mortgaged = d.mortgaged /\ FaceOf(d).version = d.version
  BY DEF FaceOf
<1> QED
  BY <1>1 DEF SameFace

\* Unlocking leaves the face of every deed.
LEMMA UnlockedFaces ==
  ASSUME TypeInv, NEW S, prop' = Unlocked(S), LogRecordsKept
  PROVE  LeavesDeeds
<1>1. \A o \in Property : prop[o] \in Deed
  BY DEF TypeInv, TypeOK
<1> QED
  BY <1>1 DEF Unlocked, Deed, FaceOf, LeavesDeeds

\* A step that leaves the log keeps its records.
LEMMA SameLog ==
  ASSUME log' = log
  PROVE  LogRecordsKept
  BY DEF LogRecordsKept

\* A step that leaves deeds and log leaves the deeds.
LEMMA QuietDeeds ==
  ASSUME UNCHANGED <<prop, log>>
  PROVE  LeavesDeeds
  BY DEF LeavesDeeds, LogRecordsKept

\* Freezing the tolls of a turn keeps the recorded deeds.
LEMMA FrozenRecords ==
  ASSUME TypeInv, NEW L, log' = Frozen(L)
  PROVE  LogRecordsKept
<1>1. DOMAIN log' = DOMAIN log
  BY DEF Frozen
<1>2. ASSUME NEW i \in DOMAIN log
      PROVE  /\ log'[i].prop = log[i].prop
             /\ log'[i].before = log[i].before /\ log'[i].after = log[i].after
  <2>1. log[i] \in TransactionRow
    BY DEF TypeInv, TypeOK
  <2> QED
    BY <2>1 DEF Frozen, TransactionRow
<1> QED
  BY <1>1, <1>2 DEF LogRecordsKept

\* Committing a transaction about no property leaves the deeds.
LEMMA CommitDeeds ==
  ASSUME TypeInv, NEW tx \in TransactionRow, Commit(tx), tx.prop = Nil, UNCHANGED prop
  PROVE  LeavesDeeds
<1>1. log \in Seq(TransactionRow) /\ log' = Append(log, tx)
  BY DEF TypeInv, TypeOK, Commit
<1>2. LogRecordsKept
  BY <1>1, AppendProperties DEF LogRecordsKept
<1> QED
  BY <1>2 DEF LeavesDeeds

-----------------------------------------------------------------------------
(* What the commands do to deeds *)

\* The turn commands leave the deeds.
LEMMA TurnStepDeeds ==
  ASSUME TypeInv, TurnStep
  PROVE  LeavesDeeds
<1>1. CASE Start
  BY <1>1, QuietDeeds DEF Start, moneyVars
<1>2. ASSUME NEW p \in Player, Roll(p) \/ SkipTurn(p)
      PROVE  LeavesDeeds
  BY <1>2, QuietDeeds DEF Roll, SkipTurn, moneyVars
<1>3. ASSUME NEW p \in Player, EndTurn(p)
      PROVE  LeavesDeeds
  <2>1. PICK n : log' = Frozen(TollLandings(n, p)) /\ prop' = Unlocked(PendingOfTurn(n))
    BY <1>3 DEF EndTurn, CancelRequests
  <2> QED
    BY <2>1, FrozenRecords, UnlockedFaces
<1>4. CASE ForceNext
  <2>1. PICK n : prop' = Unlocked(PendingOfTurn(n))
    BY <1>4 DEF ForceNext, CancelRequests
  <2> QED
    BY <1>4, <2>1, SameLog, UnlockedFaces DEF ForceNext, moneyVars
<1>5. CASE InvalidateRoll
  <2>1. PICK n : prop' = Unlocked(PendingOfTurn(n))
    BY <1>5 DEF InvalidateRoll, CancelRequests
  <2> QED
    BY <1>5, <2>1, SameLog, UnlockedFaces DEF InvalidateRoll, moneyVars
<1> QED
  BY <1>1, <1>2, <1>3, <1>4, <1>5 DEF TurnStep

\* The landing commands leave the deeds.
LEMMA LandingStepDeeds ==
  ASSUME TypeInv, LandingStep
  PROVE  LeavesDeeds
<1>1. ASSUME NEW l \in LandingId, NEW p \in Player, NEW o \in Property,
             DeclareLandingOnTurn(p, o, l)
      PROVE  LeavesDeeds
  BY <1>1, QuietDeeds DEF DeclareLandingOnTurn, moneyVars
<1>2. ASSUME NEW l \in LandingId, NEW p \in Player, NEW o \in Property,
             DeclareLandingOnBoard(p, o, l)
      PROVE  LeavesDeeds
  BY <1>2, SameLog, UnlockedFaces DEF DeclareLandingOnBoard, CancelRequests, moneyVars
<1>3. ASSUME NEW l \in LandingId, NEW p \in Player, NEW r \in RequestId,
             DeclareStartOnTurn(p, l, r) \/ DeclareStartOnBoard(p, l, r)
      PROVE  LeavesDeeds
  <2>1. /\ \E S : prop' = Unlocked(S)
        /\ log' = log
    BY <1>3 DEF DeclareStartOnTurn, DeclareStartOnBoard, moneyVars
  <2> QED
    BY <2>1, SameLog, UnlockedFaces
<1>4. ASSUME NEW l \in LandingId, NEW b \in BOOLEAN, ConfirmLanding(l, b)
      PROVE  LeavesDeeds
  BY <1>4, QuietDeeds DEF ConfirmLanding, moneyVars
<1>5. ASSUME NEW l \in LandingId, CancelLandingPropertyActions(l)
      PROVE  LeavesDeeds
  BY <1>5, SameLog, UnlockedFaces DEF CancelLandingPropertyActions, CancelRequests, moneyVars
<1> QED
  BY <1>1, <1>2, <1>3, <1>4, <1>5 DEF LandingStep

\* Filing any request leaves the deeds; a property request only locks one.
LEMMA RequestStepDeeds ==
  ASSUME TypeInv, DeedRequestStep \/ CashRequestStep
  PROVE  LeavesDeeds
<1>1. FilesDeedRequest \/ FilesCashRequest
  BY DeedRequestEffect, CashRequestEffect
<1>2. ASSUME NEW o \in Property, NEW r, NEW row, FileFor(o, r, row)
      PROVE  LeavesDeeds
  <2>1. \A x \in Property : prop[x] \in Deed
    BY DEF TypeInv, TypeOK
  <2>2. \A x \in Property : FaceOf(prop'[x]) = FaceOf(prop[x])
    BY <1>2, <2>1 DEF FileFor, FaceOf, TypeInv, TypeOK, Deed
  <2>3. log' = log
    BY <1>2 DEF FileFor, File, moneyVars
  <2> QED
    BY <2>2, <2>3, SameLog DEF LeavesDeeds
<1>3. CASE FilesDeedRequest
  BY <1>2, <1>3 DEF FilesDeedRequest
<1>4. CASE FilesCashRequest
  BY <1>4, QuietDeeds DEF FilesCashRequest, File, moneyVars
<1> QED
  BY <1>1, <1>3, <1>4

\* Of the settling commands only an executed property request changes a deed.
LEMMA SettleStepDeeds ==
  ASSUME TypeInv, SettleStep
  PROVE  LeavesDeeds \/ \E r \in RequestId : ExecutesDeed(r)
<1>1. ASSUME NEW r \in RequestId, ConfirmTrade(r) PROVE LeavesDeeds
  BY <1>1, QuietDeeds DEF ConfirmTrade, moneyVars
<1>2. ASSUME NEW r \in RequestId, Reject(r) PROVE LeavesDeeds
  BY <1>2, SameLog, UnlockedFaces DEF Reject, moneyVars
<1>3. ASSUME NEW r \in RequestId, ApproveCash(r) PROVE LeavesDeeds
  <2>1. PICK tx \in TransactionRow : tx.prop = Nil /\ Execute(r, tx) /\ UNCHANGED prop
    BY <1>3, ApproveCashEffect DEF ExecutesPlainly, Plain
  <2> DEFINE row == [tx EXCEPT !.request = r]
  <2>2. row \in TransactionRow /\ row.prop = Nil /\ Commit(row)
    BY <2>1 DEF Execute, TransactionRow
  <2> HIDE DEF row
  <2> QED
    BY <2>1, <2>2, CommitDeeds
<1>4. ASSUME NEW r \in RequestId, ApproveDeed(r) PROVE ExecutesDeed(r)
  BY <1>4, ApproveDeedEffect
<1> QED
  BY <1>1, <1>2, <1>3, <1>4 DEF SettleStep, Approve, ApproveCash, ApproveDeed

\* Steps that only move cash leave the deeds.
LEMMA MovesCashDeeds ==
  ASSUME TypeInv, MovesCash
  PROVE  LeavesDeeds
  BY QuietDeeds, CommitDeeds DEF MovesCash, Plain, moneyVars

\* The bank sets a deed that nothing locks.
SetsDeed ==
  \E o \in Property, owner \in Player \cup {Nil}, level \in Level, m \in BOOLEAN :
    AdjustProperty(o, owner, level, m)

\* The money commands and those of the bank change a deed by a reversal or by
\* setting it.
LEMMA MoneyStepDeeds ==
  ASSUME TypeInv, MoneyStep \/ BankStep
  PROVE  LeavesDeeds \/ ReverseLatest \/ SetsDeed
<1>1. CASE MoneyStep
  BY <1>1, MovesCashEffect, MovesCashDeeds DEF MoneyStep
<1>2. ASSUME NEW p \in Player, NEW n \in Count, NEW palace \in BOOLEAN,
             AddSkipTurns(p, n, palace)
      PROVE  LeavesDeeds
  BY <1>2, MovesCashEffect, MovesCashDeeds
<1>3. ASSUME NEW p \in Player, NEW n \in Count, ConsumeSkip(p, n)
      PROVE  LeavesDeeds
  BY <1>3, QuietDeeds DEF ConsumeSkip, moneyVars
<1> QED
  BY <1>1, <1>2, <1>3 DEF BankStep, SetsDeed

\* Every step leaves the deeds, or is one of the four that do not.
LEMMA DeedEffect ==
  ASSUME TypeInv, Next
  PROVE  \/ LeavesDeeds
         \/ \E r \in RequestId : ExecutesDeed(r)
         \/ ReverseLatest \/ SetsDeed \/ FinishForced
<1>1. ASSUME RoomStep PROVE LeavesDeeds \/ FinishForced
  <2>1. CASE SetApprovalMode
    BY <2>1, QuietDeeds DEF SetApprovalMode, moneyVars
  <2>2. ASSUME NEW p \in Player, JoinMidgame(p) PROVE LeavesDeeds
    BY <2>2, QuietDeeds DEF JoinMidgame, moneyVars
  <2>3. CASE FinishNormal
    BY <2>3, QuietDeeds DEF FinishNormal, CloseRoom, moneyVars
  <2> QED
    BY <1>1, <2>1, <2>2, <2>3 DEF RoomStep
<1> QED
  BY <1>1, TurnStepDeeds, LandingStepDeeds, RequestStepDeeds, SettleStepDeeds,
     MoneyStepDeeds DEF Next

-----------------------------------------------------------------------------
(* The shape and the version of a deed *)

\* Versions still name the deeds when the log keeps its records and every deed
\* that changed has a new version.
LEMMA VersionsKept ==
  ASSUME ShapeInv, TypeInv', LogRecordsKept,
         \A o \in Property : \/ FaceOf(prop'[o]) = FaceOf(prop[o])
                             \/ prop'[o].version > prop[o].version
  PROVE  VersionsRecorded'
<1> SUFFICES ASSUME NEW i \in DOMAIN log', log'[i].prop # Nil
             PROVE  LET now == FaceOf(prop'[log'[i].prop]) IN
                    /\ log'[i].after.version <= now.version
                    /\ log'[i].after.version = now.version => log'[i].after = now
  BY DEF VersionsRecorded
<1>1. /\ i \in DOMAIN log /\ log'[i].prop = log[i].prop /\ log'[i].after = log[i].after
  BY DEF LogRecordsKept
<1> DEFINE o == log[i].prop
<1>2. /\ o \in Property /\ log[i].after.version \in Nat
      /\ prop[o].version \in Nat /\ prop'[o].version \in Nat
  <2>1. /\ log[i] \in TransactionRow
        /\ \A x \in Property : prop[x] \in Deed /\ prop'[x] \in Deed
    BY <1>1 DEF ShapeInv, TypeInv, TypeOK
  <2> QED
    BY <1>1, <2>1 DEF TransactionRow, Face, Deed
<1>3. /\ log[i].after.version <= prop[o].version
      /\ log[i].after.version = prop[o].version => log[i].after = FaceOf(prop[o])
  BY <1>1 DEF ShapeInv, ShapeRules, VersionsRecorded, FaceOf
<1>4. \A d : FaceOf(d).version = d.version
  BY DEF FaceOf
<1> HIDE DEF o
<1>5. CASE FaceOf(prop'[o]) = FaceOf(prop[o])
  BY <1>1, <1>3, <1>4, <1>5 DEF o
<1>6. CASE prop'[o].version > prop[o].version
  <2>1. log[i].after.version < FaceOf(prop'[o]).version
    BY <1>2, <1>3, <1>4, <1>6
  <2> QED
    BY <1>1, <1>2, <1>4, <2>1 DEF o
<1> QED
  BY <1>2, <1>5, <1>6

\* Recorded deeds keep their shape when the log keeps its records.
LEMMA RecordsKept ==
  ASSUME ShapeInv, LogRecordsKept
  PROVE  RecordedShape'
  BY DEF ShapeInv, ShapeRules, RecordedShape, LogRecordsKept, FaceShape

\* A step that leaves the deeds keeps the rules.
LEMMA LeavesShape ==
  ASSUME ShapeInv, TypeInv', LeavesDeeds
  PROVE  ShapeRules'
<1>1. DeedShape'
  BY FaceFields DEF ShapeInv, ShapeRules, DeedShape, SameFace, LeavesDeeds
<1> QED
  BY <1>1, RecordsKept, VersionsKept DEF LeavesDeeds, ShapeRules

\* Executing a property request keeps the rules.
LEMMA ExecuteDeedShape ==
  ASSUME ShapeInv, NEW r \in RequestId, request[r].status = "PENDING",
         request[r].type \in DeedRequest, NEW delta \in [Player -> Int],
         NEW deed \in Deed, NEW after \in Face, FaceShape(deed), SameFace(deed, after),
         ExecuteDeed(r, delta, deed, after)
  PROVE  ShapeRules'
<1> DEFINE q == request[r]
           d == prop[q.prop]
           left == [after EXCEPT !.version = d.version + 1]
           tx == [Transaction(q.type, delta)
                    EXCEPT !.prop = q.prop, !.before = FaceOf(d), !.after = left]
           new == [deed EXCEPT !.lock = Nil, !.version = d.version + 1]
<1>1. /\ prop \in [Property -> Deed] /\ log \in Seq(TransactionRow)
      /\ q \in RequestRow /\ RowShape(q) /\ q.type \in TransactionType
  BY DEF ShapeInv, TypeInv, TypeOK, RequestShape, TransactionType, RequestType
<1>2. q.prop \in Property /\ d \in Deed /\ d.version \in Nat
  BY <1>1 DEF RequestRow, RowShape, Deed
<1>3. FaceShape(FaceOf(d))
  BY <1>2 DEF ShapeInv, ShapeRules, DeedShape, FaceShape, FaceOf
<1>4. FaceShape(new) /\ new.version = d.version + 1
  BY DEF FaceShape, Deed
<1>5. left = FaceOf(new)
  BY <1>2 DEF SameFace, FaceOf, Deed, Face
<1>6. /\ [tx EXCEPT !.request = r].before = FaceOf(d)
      /\ [tx EXCEPT !.request = r].after = left
      /\ [tx EXCEPT !.request = r].prop = q.prop
  BY DEF Transaction
<1>7. /\ prop' = [prop EXCEPT ![q.prop] = new]
      /\ log' = Append(log, [tx EXCEPT !.request = r])
  BY DEF ExecuteDeed, Execute, Commit
<1> DEFINE row == [tx EXCEPT !.request = r]
<1> HIDE DEF q, d, left, tx, new, row
<1>8. /\ DOMAIN log' = 1 .. Len(log) + 1 /\ log'[Len(log) + 1] = row
      /\ \A i \in 1 .. Len(log) : log'[i] = log[i]
      /\ DOMAIN log = 1 .. Len(log) /\ Len(log) \in Nat
  BY <1>1, <1>7 DEF row
<1>9. DeedShape'
  BY <1>1, <1>2, <1>4, <1>7 DEF ShapeInv, ShapeRules, DeedShape, FaceShape
<1>10. RecordedShape'
  <2>1. ASSUME NEW i \in DOMAIN log', log'[i].prop # Nil
        PROVE  FaceShape(log'[i].before)
    <3>1. CASE i = Len(log) + 1
      BY <1>3, <1>6, <1>8, <3>1 DEF row
    <3>2. CASE i # Len(log) + 1
      <4>1. i \in DOMAIN log /\ log'[i] = log[i]
        BY <1>8, <3>2
      <4> QED
        BY <2>1, <4>1 DEF ShapeInv, ShapeRules, RecordedShape
    <3> QED
      BY <3>1, <3>2
  <2> QED
    BY <2>1 DEF RecordedShape, FaceShape
<1>11. ASSUME NEW i \in DOMAIN log', log'[i].prop # Nil
       PROVE  LET now == FaceOf(prop'[log'[i].prop]) IN
              /\ log'[i].after.version <= now.version
              /\ log'[i].after.version = now.version => log'[i].after = now
  <2>0. \A e : FaceOf(e).version = e.version
    BY DEF FaceOf
  <2>1. CASE i = Len(log) + 1
    <3>1. log'[i].after = FaceOf(prop'[log'[i].prop])
      BY <1>1, <1>2, <1>5, <1>6, <1>7, <1>8, <2>1 DEF row
    <3>2. FaceOf(prop'[log'[i].prop]).version \in Nat
      <4>1. prop'[log'[i].prop] = new
        BY <1>1, <1>2, <1>6, <1>7, <1>8, <2>1 DEF row
      <4> QED
        BY <1>2, <1>4, <2>0, <4>1
    <3> QED
      BY <3>1, <3>2
  <2>2. CASE i # Len(log) + 1
    <3>1. i \in DOMAIN log /\ log'[i] = log[i]
      BY <1>8, <2>2
    <3> DEFINE o == log[i].prop
    <3>2. o \in Property /\ log[i].after.version \in Nat /\ prop[o].version \in Nat
      <4>1. log[i] \in TransactionRow /\ \A x \in Property : prop[x] \in Deed
        BY <1>1, <3>1
      <4> QED
        BY <1>11, <3>1, <4>1 DEF TransactionRow, Face, Deed
    <3>3. /\ log[i].after.version <= prop[o].version
          /\ log[i].after.version = prop[o].version => log[i].after = FaceOf(prop[o])
      BY <1>11, <2>0, <3>1 DEF ShapeInv, ShapeRules, VersionsRecorded
    <3> HIDE DEF o
    <3>4. CASE o = q.prop
      <4>1. prop'[o].version = prop[o].version + 1
        BY <1>1, <1>2, <1>4, <1>7, <3>4 DEF d
      <4> QED
        BY <2>0, <3>1, <3>2, <3>3, <4>1 DEF o
    <3>5. CASE o # q.prop
      <4>1. prop'[o] = prop[o]
        BY <1>1, <1>2, <1>7, <3>2, <3>5
      <4> QED
        BY <2>0, <3>1, <3>3, <4>1 DEF o
    <3> QED
      BY <3>4, <3>5
  <2> QED
    BY <2>1, <2>2
<1>12. VersionsRecorded'
  BY <1>11 DEF VersionsRecorded
<1> QED
  BY <1>9, <1>10, <1>12 DEF ShapeRules

\* A reversal puts back a recorded deed, which has the shape, with a new
\* version.
LEMMA ReverseLatestShape ==
  ASSUME ShapeInv, TypeInv', ReverseLatest
  PROVE  ShapeRules'
<1>0. TypeOK
  BY DEF ShapeInv, TypeInv
<1>1. PICK i \in DOMAIN log :
        /\ log' = Append([log EXCEPT ![i].status = "REVERSED"],
                         [Transaction("REVERSAL", Negated(log[i].delta))
                            EXCEPT !.reversible = FALSE, !.undoes = i])
        /\ prop' = IF log[i].prop = Nil THEN prop
                   ELSE [prop EXCEPT ![log[i].prop] = Restored(@, log[i].before)]
  BY DEF ReverseLatest
<1> DEFINE t == log[i]
           row == [t EXCEPT !.status = "REVERSED"]
           undo == [Transaction("REVERSAL", Negated(t.delta))
                      EXCEPT !.reversible = FALSE, !.undoes = i]
<1>2. /\ t \in TransactionRow /\ log \in Seq(TransactionRow) /\ i \in 1 .. Len(log)
      /\ prop \in [Property -> Deed]
  BY <1>0 DEF TypeOK
<1>3. /\ row \in TransactionRow /\ row.prop = t.prop
      /\ row.before = t.before /\ row.after = t.after
  BY <1>2 DEF TransactionRow
<1>4. undo.prop = Nil
  BY DEF Transaction
<1>5. log' = Append([log EXCEPT ![i] = row], undo)
  BY <1>1
<1>6. prop' = IF t.prop = Nil THEN prop
              ELSE [prop EXCEPT ![t.prop] = Restored(prop[t.prop], t.before)]
  BY <1>1
<1>7. t.prop # Nil => t.prop \in Property /\ FaceShape(t.before)
  BY <1>2 DEF ShapeInv, ShapeRules, RecordedShape, TransactionRow
<1>8. ASSUME t.prop # Nil
      PROVE  /\ FaceShape(Restored(prop[t.prop], t.before))
             /\ Restored(prop[t.prop], t.before).version > prop[t.prop].version
  BY <1>2, <1>7, <1>8 DEF FaceShape, Restored, Deed
<1> HIDE DEF t, row, undo
<1>9. DeedShape'
  BY <1>2, <1>6, <1>7, <1>8 DEF ShapeInv, ShapeRules, DeedShape, FaceShape
<1>10. \A o \in Property : \/ FaceOf(prop'[o]) = FaceOf(prop[o])
                           \/ prop'[o].version > prop[o].version
  BY <1>2, <1>6, <1>7, <1>8
<1>11. LogRecordsKept
  <2> DEFINE marked == [log EXCEPT ![i] = row]
  <2>1. /\ Len(marked) = Len(log)
        /\ \A j \in 1 .. Len(log) : marked[j] = IF j = i THEN row ELSE log[j]
    BY <1>2, <1>3, ExceptSeq
  <2>2. /\ Len(log') = Len(log) + 1 /\ DOMAIN log' = 1 .. Len(log')
        /\ \A j \in 1 .. Len(log) : log'[j] = marked[j]
        /\ log'[Len(log) + 1] = undo
    BY <1>2, <1>5, <2>1
  <2> HIDE DEF marked
  <2>3. ASSUME NEW j \in DOMAIN log' , j # Len(log) + 1
        PROVE  /\ j \in DOMAIN log
               /\ log'[j].prop = log[j].prop
               /\ log'[j].before = log[j].before /\ log'[j].after = log[j].after
    <3>1. j \in 1 .. Len(log)
      BY <1>2, <2>2, <2>3
    <3>2. CASE j = i
      BY <1>2, <1>3, <2>1, <2>2, <3>1, <3>2 DEF t
    <3>3. CASE j # i
      BY <1>2, <2>1, <2>2, <3>1, <3>3
    <3> QED
      BY <3>2, <3>3
  <2> QED
    BY <1>4, <2>2, <2>3 DEF LogRecordsKept
<1> QED
  BY <1>9, <1>10, <1>11, RecordsKept, VersionsKept DEF ShapeRules

\* The bank sets deeds of the right shape, with a new version.
LEMMA SetsDeedShape ==
  ASSUME ShapeInv, TypeInv', SetsDeed
  PROVE  ShapeRules'
<1>1. PICK o \in Property, owner \in Player \cup {Nil}, level \in Level, m \in BOOLEAN :
        AdjustProperty(o, owner, level, m)
  BY DEF SetsDeed
<1> DEFINE deed == [owner |-> owner, level |-> level, mortgaged |-> m, lock |-> Nil,
                    version |-> prop[o].version + 1]
<1>2. prop' = [prop EXCEPT ![o] = deed] /\ log' = log /\ AcceptedDeed(owner, level, m)
  BY <1>1 DEF AdjustProperty, moneyVars
<1>3. FaceShape(deed) /\ deed.version > prop[o].version
  BY <1>2 DEF AcceptedDeed, FaceShape, ShapeInv, TypeInv, TypeOK, Deed
<1>4. prop \in [Property -> Deed]
  BY DEF ShapeInv, TypeInv, TypeOK
<1> HIDE DEF deed
<1>5. DeedShape'
  BY <1>2, <1>3, <1>4 DEF ShapeInv, ShapeRules, DeedShape, FaceShape
<1>6. \A x \in Property : \/ FaceOf(prop'[x]) = FaceOf(prop[x])
                          \/ prop'[x].version > prop[x].version
  BY <1>2, <1>3, <1>4
<1> QED
  BY <1>2, <1>5, <1>6, SameLog, RecordsKept, VersionsKept DEF ShapeRules

\* A forced finish unlocks the locked deeds and raises their version.
LEMMA FinishForcedFaces ==
  ASSUME TypeInv, FinishForced, NEW o \in Property
  PROVE  /\ SameFace(prop[o], prop'[o])
         /\ \/ FaceOf(prop'[o]) = FaceOf(prop[o])
            \/ prop'[o].version > prop[o].version
<1>1. prop[o] \in Deed
  BY DEF TypeInv, TypeOK
<1>2. prop'[o] = IF prop[o].lock = Nil THEN prop[o]
                 ELSE [prop[o] EXCEPT !.lock = Nil, !.version = @ + 1]
  BY DEF FinishForced
<1> DEFINE d == prop[o]
           new == [d EXCEPT !.lock = Nil, !.version = d.version + 1]
<1>3. /\ d \in Deed
      /\ prop'[o] = IF d.lock = Nil THEN d ELSE new
  BY <1>1, <1>2
<1> HIDE DEF d
<1>4. SameFace(d, new) /\ new.version > d.version /\ SameFace(d, d)
  BY <1>3 DEF SameFace, Deed
<1> QED
  BY <1>3, <1>4 DEF d

\* Every step keeps the rules.
LEMMA ShapeStep ==
  ASSUME ShapeInv, TypeInv', Next
  PROVE  ShapeRules'
<1>0. TypeInv
  BY DEF ShapeInv
<1>1. CASE LeavesDeeds
  BY <1>1, LeavesShape
<1>2. ASSUME NEW r \in RequestId, ExecutesDeed(r) PROVE ShapeRules'
  BY <1>2, ExecuteDeedShape DEF ExecutesDeed, ShapeInv, ShapeRules
<1>3. CASE FinishForced
  <2>1. log' = log
    BY <1>3 DEF FinishForced, CloseRoom, moneyVars
  <2>2. DeedShape'
    BY <1>0, <1>3, FinishForcedFaces DEF ShapeInv, ShapeRules, DeedShape, SameFace
  <2> QED
    BY <1>0, <1>3, <2>1, <2>2, FinishForcedFaces, SameLog, RecordsKept, VersionsKept
    DEF ShapeRules
<1> QED
  BY <1>0, <1>1, <1>2, <1>3, DeedEffect, ReverseLatestShape, SetsDeedShape

\* ShapeInv holds in every reachable state of every room.
THEOREM ShapeInvariant == Spec => []ShapeInv
<1>1. Init => ShapeInv
  <2> SUFFICES ASSUME Init PROVE ShapeInv
    OBVIOUS
  <2>1. TypeInv
    BY InitTypeInv
  <2>2. DeedShape /\ RecordedShape /\ VersionsRecorded
    BY DEF Init, DeedShape, RecordedShape, VersionsRecorded
  <2> QED
    BY <2>1, <2>2 DEF ShapeInv, ShapeRules
<1>2. ShapeInv /\ [Next]_vars => ShapeInv'
  <2> SUFFICES ASSUME ShapeInv, [Next]_vars PROVE ShapeInv'
    OBVIOUS
  <2>1. TypeInv'
    BY TypeInvStep DEF ShapeInv
  <2>2. CASE UNCHANGED vars
    BY <2>2, QuietDeeds, LeavesShape, <2>1 DEF vars, ShapeInv
  <2>3. CASE Next
    BY <2>1, <2>3, ShapeStep DEF ShapeInv
  <2> QED
    BY <2>2, <2>3
<1> QED
  BY <1>1, <1>2, PTL DEF Spec

\* No sequence of approvals, corrections by the bank and reversals ever
\* leaves a deed without owner that carries a building or a mortgage, or a
\* mortgaged deed with a building: the checks of the database never refuse a
\* write of the service.
THEOREM DeedsKeepTheirShape == Spec => []DeedShape
<1>1. ShapeInv => DeedShape
  BY DEF ShapeInv, ShapeRules
<1> QED
  BY <1>1, ShapeInvariant, PTL

\* A deed that still has the version a transaction recorded is still in the
\* state it recorded, however many requests, corrections, reversals and
\* finishes came in between: the version check of a reversal never lets it
\* overwrite a later change.
THEOREM VersionsNameDeeds == Spec => []VersionNamesDeed
<1>1. ShapeInv => VersionNamesDeed
  BY DEF ShapeInv, ShapeRules, VersionsRecorded, VersionNamesDeed, FaceOf
<1> QED
  BY <1>1, ShapeInvariant, PTL

-----------------------------------------------------------------------------
(* Locked deeds *)

\* What LockedDeedFrozen asks of a step.
LockedFrozen ==
  \A o \in Property :
    /\ prop[o].lock # Nil
    /\ FaceOf(prop[o]) # FaceOf(prop'[o])
    => \/ request'[prop[o].lock].status = "EXECUTED"
       \/ status' = "FINISHED" /\ prop'[o].owner = prop[o].owner

\* Every step does it.
LEMMA LockedFrozenStep ==
  ASSUME TypeInv, [Next]_vars
  PROVE  LockedFrozen
<1>0. /\ prop \in [Property -> Deed] /\ request \in [RequestId -> RequestRow]
  BY DEF TypeInv, TypeOK
<1>1. CASE UNCHANGED vars
  BY <1>1 DEF vars, LockedFrozen
<1>2. CASE LeavesDeeds
  BY <1>2 DEF LeavesDeeds, LockedFrozen
<1>3. ASSUME NEW r \in RequestId, ExecutesDeed(r) PROVE LockedFrozen
  <2>1. PICK new :
          /\ prop[request[r].prop].lock = r
          /\ prop' = [prop EXCEPT ![request[r].prop] = new]
          /\ request' = [request EXCEPT ![r].status = "EXECUTED"]
    BY <1>3 DEF ExecutesDeed, ExecuteDeed, Execute
  <2>2. request'[r].status = "EXECUTED"
    BY <1>0, <2>1 DEF RequestRow
  <2> QED
    BY <1>0, <2>1, <2>2 DEF LockedFrozen
<1>4. CASE ReverseLatest
  <2>1. PICK i \in DOMAIN log :
          /\ log[i].prop # Nil => prop[log[i].prop].lock = Nil
          /\ prop' = IF log[i].prop = Nil THEN prop
                     ELSE [prop EXCEPT ![log[i].prop] = Restored(@, log[i].before)]
    BY <1>4 DEF ReverseLatest, Undoable, StillAsLeft
  <2> QED
    BY <1>0, <2>1 DEF LockedFrozen
<1>5. CASE SetsDeed
  BY <1>0, <1>5 DEF SetsDeed, AdjustProperty, LockedFrozen
<1>6. CASE FinishForced
  BY <1>6, FinishForcedFaces DEF LockedFrozen, SameFace, FinishForced, CloseRoom
<1> QED
  BY <1>1, <1>2, <1>3, <1>4, <1>5, <1>6, DeedEffect

\* A deed on which a request waits is changed by the execution of that very
\* request and by nothing else, reversals and the bank's own changes included;
\* a forced finish leaves it its owner.
THEOREM LockedDeedsAreFrozen == Spec => LockedDeedFrozen
<1>1. TypeInv /\ [Next]_vars => [LockedFrozen]_vars
  BY LockedFrozenStep
<1> QED
  BY <1>1, TypeInvariant, PTL DEF Spec, LockedDeedFrozen, LockedFrozen

=============================================================================
