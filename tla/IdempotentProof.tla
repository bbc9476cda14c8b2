-------------------------- MODULE IdempotentProof ---------------------------
(***************************************************************************)
(* Proofs about IdempotentWrites, for every number of tabs, endpoints,     *)
(* calls, attempts and keys.                                               *)
(***************************************************************************)
EXTENDS IdempotentWrites, TLAPS

\* A record is written once: an applied write is recorded as such, and a
\* recorded refusal was never applied.
RecordTellsApplied ==
    \A k \in Key :
      /\ record[k] = None \/ record[k].code \in {"OK", "REFUSED"}
      /\ applied[k] = IF record[k].code = "OK" THEN 1 ELSE 0

\* Between commit and notice one call stands for a key.
OneNotifier ==
    /\ \A x \in Call : call[x].stage = "COMMITTED" =>
         /\ applied[call[x].key] = 1
         /\ notified[call[x].key] = 0
    /\ \A x, y \in Call :
         /\ call[x].stage = "COMMITTED"
         /\ call[y].stage = "COMMITTED"
         /\ call[x].key = call[y].key
         => x = y

\* What a tab waits to confirm is applied.
ConfirmedIsApplied == \A t \in Tab : \A w \in confirming[t] : applied[w[2]] = 1

\* Among the keys of one intent on one page only the pending one may be
\* unapplied.
OthersAreApplied ==
    \A a \in DOMAIN issued :
      /\ issued[a].page <= page[issued[a].tab]
      /\ /\ issued[a].page = page[issued[a].tab]
         /\ pending[issued[a].tab][issued[a].intent] # a
         => applied[a] = 1

ServerInv ==
    /\ RecordTellsApplied
    /\ AtMostOnce
    /\ OneNotifier
    /\ AnswersAgree

TabInv ==
    /\ ConfirmedIsApplied
    /\ OthersAreApplied
    /\ LaterKeyMeansApplied

\* The inductive invariant.
Inv == TypeOK /\ ServerInv /\ TabInv

-----------------------------------------------------------------------------
(* Rows of the calls.                                                       *)

\* What a step of the API may put in the place of a call: it is free, on its
\* way to another transaction, or an answer that is recorded or an error.
Settles(r) ==
    /\ r \in CallRow \cup {FreeCall}
    /\ r.stage # "COMMITTED"
    /\ r.stage = "ANSWERED" /\ r.answer.code = "OK" =>
         r.answer = record[r.key] /\ applied[r.key] = 1

\* A call that is not free has all its fields.
LEMMA RowOfCall ==
    ASSUME TypeOK, NEW x \in Call, call[x].stage # "FREE"
    PROVE  call[x] \in CallRow
BY DEF TypeOK, FreeCall

\* What a sequence holds.
LEMMA ElementOfSeq ==
    ASSUME NEW S, NEW s \in Seq(S), NEW a \in 1..Len(s)
    PROVE  s[a] \in S
OBVIOUS

\* Counting up one entry of a function of naturals.
LEMMA CountedUp ==
    ASSUME NEW K, NEW f \in [K -> Nat], NEW k \in K, f[k] = 0
    PROVE  [f EXCEPT ![k] = @ + 1] \in [K -> Nat]
OBVIOUS

\* The position of an issued key is the key.
LEMMA KeyOfIssued ==
    ASSUME TypeOK, NEW a \in DOMAIN issued
    PROVE  /\ a \in Key
           /\ issued[a].tab \in Tab
           /\ issued[a].intent \in Intent
           /\ issued[a].page \in Nat
<1>1. issued \in Seq([tab : Tab, intent : Intent, page : 0..MaxPages])
  BY DEF TypeOK
<1>2. Len(issued) \in Nat /\ DOMAIN issued = 1..Len(issued)
  BY <1>1
<1>3. a \in Key
  BY <1>2, BoundAssumption DEF TypeOK, Key
<1>4. issued[a] \in [tab : Tab, intent : Intent, page : 0..MaxPages]
  BY <1>1, <1>2, ElementOfSeq
<1> QED BY <1>3, <1>4, BoundAssumption

\* At moves a call to another stage and leaves what it is about.
LEMMA AtKeepsCall ==
    ASSUME TypeOK, NEW x \in Call, call[x] \in CallRow,
           NEW stage \in AtServer \cup {"ANSWERED"}
    PROVE  /\ At(x, stage) \in CallRow
           /\ At(x, stage).stage = stage
           /\ At(x, stage).key = call[x].key
BY DEF At, CallRow

\* Reply answers with what it is given, or drops it.
LEMMA ReplySettles ==
    ASSUME TypeOK, NEW x \in Call, call[x] \in CallRow,
           NEW answer \in Answer,
           answer.code = "OK" =>
             answer = record[call[x].key] /\ applied[call[x].key] = 1,
           Reply(x, answer)
    PROVE  \E r : Settles(r) /\ call' = [call EXCEPT ![x] = r]
<1>1. CASE awaited[call[x].tab] = x
  <2> DEFINE r == [At(x, "ANSWERED") EXCEPT !.answer = answer]
  <2>1. At(x, "ANSWERED") \in CallRow /\ At(x, "ANSWERED").stage = "ANSWERED"
        /\ At(x, "ANSWERED").key = call[x].key
    BY AtKeepsCall
  <2>2. /\ r \in CallRow
        /\ r.stage = "ANSWERED"
        /\ r.key = call[x].key
        /\ r.answer = answer
    BY <2>1 DEF CallRow
  <2>3. Settles(r)
    BY <2>2 DEF Settles
  <2> QED BY <1>1, <2>3 DEF Reply
<1>2. CASE awaited[call[x].tab] # x
  <2>1. Settles(FreeCall)
    BY DEF Settles, FreeCall
  <2> QED BY <1>2, <2>1 DEF Reply
<1> QED BY <1>1, <1>2

\* An error is no success.
LEMMA ErrorIsAnswer ==
    ASSUME NEW code \in {"REFUSED", "AUTH", "CONFLICT"}
    PROVE  Error(code) \in Answer /\ Error(code).code # "OK"
BY DEF Error, Answer

\* Trying again keeps the call on its way.
LEMMA AgainSettles ==
    ASSUME TypeOK, NEW x \in Call, call[x] \in CallRow,
           NEW stage \in {"READY", "RECOVER"}, Again(x, stage)
    PROVE  \E r : Settles(r) /\ call' = [call EXCEPT ![x] = r]
<1> DEFINE r == [At(x, stage) EXCEPT !.tries = call[x].tries + 1]
<1>1. At(x, stage) \in CallRow /\ At(x, stage).stage = stage
  BY AtKeepsCall DEF AtServer
<1>2. r \in CallRow /\ r.stage = stage
  BY <1>1 DEF CallRow
<1>3. Settles(r)
  BY <1>2 DEF Settles
<1> QED BY <1>3 DEF Again

\* After a conflict a call is tried again, looked up, or answered with an error.
LEMMA ConflictSettles ==
    ASSUME TypeOK, NEW x \in Call, call[x] \in CallRow,
           NEW kind, AfterConflict(x, kind)
    PROVE  \E r : Settles(r) /\ call' = [call EXCEPT ![x] = r]
<1>1. CASE Again(x, "READY")
  BY <1>1, AgainSettles
<1>2. CASE call' = [call EXCEPT ![x] = At(x, "RECOVER")]
  <2>1. At(x, "RECOVER") \in CallRow /\ At(x, "RECOVER").stage = "RECOVER"
    BY AtKeepsCall DEF AtServer
  <2>2. Settles(At(x, "RECOVER"))
    BY <2>1 DEF Settles
  <2> QED BY <1>2, <2>2
<1>3. CASE Reply(x, Error("CONFLICT"))
  BY <1>3, ReplySettles, ErrorIsAnswer
<1> QED BY <1>1, <1>2, <1>3 DEF AfterConflict

\* A look for a record is repeated or ends in an error.
LEMMA RereadSettles ==
    ASSUME TypeOK, NEW x \in Call, call[x] \in CallRow,
           NEW reason, Reread(x, reason)
    PROVE  \E r : Settles(r) /\ call' = [call EXCEPT ![x] = r]
<1>1. CASE Again(x, "RECOVER")
  BY <1>1, AgainSettles
<1>2. CASE Reply(x, Error("CONFLICT"))
  BY <1>2, ReplySettles, ErrorIsAnswer
<1> QED BY <1>1, <1>2 DEF Reread

-----------------------------------------------------------------------------
(* The kinds of steps.                                                      *)

\* A call is settled and nothing else happens.
LEMMA SettleStep ==
    ASSUME Inv, NEW x \in Call, NEW r, Settles(r),
           call' = [call EXCEPT ![x] = r],
           UNCHANGED <<tabVars, roomVars, notified>>
    PROVE  Inv'
<1> USE DEF tabVars, roomVars
<1>1. TypeOK'
  BY DEF Inv, TypeOK, Settles
<1>2. \A y \in Call : call'[y] = IF y = x THEN r ELSE call[y]
  BY DEF Inv, TypeOK
<1>3. ServerInv'
  BY <1>2 DEF Inv, ServerInv, RecordTellsApplied, AtMostOnce, OneNotifier,
              AnswersAgree, Settles
<1>4. TabInv'
  BY DEF Inv, TabInv, ConfirmedIsApplied, OthersAreApplied, LaterKeyMeansApplied
<1> QED BY <1>1, <1>3, <1>4 DEF Inv

\* Only calls become free, and tabs may stop waiting.
LEMMA DropStep ==
    ASSUME Inv,
           call' \in [Call -> CallRow \cup {FreeCall}],
           \A y \in Call : call'[y] \in {call[y], FreeCall},
           awaited' \in [Tab -> Call \cup {NoCall}],
           UNCHANGED <<pending, confirming, page, issued, roomVars, notified>>
    PROVE  Inv'
<1> USE DEF roomVars
<1>1. TypeOK'
  BY DEF Inv, TypeOK
<1>2. FreeCall.stage = "FREE"
  BY DEF FreeCall
<1>3. ServerInv'
  BY <1>2 DEF Inv, ServerInv, RecordTellsApplied, AtMostOnce, OneNotifier, AnswersAgree
<1>4. TabInv'
  BY DEF Inv, TabInv, ConfirmedIsApplied, OthersAreApplied, LaterKeyMeansApplied
<1> QED BY <1>1, <1>3, <1>4 DEF Inv

-----------------------------------------------------------------------------
(* The tab.                                                                 *)

\* Losing its memory, a tab starts a new page.
LEMMA NewPage ==
    ASSUME Inv, NEW t \in Tab, page[t] < MaxPages,
           page' = [page EXCEPT ![t] = @ + 1],
           pending' = [pending EXCEPT ![t] = NoIntents],
           UNCHANGED <<issued, applied>>
    PROVE  OthersAreApplied' /\ LaterKeyMeansApplied'
           /\ page' \in [Tab -> 0..MaxPages]
           /\ pending' \in [Tab -> [Intent -> Key \cup {0}]]
<1>1. page' \in [Tab -> 0..MaxPages] /\ pending' \in [Tab -> [Intent -> Key \cup {0}]]
  BY BoundAssumption DEF Inv, TypeOK, NoIntents
<1>2. OthersAreApplied'
  <2> SUFFICES ASSUME NEW a \in DOMAIN issued
               PROVE  /\ issued[a].page <= page'[issued[a].tab]
                      /\ /\ issued[a].page = page'[issued[a].tab]
                         /\ pending'[issued[a].tab][issued[a].intent] # a
                         => applied[a] = 1
    BY DEF OthersAreApplied
  <2>1. issued[a].tab \in Tab /\ issued[a].page \in Nat
    BY KeyOfIssued DEF Inv
  <2>2. page[t] \in Nat /\ page[issued[a].tab] \in Nat
    BY <2>1, BoundAssumption DEF Inv, TypeOK
  <2>3. CASE issued[a].tab = t
    BY <2>1, <2>2, <2>3 DEF Inv, TypeOK, TabInv, OthersAreApplied
  <2>4. CASE issued[a].tab # t
    BY <2>1, <2>2, <2>4 DEF Inv, TypeOK, TabInv, OthersAreApplied
  <2> QED BY <2>3, <2>4
<1>3. LaterKeyMeansApplied'
  BY DEF Inv, TabInv, LaterKeyMeansApplied
<1> QED BY <1>1, <1>2, <1>3

\* logout() and invalidateLogin() keep what is known of applied writes.
LEMMA LogoutStep ==
    ASSUME Inv, NEW t \in Tab, Logout(t)
    PROVE  Inv'
<1> USE DEF roomVars
<1>1. /\ OthersAreApplied' /\ LaterKeyMeansApplied'
      /\ page' \in [Tab -> 0..MaxPages]
      /\ pending' \in [Tab -> [Intent -> Key \cup {0}]]
  BY NewPage DEF Logout
<1>2. TypeOK'
  BY <1>1 DEF Logout, Inv, TypeOK
<1>3. ServerInv' /\ ConfirmedIsApplied'
  BY DEF Logout, Inv, ServerInv, RecordTellsApplied, AtMostOnce, OneNotifier,
         AnswersAgree, TabInv, ConfirmedIsApplied
<1> QED BY <1>1, <1>2, <1>3 DEF Inv, TabInv

\* Loading the page again forgets all and confirms nothing.
LEMMA ReloadStep ==
    ASSUME Inv, NEW t \in Tab, Reload(t)
    PROVE  Inv'
<1> USE DEF roomVars
<1>1. /\ OthersAreApplied' /\ LaterKeyMeansApplied'
      /\ page' \in [Tab -> 0..MaxPages]
      /\ pending' \in [Tab -> [Intent -> Key \cup {0}]]
  BY NewPage DEF Reload
<1>2. TypeOK'
  BY <1>1 DEF Reload, Inv, TypeOK
<1>3. ServerInv'
  BY DEF Reload, Inv, ServerInv, RecordTellsApplied, AtMostOnce, OneNotifier, AnswersAgree
<1>4. ConfirmedIsApplied'
  BY DEF Reload, Inv, TypeOK, TabInv, ConfirmedIsApplied
<1> QED BY <1>1, <1>2, <1>3, <1>4 DEF Inv, TabInv

\* A broken connection frees a call at most.
LEMMA LoseConnectionStep ==
    ASSUME Inv, NEW t \in Tab, LoseConnection(t)
    PROVE  Inv'
<1>1. awaited[t] \in Call
  BY DEF LoseConnection, Free, Inv, TypeOK
<1>2. awaited' \in [Tab -> Call \cup {NoCall}]
  BY DEF LoseConnection, Inv, TypeOK
<1>3. /\ call' \in [Call -> CallRow \cup {FreeCall}]
      /\ \A y \in Call : call'[y] \in {call[y], FreeCall}
  BY <1>1 DEF LoseConnection, Inv, TypeOK
<1> QED BY <1>2, <1>3, DropStep DEF LoseConnection

\* only a key whose write is applied is forgotten
LEMMA ConfirmStep ==
    ASSUME Inv, NEW t \in Tab, NEW w \in confirming[t],
           Confirm(t, w) \/ LeaveUnconfirmed(t, w)
    PROVE  Inv'
<1> USE DEF roomVars
<1>1. w \in Intent \X Key /\ applied[w[2]] = 1
  BY DEF Inv, TypeOK, TabInv, ConfirmedIsApplied
<1>2. confirming' = [confirming EXCEPT ![t] = @ \ {w}]
  BY DEF Confirm, LeaveUnconfirmed
<1>3. \/ UNCHANGED pending
      \/ /\ pending[t][w[1]] = w[2]
         /\ pending' = [pending EXCEPT ![t][w[1]] = 0]
  BY DEF Confirm, LeaveUnconfirmed
<1>4. UNCHANGED <<awaited, page, issued, call, roomVars, notified>>
  BY DEF Confirm, LeaveUnconfirmed
<1>5. TypeOK'
  <2>1. pending' \in [Tab -> [Intent -> Key \cup {0}]]
    <3>1. pending \in [Tab -> [Intent -> Key \cup {0}]] /\ w[1] \in Intent
      BY <1>1 DEF Inv, TypeOK
    <3>2. 0 \in Key \cup {0}
      OBVIOUS
    <3> HIDE DEF Key
    <3> QED BY <3>1, <3>2, <1>3
  <2>2. confirming' \in [Tab -> SUBSET (Intent \X Key)]
    BY <1>2 DEF Inv, TypeOK
  <2> QED BY <2>1, <2>2, <1>4 DEF Inv, TypeOK
<1>6. ServerInv'
  BY <1>4 DEF Inv, ServerInv, RecordTellsApplied, AtMostOnce, OneNotifier, AnswersAgree
<1>7. ConfirmedIsApplied' /\ LaterKeyMeansApplied'
  BY <1>2, <1>4 DEF Inv, TypeOK, TabInv, ConfirmedIsApplied, LaterKeyMeansApplied
<1>8. OthersAreApplied'
  <2> SUFFICES ASSUME NEW a \in DOMAIN issued,
                      issued[a].page = page[issued[a].tab],
                      pending'[issued[a].tab][issued[a].intent] # a,
                      pending[issued[a].tab][issued[a].intent] = a
               PROVE  applied[a] = 1
    BY <1>4 DEF OthersAreApplied, Inv, TabInv
  <2>1. issued[a].tab \in Tab /\ issued[a].intent \in Intent
    BY KeyOfIssued DEF Inv
  <2>2. pending[t][w[1]] = w[2] /\ pending' = [pending EXCEPT ![t][w[1]] = 0]
    BY <1>3
  <2>3. pending \in [Tab -> [Intent -> Key \cup {0}]] /\ w[1] \in Intent
    BY <1>1 DEF Inv, TypeOK
  <2>4. issued[a].tab = t /\ issued[a].intent = w[1]
    BY <2>1, <2>2, <2>3
  <2>5. a = w[2]
    BY <2>2, <2>4
  <2> QED BY <1>1, <2>5
<1> QED BY <1>5, <1>6, <1>7, <1>8 DEF Inv, TabInv

\* success is heard only of what is applied
LEMMA DeliverStep ==
    ASSUME Inv, NEW x \in Call, Deliver(x)
    PROVE  Inv'
<1> USE DEF roomVars
<1> DEFINE t == call[x].tab
           i == call[x].intent
           k == call[x].key
           answer == call[x].answer
<1>1. call[x] \in CallRow
  BY RowOfCall DEF Deliver, Inv
<1>2. t \in Tab /\ i \in Intent /\ k \in Key /\ answer \in Answer
  BY <1>1 DEF CallRow
<1>3. answer.code = "OK" => applied[k] = 1
  BY DEF Deliver, Inv, ServerInv, AnswersAgree
<1>4. Hear(t, i, k, answer) /\ (answer.code = "AUTH" => page[t] < MaxPages)
  BY DEF Deliver
<1>5. /\ confirming' \in [Tab -> SUBSET (Intent \X Key)]
      /\ ConfirmedIsApplied'
  <2>1. CASE answer.code = "OK"
    <3>1. confirming' = [confirming EXCEPT ![t] = @ \cup {<<i, k>>}]
      BY <1>4, <2>1 DEF Hear
    <3>2. confirming' \in [Tab -> SUBSET (Intent \X Key)]
      BY <3>1, <1>2 DEF Inv, TypeOK
    <3>3. ConfirmedIsApplied'
      BY <3>1, <1>2, <1>3, <2>1 DEF Deliver, Inv, TypeOK, TabInv, ConfirmedIsApplied
    <3> QED BY <3>2, <3>3
  <2>2. CASE answer.code # "OK"
    BY <1>4, <2>2 DEF Hear, Deliver, Inv, TypeOK, TabInv, ConfirmedIsApplied
  <2> QED BY <2>1, <2>2
<1>6. /\ OthersAreApplied' /\ LaterKeyMeansApplied'
      /\ page' \in [Tab -> 0..MaxPages]
      /\ pending' \in [Tab -> [Intent -> Key \cup {0}]]
  <2>1. CASE answer.code = "AUTH"
    BY <1>2, <1>4, <2>1, NewPage DEF Hear, Deliver
  <2>2. CASE answer.code # "AUTH"
    BY <1>4, <2>2 DEF Hear, Deliver, Inv, TypeOK, TabInv, OthersAreApplied,
                      LaterKeyMeansApplied
  <2> QED BY <2>1, <2>2
<1>7. TypeOK'
  <2>1. awaited' \in [Tab -> Call \cup {NoCall}]
    BY <1>4 DEF Hear, Inv, TypeOK
  <2>2. call' \in [Call -> CallRow \cup {FreeCall}]
    BY DEF Deliver, Inv, TypeOK
  <2> QED BY <1>5, <1>6, <2>1, <2>2 DEF Deliver, Inv, TypeOK
<1>8. ServerInv'
  <2>1. \A y \in Call : call'[y] = call[y] \/ call'[y].stage = "FREE"
    BY DEF Deliver, FreeCall, Inv, TypeOK
  <2> QED BY <2>1 DEF Deliver, Inv, ServerInv, RecordTellsApplied, AtMostOnce,
                      OneNotifier, AnswersAgree
<1> QED BY <1>5, <1>6, <1>7, <1>8 DEF Inv, TabInv

\* a new key is issued where the tab keeps none
LEMMA SubmitStep ==
    ASSUME Inv, NEW t \in Tab, NEW i \in Intent, Submit(t, i)
    PROVE  Inv'
<1> USE DEF roomVars
<1> DEFINE row == [stage |-> "READY", tab |-> t, intent |-> i, key |-> KeyFor(t, i),
                   tries |-> 0, sees |-> {}, at |-> 0, answer |-> None]
           new == [tab |-> t, intent |-> i, page |-> page[t]]
<1>1. KeyFor(t, i) \in Key
  BY DEF Submit
<1>2. pending' \in [Tab -> [Intent -> Key \cup {0}]]
  BY <1>1 DEF Submit, Inv, TypeOK
<1>3. row \in CallRow /\ row.stage = "READY"
  BY <1>1 DEF CallRow, AtServer, None, Answer
<1>4. /\ call' \in [Call -> CallRow \cup {FreeCall}]
      /\ \A y \in Call : call'[y] = call[y] \/ call'[y].stage = "READY"
      /\ awaited' \in [Tab -> Call \cup {NoCall}]
  BY <1>3 DEF Submit, Inv, TypeOK
<1>5. issued \in Seq([tab : Tab, intent : Intent, page : 0..MaxPages])
  BY DEF Inv, TypeOK
<1>6. Len(issued) \in Nat /\ DOMAIN issued = 1..Len(issued)
  BY <1>5
<1>7. new \in [tab : Tab, intent : Intent, page : 0..MaxPages]
  BY DEF Inv, TypeOK
<1>8. CASE pending[t][i] # 0
  <2>1. UNCHANGED <<issued, pending>>
    BY <1>8, <1>2 DEF Submit, KeyFor, Inv, TypeOK
  <2>2. TypeOK'
    BY <1>4, <2>1 DEF Submit, Inv, TypeOK
  <2>3. TabInv'
    BY <2>1 DEF Submit, Inv, TabInv, ConfirmedIsApplied, OthersAreApplied,
                LaterKeyMeansApplied
  <2>4. ServerInv'
    BY <1>4 DEF Submit, Inv, ServerInv, RecordTellsApplied, AtMostOnce,
                OneNotifier, AnswersAgree
  <2> QED BY <2>2, <2>3, <2>4 DEF Inv
<1>9. CASE pending[t][i] = 0
  <2>1. /\ issued' = Append(issued, new)
        /\ KeyFor(t, i) = Len(issued) + 1
        /\ pending' = [pending EXCEPT ![t][i] = Len(issued) + 1]
    BY <1>9 DEF Submit, KeyFor
  <2>2. /\ issued' \in Seq([tab : Tab, intent : Intent, page : 0..MaxPages])
        /\ Len(issued') = Len(issued) + 1
        /\ DOMAIN issued' = 1..(Len(issued) + 1)
        /\ issued'[Len(issued) + 1] = new
        /\ \A a \in DOMAIN issued : issued'[a] = issued[a]
    BY <1>5, <1>6, <1>7, <2>1
  <2>3. Len(issued') <= MaxKeys
    BY <1>1, <2>1, <2>2, BoundAssumption DEF Key
  <2>4. TypeOK'
    BY <1>2, <1>4, <2>2, <2>3 DEF Submit, Inv, TypeOK
  <2>5. ServerInv' /\ ConfirmedIsApplied'
    BY <1>4 DEF Submit, Inv, ServerInv, RecordTellsApplied, AtMostOnce,
                OneNotifier, AnswersAgree, TabInv, ConfirmedIsApplied
  <2>6. \A a \in DOMAIN issued : issued[a] = new => applied[a] = 1
    <3> SUFFICES ASSUME NEW a \in DOMAIN issued, issued[a] = new
                 PROVE  applied[a] = 1
      OBVIOUS
    <3>1. a # 0
      BY <1>6
    <3> QED BY <3>1, <1>9 DEF Inv, TabInv, OthersAreApplied
  <2>7. OthersAreApplied'
    <3> SUFFICES ASSUME NEW a \in DOMAIN issued'
                 PROVE  /\ issued'[a].page <= page[issued'[a].tab]
                        /\ /\ issued'[a].page = page[issued'[a].tab]
                           /\ pending'[issued'[a].tab][issued'[a].intent] # a
                           => applied[a] = 1
      BY DEF OthersAreApplied, Submit
    <3>1. CASE a = Len(issued) + 1
      <4>1. page[t] \in Nat
        BY BoundAssumption DEF Inv, TypeOK
      <4>2. pending'[t][i] = a
        BY <2>1, <3>1 DEF Inv, TypeOK
      <4> QED BY <4>1, <4>2, <2>2, <3>1
    <3>2. CASE a \in DOMAIN issued
      <4>1. issued[a].tab \in Tab /\ issued[a].intent \in Intent
            /\ issued[a].page \in Nat
        BY <3>2, KeyOfIssued DEF Inv
      <4>2. issued[a] \in [tab : Tab, intent : Intent, page : 0..MaxPages]
        BY <1>5, <1>6, <3>2, ElementOfSeq
      <4>3. CASE issued[a].tab = t /\ issued[a].intent = i
        <5>1. issued[a].page = page[t] => issued[a] = new
          BY <4>2, <4>3
        <5> QED BY <5>1, <2>2, <2>6, <3>2, <4>3 DEF Inv, TabInv, OthersAreApplied
      <4>4. CASE ~ (issued[a].tab = t /\ issued[a].intent = i)
        <5>1. pending'[issued[a].tab][issued[a].intent]
                = pending[issued[a].tab][issued[a].intent]
          BY <2>1, <4>1, <4>4 DEF Inv, TypeOK
        <5> QED BY <5>1, <2>2, <3>2 DEF Inv, TabInv, OthersAreApplied
      <4> QED BY <4>3, <4>4
    <3> QED BY <3>1, <3>2, <2>2, <1>6
  <2>8. LaterKeyMeansApplied'
    <3> SUFFICES ASSUME NEW a \in DOMAIN issued', NEW b \in DOMAIN issued',
                        a < b, issued'[a] = issued'[b]
                 PROVE  applied[a] = 1
      BY DEF LaterKeyMeansApplied, Submit
    <3>1. a \in DOMAIN issued
      BY <2>2, <1>6
    <3>2. CASE b = Len(issued) + 1
      BY <3>1, <3>2, <2>2, <2>6
    <3>3. CASE b \in DOMAIN issued
      BY <3>1, <3>3, <2>2 DEF Inv, TabInv, LaterKeyMeansApplied
    <3> QED BY <3>2, <3>3, <2>2, <1>6
  <2> QED BY <2>4, <2>5, <2>7, <2>8 DEF Inv, TabInv
<1> QED BY <1>8, <1>9

-----------------------------------------------------------------------------
(* The API.                                                                 *)

\* a transaction begins
LEMMA BeginStep ==
    ASSUME Inv, NEW x \in Call, Begin(x)
    PROVE  Inv'
<1> DEFINE stage == IF call[x].stage = "RECOVER" THEN "READING" ELSE "BEGUN"
           r == [call[x] EXCEPT !.stage = stage, !.sees = Recorded, !.at = version]
<1>1. call[x] \in CallRow
  BY RowOfCall DEF Begin, Inv
<1>2. Recorded \in SUBSET Key /\ version \in Nat
  BY DEF Recorded, Inv, TypeOK
<1>3. r \in CallRow /\ r.stage \in {"READING", "BEGUN"}
  BY <1>1, <1>2 DEF CallRow, AtServer
<1>4. Settles(r)
  BY <1>3 DEF Settles
<1>5. call' = [call EXCEPT ![x] = r]
  BY <1>1 DEF Begin, Inv, TypeOK
<1>6. UNCHANGED <<tabVars, roomVars, notified>>
  BY DEF Begin
<1> HIDE DEF r
<1> QED BY <1>4, <1>5, <1>6, SettleStep

\* every step of the API that leaves the room alone
LEMMA QuietStep ==
    ASSUME Inv, NEW x \in Call,
           \/ Unauthorised(x)
           \/ Replay(x)
           \/ Abort(x)
           \/ Collide(x)
           \/ ReadAborted(x)
           \/ ReadNothing(x)
    PROVE  Inv'
<1>1. call[x] \in CallRow
  BY RowOfCall DEF Unauthorised, Replay, Abort, Collide, ReadAborted, ReadNothing, Inv
<1>2. UNCHANGED <<tabVars, roomVars, notified>>
  BY DEF Unauthorised, Replay, Abort, Collide, ReadAborted, ReadNothing
<1>3. TypeOK
  BY DEF Inv
<1>4. \E r : Settles(r) /\ call' = [call EXCEPT ![x] = r]
  <2>1. CASE Unauthorised(x)
    <3>1. PICK code \in {"AUTH", "REFUSED"} : Reply(x, Error(code))
      BY <2>1 DEF Unauthorised
    <3> QED BY <1>1, <1>3, <3>1, ErrorIsAnswer, ReplySettles
  <2>2. CASE Replay(x)
    <3>1. call[x].key \in Key
      BY <1>1 DEF CallRow
    <3>2. record[call[x].key] \in Answer
      BY <1>3, <3>1 DEF TypeOK
    <3>3. record[call[x].key].code = "OK" => applied[call[x].key] = 1
      BY <3>1 DEF Inv, ServerInv, RecordTellsApplied
    <3>4. Reply(x, record[call[x].key])
      BY <2>2 DEF Replay
    <3> QED BY <1>1, <1>3, <3>2, <3>3, <3>4, ReplySettles
  <2>3. CASE Abort(x)
    BY <1>1, <1>3, <2>3, ConflictSettles DEF Abort
  <2>4. CASE Collide(x)
    BY <1>1, <1>3, <2>4, ConflictSettles DEF Collide
  <2>5. CASE ReadAborted(x)
    BY <1>1, <1>3, <2>5, RereadSettles DEF ReadAborted
  <2>6. CASE ReadNothing(x)
    BY <1>1, <1>3, <2>6, RereadSettles DEF ReadNothing
  <2> QED BY <2>1, <2>2, <2>3, <2>4, <2>5, <2>6
<1> QED BY <1>2, <1>4, SettleStep

\* a refusal is recorded only under a key that has no record
LEMMA RefuseStep ==
    ASSUME Inv, NEW x \in Call, Refuse(x)
    PROVE  Inv'
<1> USE DEF tabVars
<1> DEFINE k == call[x].key
<1>1. call[x] \in CallRow /\ TypeOK
  BY RowOfCall DEF Refuse, Inv
<1>2. k \in Key
  BY <1>1 DEF CallRow
<1>3. Error("REFUSED") \in Answer /\ Error("REFUSED").code = "REFUSED"
  BY DEF Error, Answer
<1>4. PICK r : Settles(r) /\ call' = [call EXCEPT ![x] = r]
  BY <1>1, <1>3, ReplySettles DEF Refuse
<1>5. CASE ~ PolicyOf(x).refusals
  BY <1>4, <1>5, SettleStep DEF Refuse, roomVars
<1>6. CASE PolicyOf(x).refusals
  <2>1. record[k] = None /\ record' = [record EXCEPT ![k] = Error("REFUSED")]
    BY <1>6 DEF Refuse
  <2>2. TypeOK'
    <3>1. call' \in [Call -> CallRow \cup {FreeCall}]
      BY <1>1, <1>4 DEF Settles, TypeOK
    <3>2. record' \in [Key -> Answer]
      BY <1>1, <1>2, <1>3, <2>1 DEF TypeOK
    <3> QED BY <1>1, <3>1, <3>2 DEF Refuse, TypeOK
  <2>3. applied[k] = 0
    BY <1>2, <2>1 DEF None, Inv, ServerInv, RecordTellsApplied
  <2>4. RecordTellsApplied'
    BY <1>1, <1>2, <1>3, <2>1, <2>3 DEF Refuse, Inv, TypeOK, ServerInv, RecordTellsApplied
  <2>5. \A y \in Call : call'[y] = IF y = x THEN r ELSE call[y]
    BY <1>1, <1>4 DEF TypeOK
  <2>6. AnswersAgree'
    <3> SUFFICES ASSUME NEW y \in Call,
                        call'[y].stage = "ANSWERED", call'[y].answer.code = "OK"
                 PROVE  /\ call'[y].answer = record'[call'[y].key]
                        /\ applied[call'[y].key] = 1
      BY DEF AnswersAgree, Refuse
    <3>1. call'[y].answer = record[call'[y].key] /\ applied[call'[y].key] = 1
      BY <1>4, <2>5 DEF Settles, Inv, ServerInv, AnswersAgree
    <3>2. call'[y].key # k
      BY <3>1, <2>3
    <3> QED BY <3>1, <3>2, <2>1, <1>1 DEF TypeOK
  <2>7. AtMostOnce' /\ OneNotifier'
    BY <1>4, <2>5 DEF Refuse, Settles, Inv, ServerInv, AtMostOnce, OneNotifier
  <2>8. TabInv'
    BY DEF Refuse, Inv, TabInv, ConfirmedIsApplied, OthersAreApplied, LaterKeyMeansApplied
  <2> QED BY <2>2, <2>4, <2>6, <2>7, <2>8 DEF Inv, ServerInv
<1> QED BY <1>5, <1>6

\* a write is committed under a key that has no record
LEMMA CommitStep ==
    ASSUME Inv, NEW x \in Call, Commit(x)
    PROVE  Inv'
<1> USE DEF tabVars
<1> DEFINE k == call[x].key
           r == At(x, "COMMITTED")
<1>1. call[x] \in CallRow /\ TypeOK
  BY RowOfCall DEF Commit, Inv
<1>2. k \in Key
  BY <1>1 DEF CallRow
<1>3. PICK v \in {version + 1} \cup (IF PolicyOf(x).quiet THEN {version} ELSE {}) :
        /\ version' = v
        /\ record' = [record EXCEPT ![k] = [code |-> "OK", version |-> v]]
  BY DEF Commit
<1>4. v \in Nat
  BY <1>1 DEF TypeOK
<1>5. [code |-> "OK", version |-> v] \in Answer
  BY <1>4 DEF Answer
<1>6. r \in CallRow /\ r.stage = "COMMITTED" /\ r.key = k
  BY <1>1, AtKeepsCall DEF AtServer
<1> HIDE DEF r
<1>7. call' = [call EXCEPT ![x] = r] /\ UNCHANGED <<tabVars, notified>>
  BY DEF Commit, r
<1>8. applied' = [applied EXCEPT ![k] = @ + 1] /\ record[k] = None
  BY DEF Commit, KeyIsNew
<1>9. applied[k] = 0
  BY <1>2, <1>8 DEF None, Inv, ServerInv, RecordTellsApplied
<1>10. \A j \in Key : applied'[j] = IF j = k THEN 1 ELSE applied[j]
  BY <1>1, <1>2, <1>8, <1>9 DEF TypeOK
<1>11. \A y \in Call : call'[y] = IF y = x THEN r ELSE call[y]
  BY <1>1, <1>7 DEF TypeOK
<1>12. \A j \in Key :
         record'[j] = IF j = k THEN [code |-> "OK", version |-> v] ELSE record[j]
  BY <1>1, <1>2, <1>3 DEF TypeOK
<1>13. TypeOK'
  <2>1. call' \in [Call -> CallRow \cup {FreeCall}]
    BY <1>1, <1>6, <1>7 DEF TypeOK
  <2>2. record' \in [Key -> Answer] /\ version' \in Nat
    BY <1>1, <1>3, <1>4, <1>5 DEF TypeOK
  <2>3. applied' \in [Key -> Nat]
    BY <1>1, <1>2, <1>8, <1>9, CountedUp DEF TypeOK
  <2> QED BY <1>1, <1>7, <2>1, <2>2, <2>3 DEF TypeOK
<1>14. RecordTellsApplied'
  BY <1>10, <1>12 DEF Inv, ServerInv, RecordTellsApplied
<1>15. notified[k] = 0
  BY <1>1, <1>2, <1>9 DEF TypeOK, Inv, ServerInv, AtMostOnce
<1>16. AtMostOnce'
  BY <1>7, <1>10, <1>15 DEF Inv, ServerInv, AtMostOnce
<1>17. OneNotifier'
  <2>1. \A y \in Call : call[y].stage = "COMMITTED" => call[y].key # k /\ call[y].key \in Key
    BY <1>9, <1>1, RowOfCall DEF CallRow, Inv, ServerInv, OneNotifier
  <2> QED BY <1>2, <1>6, <1>7, <1>10, <1>11, <1>15, <2>1 DEF Inv, ServerInv, OneNotifier
<1>18. AnswersAgree'
  <2> SUFFICES ASSUME NEW y \in Call,
                      call'[y].stage = "ANSWERED", call'[y].answer.code = "OK"
               PROVE  /\ call'[y].answer = record'[call'[y].key]
                      /\ applied'[call'[y].key] = 1
    BY DEF AnswersAgree
  <2>1. y # x /\ call'[y] = call[y]
    BY <1>6, <1>11
  <2>2. call[y].key \in Key
    BY <1>1, <2>1, RowOfCall DEF CallRow
  <2>3. call[y].answer = record[call[y].key] /\ applied[call[y].key] = 1
    BY <2>1 DEF Inv, ServerInv, AnswersAgree
  <2>4. call[y].key # k
    BY <1>9, <2>3
  <2> QED BY <1>10, <1>12, <2>1, <2>2, <2>3, <2>4
<1>19. \A j \in Key : applied[j] = 1 => applied'[j] = 1
  BY <1>10
<1>20. TabInv'
  <2>1. ConfirmedIsApplied'
    BY <1>7, <1>19 DEF Inv, TypeOK, TabInv, ConfirmedIsApplied
  <2>2. \A a \in DOMAIN issued : a \in Key
    BY <1>1, KeyOfIssued
  <2>3. OthersAreApplied' /\ LaterKeyMeansApplied'
    BY <1>7, <1>19, <2>2 DEF Inv, TabInv, OthersAreApplied, LaterKeyMeansApplied
  <2> QED BY <2>1, <2>3 DEF TabInv
<1> QED BY <1>13, <1>14, <1>16, <1>17, <1>18, <1>20 DEF Inv, ServerInv

\* the call that has committed a write tells the room of it
LEMMA NotifyStep ==
    ASSUME Inv, NEW x \in Call, Notify(x)
    PROVE  Inv'
<1> USE DEF tabVars, roomVars
<1> DEFINE k == call[x].key
<1>1. call[x] \in CallRow /\ TypeOK /\ call[x].stage = "COMMITTED"
  BY RowOfCall DEF Notify, Inv
<1>2. k \in Key
  BY <1>1 DEF CallRow
<1>3. applied[k] = 1 /\ notified[k] = 0
  BY <1>1 DEF Inv, ServerInv, OneNotifier
<1>4. record[k] \in Answer
  BY <1>1, <1>2 DEF TypeOK
<1>5. PICK r : Settles(r) /\ call' = [call EXCEPT ![x] = r]
  BY <1>1, <1>3, <1>4, ReplySettles DEF Notify
<1>6. \A y \in Call : call'[y] = IF y = x THEN r ELSE call[y]
  BY <1>1, <1>5 DEF TypeOK
<1>7. notified' = [notified EXCEPT ![k] = @ + 1] /\ UNCHANGED <<tabVars, roomVars>>
  BY DEF Notify
<1>8. \A j \in Key : notified'[j] = IF j = k THEN 1 ELSE notified[j]
  BY <1>1, <1>2, <1>3, <1>7 DEF TypeOK
<1>9. TypeOK'
  <2>1. call' \in [Call -> CallRow \cup {FreeCall}]
    BY <1>1, <1>5 DEF Settles, TypeOK
  <2>2. notified' \in [Key -> Nat]
    BY <1>1, <1>2, <1>3, <1>7, CountedUp DEF TypeOK
  <2> QED BY <1>1, <1>7, <2>1, <2>2 DEF TypeOK
<1>10. RecordTellsApplied' /\ AtMostOnce'
  BY <1>3, <1>7, <1>8 DEF Inv, ServerInv, RecordTellsApplied, AtMostOnce
<1>11. OneNotifier'
  <2>1. \A y \in Call : y # x /\ call[y].stage = "COMMITTED" =>
                           call[y].key # k /\ call[y].key \in Key
    BY <1>1, RowOfCall DEF CallRow, Inv, ServerInv, OneNotifier
  <2> QED BY <1>5, <1>6, <1>7, <1>8, <2>1 DEF Settles, Inv, ServerInv, OneNotifier
<1>12. AnswersAgree'
  BY <1>5, <1>6, <1>7 DEF Settles, Inv, ServerInv, AnswersAgree
<1>13. TabInv'
  BY <1>7 DEF Inv, TabInv, ConfirmedIsApplied, OthersAreApplied, LaterKeyMeansApplied
<1> QED BY <1>9, <1>10, <1>11, <1>12, <1>13 DEF Inv, ServerInv

-----------------------------------------------------------------------------
\* Writes of others touch no key.
LEMMA OthersWriteStep ==
    ASSUME Inv, OthersWrite
    PROVE  Inv'
<1> USE DEF tabVars
<1>1. TypeOK'
  BY DEF OthersWrite, Inv, TypeOK
<1>2. ServerInv' /\ TabInv'
  BY DEF OthersWrite, Inv, ServerInv, RecordTellsApplied, AtMostOnce, OneNotifier,
         AnswersAgree, TabInv, ConfirmedIsApplied, OthersAreApplied, LaterKeyMeansApplied
<1> QED BY <1>1, <1>2 DEF Inv

\* A dying process frees its calls and no more.
LEMMA CrashStep ==
    ASSUME Inv, Crash
    PROVE  Inv'
<1>1. /\ call' \in [Call -> CallRow \cup {FreeCall}]
      /\ \A y \in Call : call'[y] \in {call[y], FreeCall}
  BY DEF Crash, Inv, TypeOK
<1>2. awaited' \in [Tab -> Call \cup {NoCall}]
  BY DEF Crash, Inv, TypeOK
<1> QED BY <1>1, <1>2, DropStep DEF Crash

\* Nothing is recorded, issued or on the wire at first.
LEMMA InitInv == Init => Inv
<1> SUFFICES ASSUME Init PROVE Inv
  OBVIOUS
<1>1. TypeOK
  <2>1. issued \in Seq([tab : Tab, intent : Intent, page : 0..MaxPages])
        /\ Len(issued) <= MaxKeys
    BY BoundAssumption DEF Init
  <2>2. record \in [Key -> Answer]
    BY DEF Init, None, Answer
  <2>3. page \in [Tab -> 0..MaxPages]
    BY BoundAssumption DEF Init
  <2> QED BY <2>1, <2>2, <2>3 DEF Init, TypeOK
<1>2. ServerInv
  BY DEF Init, ServerInv, RecordTellsApplied, AtMostOnce, OneNotifier, AnswersAgree,
         None, FreeCall
<1>3. TabInv
  <2>1. DOMAIN issued = {}
    BY DEF Init
  <2> QED BY <2>1 DEF Init, TabInv, ConfirmedIsApplied, OthersAreApplied,
                      LaterKeyMeansApplied
<1> QED BY <1>1, <1>2, <1>3 DEF Inv

\* Every step keeps the invariant.
LEMMA NextInv == Inv /\ [Next]_vars => Inv'
<1> SUFFICES ASSUME Inv, [Next]_vars PROVE Inv'
  OBVIOUS
<1>1. ASSUME NEW t \in Tab, TabStep(t) PROVE Inv'
  BY <1>1, SubmitStep, LoseConnectionStep, ConfirmStep, LogoutStep, ReloadStep
     DEF TabStep
<1>2. ASSUME NEW x \in Call, Deliver(x) PROVE Inv'
  BY <1>2, DeliverStep
<1>3. ASSUME NEW x \in Call, Serve(x) PROVE Inv'
  BY <1>3, BeginStep, QuietStep, RefuseStep, CommitStep, NotifyStep DEF Serve
<1>4. CASE OthersWrite
  BY <1>4, OthersWriteStep
<1>5. CASE Crash
  BY <1>5, CrashStep
<1>6. CASE UNCHANGED vars
  <2>1. TypeOK'
    BY <1>6 DEF vars, tabVars, roomVars, Inv, TypeOK
  <2>2. ServerInv' /\ TabInv'
    BY <1>6 DEF vars, tabVars, roomVars, Inv, ServerInv, RecordTellsApplied,
                AtMostOnce, OneNotifier, AnswersAgree, TabInv, ConfirmedIsApplied,
                OthersAreApplied, LaterKeyMeansApplied
  <2> QED BY <2>1, <2>2 DEF Inv
<1> QED BY <1>1, <1>2, <1>3, <1>4, <1>5, <1>6 DEF Next

\* The four invariants together, of which none but the type is inductive
\* alone.
LEMMA Invariance == Spec => []Inv
BY InitInv, NextInv, PTL DEF Spec

\* Type correctness of tabs, calls and records.
THEOREM TypesHold == Spec => []TypeOK
<1>1. Inv => TypeOK
  BY DEF Inv
<1> QED BY <1>1, Invariance, PTL

\* However often a key is sent, lost, retried or aborted, its work is
\* committed at most once and the room is told of it at most once.
THEOREM WorkIsDoneOnce == Spec => []AtMostOnce
<1>1. Inv => AtMostOnce
  BY DEF Inv, ServerInv
<1> QED BY <1>1, Invariance, PTL

\* All who hear of success hear of the committed write and the same
\* stateVersion.
THEOREM AnswersAreRecorded == Spec => []AnswersAgree
<1>1. Inv => AnswersAgree
  BY DEF Inv, ServerInv
<1> QED BY <1>1, Invariance, PTL

\* A tab that keeps its memory sends an intent under a new key only after
\* the old one was applied.
THEOREM PressingAgainIsSafe == Spec => []LaterKeyMeansApplied
<1>1. Inv => LaterKeyMeansApplied
  BY DEF Inv, TabInv
<1> QED BY <1>1, Invariance, PTL
=============================================================================
