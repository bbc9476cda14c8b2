----------------------------- MODULE ScreenProof ----------------------------
(***************************************************************************)
(* Proofs about what a tab shows. TransferToasts: the money of a transfer  *)
(* is told once, and whoever keeps page and connection is told what became *)
(* of it, for any number of transfers, calls and breaks. RouteSkeleton: a  *)
(* private page is shown with an account and its own data only, and a      *)
(* skeleton stands its time, for any number of moves.                      *)
(***************************************************************************)
EXTENDS TransferToasts, RouteSkeleton, FiniteSetTheorems, TLAPS

-----------------------------------------------------------------------------
(* Toasts: the inductive invariant *)

What == {"RESULT", "SUBMITTED", "FUNDS", "REQUESTED", "APPROVED", "REJECTED",
         "SUBMISSION_FAILED", "APPROVAL_FAILED"}
ToastRow == [of : Transfer, what : What, audience : {"PLAYER", "BANK"}]
Kind == What \ {"RESULT", "SUBMITTED"}
TransferRow == [form : Form, status : {"NONE", "PENDING", "EXECUTED", "REJECTED", "REVERSED"},
                answer : {"NONE", "PENDING", "EXECUTED"},
                intent : {"NONE", "OPEN", "CONFIRMED"}, tries : Nat, rulings : Nat,
                dropped : SUBSET Kind]
CallRow == [op : {"SUBMIT", "APPROVE", "REJECT"}, of : Transfer, stage : {"SENT", "WORKED"},
            result : {"NONE", "PENDING", "EXECUTED", "REJECTED", "FAILED"},
            waits : {"HERE", "GONE", "LOST"}]
NoticeRow == [op : {"SUBMIT", "APPROVE", "REJECT"}, of : Transfer, kind : Kind,
              stage : {"DUE", "BUILT"}, events : SUBSET [to : Screen, toast : ToastRow]]
ScreenRow == [page : {"PLAYER", "BANK", "AWAY"}, workbench : {"PLAYER", "BANK", "NONE"},
              up : BOOLEAN, buffer : SUBSET ToastRow, shown : SUBSET ToastRow,
              since : SUBSET Transfer]

\* The types of the rows, the calls, the messages and the tabs.
ToastTypes ==
  /\ bank \in Screen /\ approval \in BOOLEAN
  /\ transfers \in [Transfer -> TransferRow]
  /\ calls \subseteq CallRow
  /\ dispatches \subseteq NoticeRow
  /\ air \in [Screen -> SUBSET ToastRow]
  /\ screens \in [Screen -> ScreenRow]
  /\ breaks \in Nat

\* What the recorded answer of a transfer says of its row and of the intent.
AnswerRules(q) ==
  /\ q.answer = "NONE" <=> q.status = "NONE"
  /\ q.intent = "NONE" => q.answer = "NONE"
  /\ q.intent = "CONFIRMED" => q.answer # "NONE"
  /\ q.answer = "EXECUTED" => q.status \in {"EXECUTED", "REVERSED"}
  /\ q.answer = "PENDING" => q.form.kind = "TRANSFER"

\* A call of the payer is about an intent he has, answers what is recorded, and
\* one whose page is gone is about nothing the page knows of.
CallRules(c) ==
  /\ c.stage = "WORKED" => c.result # "NONE"
  /\ c.op = "SUBMIT" =>
       /\ transfers[c.of].intent # "NONE"
       /\ c.stage = "WORKED" /\ c.result # "FAILED" => c.result = transfers[c.of].answer
       /\ c.waits = "GONE" => c.of \notin screens[Payer].since

\* Who is told of the money of a transfer in which words.
Truthful(t, e) ==
  LET q == transfers[e.of] IN
  /\ e.what = "RESULT" => t = Payer /\ q.answer = "EXECUTED" /\ q.form.kind = "TRANSFER"
  /\ e.what = "APPROVED" => t = Payer /\ q.answer = "PENDING"
  /\ e.what = "FUNDS" /\ e.audience = "PLAYER" /\ t = Payer => q.form.kind = "TOLL"
  /\ e.what \in {"RESULT", "APPROVED"} => e.audience = "PLAYER"

NoticeRules(n) ==
  /\ n.kind = "APPROVED" => transfers[n.of].answer = "PENDING"
  /\ \A d \in n.events : Truthful(d.to, d.toast)

\* A tab knows and awaits only what is true; it buffers for its page, as long
\* as the view of that page is not there; and what it has kept its connection
\* for, it is connected for.
ScreenRules(t) ==
  /\ \A e \in screens[t].shown \cup screens[t].buffer \cup air[t] : Truthful(t, e)
  /\ \A e \in screens[t].buffer :
       e.audience = screens[t].page /\ screens[t].workbench # screens[t].page
  /\ screens[t].since # {} => screens[t].up
  /\ screens[t].page = "BANK" => t = bank

\* The news a tab is to be told.
News(t, x, what, audience) ==
  LET q == transfers[x] IN
  \/ /\ what = "FUNDS" /\ q.status = "EXECUTED" /\ q.form.moved
     /\ \/ audience = "BANK" /\ t = bank
        \/ audience = "PLAYER" /\ t = Receiver /\ q.form.to = "PLAYER"
        \/ audience = "PLAYER" /\ t = Payer /\ q.form.kind = "TOLL"
  \/ /\ what = "APPROVED" /\ q.status = "EXECUTED" /\ q.answer = "PENDING"
     /\ audience = "PLAYER" /\ t = Payer
  \/ what = "REJECTED" /\ q.status = "REJECTED" /\ audience = "PLAYER" /\ t = Payer

\* The toast is shown, in the buffer, under way, or its notice is to be sent,
\* unless its builder has failed.
Coming(t, x, what, audience) ==
  LET e == Toast(x, what, audience) IN
  \/ e \in screens[t].shown \cup screens[t].buffer \cup air[t]
  \/ what \in transfers[x].dropped
  \/ \E n \in dispatches :
       \/ n.stage = "BUILT" /\ [to |-> t, toast |-> e] \in n.events
       \/ n.stage = "DUE" /\ n.of = x /\ n.kind = what

\* What a tab has kept page and connection for, it is told, or the log is.
NewsComes(t) ==
  \A x \in screens[t].since, what \in What, audience \in {"PLAYER", "BANK"} :
    audience = screens[t].page /\ News(t, x, what, audience) => Coming(t, x, what, audience)

\* The payer has heard of a transfer that was executed at once, or presses again.
ResultHeard ==
  \A x \in screens[Payer].since :
    transfers[x].answer = "EXECUTED" /\ transfers[x].form.kind = "TRANSFER" =>
      \/ transfers[x].intent = "OPEN"
      \/ Toast(x, "RESULT", "PLAYER") \in screens[Payer].shown

ToastRules ==
  /\ \A x \in Transfer : AnswerRules(transfers[x])
  /\ \A c \in calls : CallRules(c)
  /\ \A n \in dispatches : NoticeRules(n)
  /\ \A t \in Screen : ScreenRules(t) /\ NewsComes(t)
  /\ ResultHeard

ToastInv == ToastTypes /\ ToastRules

-----------------------------------------------------------------------------
(* Types *)

\* What a form can be.
LEMMA Forms ==
  ASSUME NEW f \in Form
  PROVE  /\ f.kind \in {"TRANSFER", "TOLL"} /\ f.to \in {"PLAYER", "BANK"} /\ f.moved \in BOOLEAN
         /\ f.kind = "TOLL" => f.to = "PLAYER" /\ f.moved
<1>1. CASE f = [kind |-> "TRANSFER", to |-> "PLAYER", moved |-> TRUE]
  BY <1>1
<1>2. CASE f = [kind |-> "TRANSFER", to |-> "BANK", moved |-> TRUE]
  BY <1>2
<1>3. CASE f = [kind |-> "TRANSFER", to |-> "BANK", moved |-> FALSE]
  BY <1>3
<1>4. CASE f = [kind |-> "TOLL", to |-> "PLAYER", moved |-> TRUE]
  BY <1>4
<1> QED
  BY <1>1, <1>2, <1>3, <1>4 DEF Form

\* A tab's rows when nothing is awaited.
LEMMA InitToastInv == ToastsInit => ToastInv
<1> SUFFICES ASSUME ToastsInit PROVE ToastInv
  OBVIOUS
<1>1. ToastTypes
  <2>1. transfers \in [Transfer -> TransferRow]
    <3>1. \A f \in Form : [form |-> f, status |-> "NONE", answer |-> "NONE",
                           intent |-> "NONE", tries |-> 0, rulings |-> 0,
                           dropped |-> {}] \in TransferRow
      BY DEF TransferRow
    <3> QED
      BY <3>1 DEF ToastsInit
  <2>2. screens \in [Screen -> ScreenRow]
    <3>1. Opened \subseteq ScreenRow
      BY DEF Opened, ScreenRow
    <3> QED
      BY <3>1 DEF ToastsInit
  <2> QED
    BY <2>1, <2>2 DEF ToastsInit, ToastTypes
<1>2. \A x \in Transfer : transfers[x].status = "NONE" /\ transfers[x].answer = "NONE"
                           /\ transfers[x].intent = "NONE"
  BY DEF ToastsInit
<1>3. \A t \in Screen : /\ screens[t].shown = {} /\ screens[t].buffer = {}
                        /\ screens[t].since = {} /\ air[t] = {}
  BY DEF ToastsInit, Opened
<1>4. calls = {} /\ dispatches = {}
  BY DEF ToastsInit
<1>8. \A t \in Screen : screens[t].page = "BANK" => t = bank
  BY DEF ToastsInit, Views
<1>5. \A x \in Transfer : AnswerRules(transfers[x])
  BY <1>2 DEF AnswerRules
<1>6. \A t \in Screen : ScreenRules(t) /\ NewsComes(t)
  BY <1>3, <1>8 DEF ScreenRules, NewsComes
<1>7. ResultHeard
  BY <1>3 DEF ResultHeard, Screen
<1> QED
  BY <1>1, <1>4, <1>5, <1>6, <1>7 DEF ToastInv, ToastRules

-----------------------------------------------------------------------------
(* What stays true *)

\* Forms stay, and so does a recorded answer.
KeepsAnswers ==
  \A x \in Transfer :
    /\ transfers'[x].form = transfers[x].form
    /\ transfers[x].answer # "NONE" => transfers'[x].answer = transfers[x].answer

\* So what a tab has been told stays true.
LEMMA TruthStays ==
  ASSUME KeepsAnswers, NEW t, NEW e \in ToastRow, Truthful(t, e)
  PROVE  Truthful(t, e)'
  BY DEF KeepsAnswers, Truthful, ToastRow

\* And so does what it is told of what its tab had.
LEMMA ScreensStay ==
  ASSUME ToastTypes, KeepsAnswers, NEW t \in Screen, ScreenRules(t),
         screens'[t].shown \cup screens'[t].buffer \cup air'[t]
           \subseteq screens[t].shown \cup screens[t].buffer \cup air[t],
         \A e \in screens'[t].buffer :
           e.audience = screens'[t].page /\ screens'[t].workbench # screens'[t].page,
         screens'[t].since # {} => screens'[t].up,
         screens'[t].page = "BANK" => t = bank'
  PROVE  ScreenRules(t)'
<1>1. screens[t].shown \cup screens[t].buffer \cup air[t] \subseteq ToastRow
  BY DEF ToastTypes, ScreenRow
<1>2. \A e \in screens'[t].shown \cup screens'[t].buffer \cup air'[t] : Truthful(t, e)'
  <2> TAKE e \in screens'[t].shown \cup screens'[t].buffer \cup air'[t]
  <2>1. e \in ToastRow /\ Truthful(t, e)
    BY <1>1 DEF ScreenRules
  <2> QED
    BY <2>1, TruthStays
<1> QED
  BY <1>2 DEF ScreenRules

\* News that is coming is still coming when nothing is lost on the way.
LEMMA ComesStill ==
  ASSUME NEW t, NEW x, NEW what, NEW audience, Coming(t, x, what, audience),
         \A e \in screens[t].shown \cup screens[t].buffer \cup air[t] :
           e.audience = audience => e \in screens'[t].shown \cup screens'[t].buffer \cup air'[t],
         transfers[x].dropped \subseteq transfers'[x].dropped,
         dispatches \subseteq dispatches'
  PROVE  Coming(t, x, what, audience)'
<1>1. Toast(x, what, audience).audience = audience
  BY DEF Toast
<1> QED
  BY <1>1 DEF Coming

\* A step that makes no news, and loses none, leaves all of it coming.
LEMMA NewsStays ==
  ASSUME NEW t \in Screen, NewsComes(t), bank' = bank,
         screens'[t].since \subseteq screens[t].since,
         screens'[t].since # {} => screens'[t].page = screens[t].page,
         screens'[t].since # {} =>
           \A e \in screens[t].shown \cup screens[t].buffer \cup air[t] :
             e.audience = screens[t].page =>
               e \in screens'[t].shown \cup screens'[t].buffer \cup air'[t],
         screens'[t].since # {} => dispatches \subseteq dispatches',
         \A x \in screens'[t].since :
           /\ transfers'[x].form = transfers[x].form
           /\ transfers'[x].answer = transfers[x].answer
           /\ transfers[x].dropped \subseteq transfers'[x].dropped
           /\ \/ transfers'[x].status = transfers[x].status
              \/ transfers'[x].status = "REVERSED"
  PROVE  NewsComes(t)'
<1> SUFFICES ASSUME NEW x \in screens'[t].since, NEW what \in What,
                    NEW audience \in {"PLAYER", "BANK"}, audience = screens'[t].page,
                    News(t, x, what, audience)'
             PROVE  Coming(t, x, what, audience)'
  BY DEF NewsComes
<1>1. x \in screens[t].since /\ audience = screens[t].page
  OBVIOUS
<1>2. News(t, x, what, audience)
  BY <1>1 DEF News
<1>3. Coming(t, x, what, audience)
  BY <1>1, <1>2 DEF NewsComes
<1> QED
  BY <1>1, <1>3, ComesStill

\* A call that was about what the page knows still is.
LEMMA CallStays ==
  ASSUME ToastTypes, KeepsAnswers, NEW c \in CallRow, CallRules(c),
         transfers'[c.of].intent # "NONE",
         \A x \in screens'[Payer].since :
           x \in screens[Payer].since \/ transfers[x].intent = "NONE"
  PROVE  CallRules(c)'
<1>1. c.op = "SUBMIT" /\ c.stage = "WORKED" /\ c.result # "FAILED" =>
        c.result = transfers'[c.of].answer
  BY DEF CallRules, KeepsAnswers, CallRow
<1>2. c.op = "SUBMIT" /\ c.waits = "GONE" => c.of \notin screens'[Payer].since
  BY DEF CallRules
<1> QED
  BY <1>1, <1>2 DEF CallRules

\* A notice that was true still is.
LEMMA NoticeStays ==
  ASSUME KeepsAnswers, NEW n \in NoticeRow, NoticeRules(n)
  PROVE  NoticeRules(n)'
<1>1. n.kind = "APPROVED" => transfers'[n.of].answer = "PENDING"
  BY DEF NoticeRules, KeepsAnswers, NoticeRow
<1>2. \A d \in n.events : d.toast \in ToastRow /\ Truthful(d.to, d.toast)
  BY DEF NoticeRules, NoticeRow
<1>3. \A d \in n.events : Truthful(d.to, d.toast)'
  BY <1>2, TruthStays
<1> QED
  BY <1>1, <1>3 DEF NoticeRules

\* What the payer has heard stays heard, on the page that heard it.
LEMMA ResultStays ==
  ASSUME ResultHeard,
         \A x \in screens'[Payer].since :
           /\ x \in screens[Payer].since
           /\ transfers'[x].form = transfers[x].form
           /\ transfers'[x].answer = transfers[x].answer
           /\ transfers'[x].intent = transfers[x].intent,
         screens'[Payer].since # {} => screens[Payer].shown \subseteq screens'[Payer].shown
  PROVE  ResultHeard'
<1> SUFFICES ASSUME NEW x \in screens'[Payer].since,
                    transfers'[x].answer = "EXECUTED", transfers'[x].form.kind = "TRANSFER"
             PROVE  \/ transfers'[x].intent = "OPEN"
                    \/ Toast(x, "RESULT", "PLAYER") \in screens'[Payer].shown
  BY DEF ResultHeard, Toast
<1> QED
  BY DEF ResultHeard

-----------------------------------------------------------------------------
(* What the builders build *)

\* The events are events.
LEMMA DeliveriesAreToasts ==
  ASSUME ToastTypes, NEW n \in NoticeRow
  PROVE  Deliveries(n) \subseteq [to : Screen, toast : ToastRow]
<1>1. \A x \in Transfer, what \in What, audience \in {"PLAYER", "BANK"} :
        Toast(x, what, audience) \in ToastRow
  BY DEF Toast, ToastRow
<1>2. \A what \in What : /\ ToBank(n.of, what) \in [to : Screen, toast : ToastRow]
                         /\ \A t \in Screen : ToPlayer(t, n.of, what)
                                                \in [to : Screen, toast : ToastRow]
  BY <1>1 DEF ToBank, ToPlayer, ToastTypes, NoticeRow
<1>3. FundDeliveries(n.of, transfers[n.of].form) \subseteq [to : Screen, toast : ToastRow]
  BY <1>2 DEF FundDeliveries, Given, Screen, What
<1>4. n.kind \in Kind
  BY DEF NoticeRow
<1> QED
  BY <1>2, <1>3, <1>4 DEF Deliveries, Given, Kind, What, Screen

\* The events say what is so.
LEMMA DeliveriesAreTrue ==
  ASSUME ToastTypes, NEW n \in NoticeRow, NoticeRules(n), NEW d \in Deliveries(n)
  PROVE  Truthful(d.to, d.toast)
<1> DEFINE x == n.of
           f == transfers[x].form
<1>1. x \in Transfer /\ n.kind \in Kind /\ f \in Form
  BY DEF NoticeRow, ToastTypes, TransferRow
<1>2. f.kind \in {"TRANSFER", "TOLL"}
  BY <1>1, Forms
<1>3. \A what \in {"FUNDS", "REQUESTED", "SUBMISSION_FAILED"} :
        Truthful(ToBank(x, what).to, ToBank(x, what).toast)
  BY DEF Truthful, ToBank, Toast
<1>4. \A what \in {"REJECTED", "APPROVAL_FAILED"} :
        Truthful(ToPlayer(Payer, x, what).to, ToPlayer(Payer, x, what).toast)
  BY DEF Truthful, ToPlayer, Toast
<1>5. CASE n.kind = "FUNDS"
  <2>1. d \in FundDeliveries(x, f)
    BY <1>5 DEF Deliveries
  <2>2. \/ d = ToBank(x, "FUNDS")
        \/ f.kind = "TOLL" /\ d = ToPlayer(Payer, x, "FUNDS")
        \/ d = ToPlayer(Receiver, x, "FUNDS")
    BY <2>1, <1>2 DEF FundDeliveries, Given, IsLifecycleTransfer
  <2>3. CASE d = ToBank(x, "FUNDS")
    BY <2>3, <1>3
  <2>4. CASE f.kind = "TOLL" /\ d = ToPlayer(Payer, x, "FUNDS")
    BY <2>4 DEF Truthful, ToPlayer, Toast
  <2>5. CASE d = ToPlayer(Receiver, x, "FUNDS")
    BY <2>5, ToastAssumption DEF Truthful, ToPlayer, Toast
  <2> QED
    BY <2>2, <2>3, <2>4, <2>5
<1>6. CASE n.kind = "REQUESTED"
  BY <1>6, <1>3 DEF Deliveries, Given
<1>7. CASE n.kind = "APPROVED"
  <2>1. d = ToPlayer(Payer, x, "APPROVED") /\ transfers[x].answer = "PENDING"
    BY <1>7 DEF Deliveries, Given, NoticeRules
  <2> QED
    BY <2>1 DEF Truthful, ToPlayer, Toast
<1>8. CASE n.kind = "REJECTED"
  BY <1>8, <1>4 DEF Deliveries, Given
<1>9. CASE n.kind = "SUBMISSION_FAILED"
  BY <1>9, <1>3 DEF Deliveries
<1>10. CASE n.kind = "APPROVAL_FAILED"
  BY <1>10, <1>4 DEF Deliveries, Given
<1> QED
  BY <1>1, <1>5, <1>6, <1>7, <1>8, <1>9, <1>10 DEF Kind, What

\* The events bring the news they are due for.
LEMMA DeliveriesBringNews ==
  ASSUME ToastTypes, NEW n \in NoticeRow, NEW t \in Screen, NEW audience \in {"PLAYER", "BANK"},
         News(t, n.of, n.kind, audience)
  PROVE  [to |-> t, toast |-> Toast(n.of, n.kind, audience)] \in Deliveries(n)
<1> DEFINE x == n.of
           f == transfers[x].form
<1>1. f \in Form
  BY DEF NoticeRow, ToastTypes, TransferRow
<1>2. f.kind \in {"TRANSFER", "TOLL"}
  BY <1>1, Forms
<1>3. CASE n.kind = "FUNDS"
  <2>1. f.moved /\ (\/ audience = "BANK" /\ t = bank
                    \/ audience = "PLAYER" /\ t = Receiver /\ f.to = "PLAYER"
                    \/ audience = "PLAYER" /\ t = Payer /\ f.kind = "TOLL")
    BY <1>3 DEF News
  <2>2. [to |-> t, toast |-> Toast(x, "FUNDS", audience)] \in FundDeliveries(x, f)
    BY <2>1 DEF FundDeliveries, Given, IsLifecycleTransfer, ToBank, ToPlayer
  <2> QED
    BY <1>3, <2>2 DEF Deliveries
<1>4. CASE n.kind = "APPROVED"
  BY <1>4 DEF News, Deliveries, Given, ToPlayer
<1>5. CASE n.kind = "REJECTED"
  BY <1>5 DEF News, Deliveries, Given, ToPlayer
<1> QED
  BY <1>3, <1>4, <1>5 DEF News

-----------------------------------------------------------------------------
(* The sending of the events *)

LEMMA BuildKeeps ==
  ASSUME ToastInv, NEW n \in dispatches, Build(n)
  PROVE  ToastInv'
<1> DEFINE m == [n EXCEPT !.stage = "BUILT", !.events = Deliveries(n)]
<1>1. ToastTypes /\ ToastRules
  BY DEF ToastInv
<1>2. n \in NoticeRow /\ n.stage = "DUE" /\ NoticeRules(n)
  BY <1>1 DEF ToastTypes, ToastRules, Build
<1>3. /\ dispatches' = (dispatches \ {n}) \cup {m}
      /\ bank' = bank /\ approval' = approval /\ transfers' = transfers /\ calls' = calls
      /\ screens' = screens /\ breaks' = breaks /\ air' = air
  BY DEF Build, besidesSending
<1>4. m \in NoticeRow /\ m.events = Deliveries(n) /\ m.kind = n.kind /\ m.of = n.of
      /\ m.stage = "BUILT"
  BY <1>1, <1>2, DeliveriesAreToasts DEF NoticeRow
<1>5. ToastTypes'
  BY <1>1, <1>3, <1>4 DEF ToastTypes
<1>6. \A x \in Transfer : AnswerRules(transfers[x])'
  BY <1>1, <1>3 DEF ToastRules
<1>7. \A c \in calls' : CallRules(c)'
  BY <1>1, <1>3 DEF ToastRules, CallRules
<1>8. \A k \in dispatches' : NoticeRules(k)'
  <2>1. NoticeRules(m)
    BY <1>1, <1>2, <1>4, DeliveriesAreTrue DEF NoticeRules
  <2>2. \A k \in dispatches' : NoticeRules(k)
    BY <1>1, <1>3, <2>1 DEF ToastRules
  <2> QED
    BY <2>2, <1>3 DEF NoticeRules, Truthful
<1>9. \A t \in Screen : ScreenRules(t)'
  BY <1>1, <1>3 DEF ToastRules, ScreenRules, Truthful
<1>10. \A t \in Screen : NewsComes(t)'
  <2> SUFFICES ASSUME NEW t \in Screen, NEW x \in screens[t].since, NEW what \in What,
                      NEW audience \in {"PLAYER", "BANK"}, audience = screens[t].page,
                      News(t, x, what, audience)
               PROVE  Coming(t, x, what, audience)'
    BY <1>3 DEF NewsComes, News
  <2>1. Coming(t, x, what, audience)
    BY <1>1 DEF ToastRules, NewsComes
  <2>2. CASE n.of = x /\ n.kind = what
    <3>1. [to |-> t, toast |-> Toast(x, what, audience)] \in m.events
      BY <1>1, <1>2, <1>4, <2>2, DeliveriesBringNews
    <3> QED
      BY <1>3, <1>4, <3>1 DEF Coming
  <2>3. CASE ~ (n.of = x /\ n.kind = what)
    BY <1>2, <1>3, <2>1, <2>3 DEF Coming
  <2> QED
    BY <2>2, <2>3
<1>11. ResultHeard'
  BY <1>1, <1>3 DEF ToastRules, ResultHeard
<1> QED
  BY <1>5, <1>6, <1>7, <1>8, <1>9, <1>10, <1>11 DEF ToastInv, ToastRules

\* An event whose builder fails is in the log for good; what else was coming is
\* coming still.
LEMMA BuildFailsKeeps ==
  ASSUME ToastInv, NEW n \in dispatches, BuildFails(n)
  PROVE  ToastInv'
<1>1. ToastTypes /\ ToastRules
  BY DEF ToastInv
<1>2. n \in NoticeRow /\ n.of \in Transfer /\ n.kind \in Kind /\ n.stage = "DUE"
  BY <1>1 DEF ToastTypes, NoticeRow, BuildFails
<1>3. /\ dispatches' = dispatches \ {n}
      /\ bank' = bank /\ approval' = approval /\ calls' = calls
      /\ screens' = screens /\ air' = air /\ breaks' \in Nat
      /\ transfers' = [transfers EXCEPT ![n.of].dropped = @ \cup {n.kind}]
  BY <1>1 DEF BuildFails, ToastTypes
<1>4. /\ transfers' \in [Transfer -> TransferRow]
      /\ \A x \in Transfer :
           /\ transfers'[x].form = transfers[x].form /\ transfers'[x].answer = transfers[x].answer
           /\ transfers'[x].status = transfers[x].status
           /\ transfers'[x].intent = transfers[x].intent
           /\ transfers[x].dropped \subseteq transfers'[x].dropped
      /\ n.kind \in transfers'[n.of].dropped
  BY <1>1, <1>2, <1>3 DEF ToastTypes, TransferRow
<1>5. KeepsAnswers
  BY <1>4 DEF KeepsAnswers
<1>6. ToastTypes'
  BY <1>1, <1>3, <1>4 DEF ToastTypes
<1>7. \A x \in Transfer : AnswerRules(transfers'[x])
  <2> TAKE x \in Transfer
  <2>1. AnswerRules(transfers[x])
    BY <1>1 DEF ToastRules
  <2> QED
    BY <1>4, <2>1 DEF AnswerRules
<1>8. \A c \in calls' : CallRules(c)'
  BY <1>1, <1>3, <1>4 DEF ToastRules, ToastTypes, CallRules, CallRow
<1>9. \A k \in dispatches' : NoticeRules(k)'
  BY <1>1, <1>3, <1>5, NoticeStays DEF ToastTypes, ToastRules
<1>10. \A t \in Screen : ScreenRules(t)'
  <2> TAKE t \in Screen
  <2>1. ScreenRules(t)
    BY <1>1 DEF ToastRules
  <2> QED
    BY <1>1, <1>3, <1>5, <2>1, ScreensStay DEF ScreenRules
<1>11. \A t \in Screen : NewsComes(t)'
  <2> SUFFICES ASSUME NEW t \in Screen, NEW x \in screens[t].since, NEW what \in What,
                      NEW audience \in {"PLAYER", "BANK"}, audience = screens[t].page,
                      News(t, x, what, audience)'
               PROVE  Coming(t, x, what, audience)'
    BY <1>3 DEF NewsComes
  <2>1. x \in Transfer
    BY <1>1 DEF ToastTypes, ScreenRow
  <2>2. News(t, x, what, audience)
    BY <1>3, <1>4, <2>1 DEF News
  <2>3. Coming(t, x, what, audience)
    BY <1>1, <2>2 DEF ToastRules, NewsComes
  <2>4. CASE n.of = x /\ n.kind = what
    BY <1>4, <2>4 DEF Coming
  <2>5. CASE ~ (n.of = x /\ n.kind = what)
    <3>1. CASE what \in transfers[x].dropped
      BY <1>4, <2>1, <3>1 DEF Coming
    <3>2. CASE what \notin transfers[x].dropped
      BY <1>2, <1>3, <2>3, <2>5, <3>2 DEF Coming
    <3> QED
      BY <3>1, <3>2
  <2> QED
    BY <2>4, <2>5
<1>12. ResultHeard'
  <2>1. screens[Payer].since \subseteq Transfer
    BY <1>1 DEF ToastTypes, ScreenRow, Screen
  <2> QED
    BY <1>1, <1>3, <1>4, <2>1, ResultStays DEF ToastRules
<1> QED
  BY <1>6, <1>7, <1>8, <1>9, <1>10, <1>11, <1>12 DEF ToastInv, ToastRules

LEMMA EmitKeeps ==
  ASSUME ToastInv, NEW n \in dispatches, Emit(n)
  PROVE  ToastInv'
<1>1. ToastTypes /\ ToastRules
  BY DEF ToastInv
<1>2. n \in NoticeRow /\ n.stage = "BUILT" /\ NoticeRules(n)
  BY <1>1 DEF ToastTypes, ToastRules, Emit
<1>3. /\ dispatches' = dispatches \ {n}
      /\ bank' = bank /\ approval' = approval /\ transfers' = transfers /\ calls' = calls
      /\ screens' = screens /\ breaks' = breaks
  BY DEF Emit, besidesSending
<1>4. /\ air' \in [Screen -> SUBSET ToastRow]
      /\ \A t \in Screen : \A e \in air'[t] :
           e \in air[t] \/ \E d \in n.events : d.to = t /\ d.toast = e
      /\ \A t \in Screen : air[t] \subseteq air'[t]
      /\ \A t \in Screen, d \in n.events : screens[t].up /\ d.to = t => d.toast \in air'[t]
  <2>1. air' = [t \in Screen |-> IF screens[t].up
                                 THEN air[t] \cup {d.toast : d \in {e \in n.events : e.to = t}}
                                 ELSE air[t]]
    BY DEF Emit
  <2>2. air \in [Screen -> SUBSET ToastRow] /\ n.events \subseteq [to : Screen, toast : ToastRow]
    BY <1>1, <1>2 DEF ToastTypes, NoticeRow
  <2> QED
    BY <2>1, <2>2
<1>5. ToastTypes'
  BY <1>1, <1>3, <1>4 DEF ToastTypes
<1>6. \A x \in Transfer : AnswerRules(transfers[x])'
  BY <1>1, <1>3 DEF ToastRules
<1>7. \A c \in calls' : CallRules(c)'
  BY <1>1, <1>3 DEF ToastRules, CallRules
<1>8. \A k \in dispatches' : NoticeRules(k)'
  BY <1>1, <1>3 DEF ToastRules, NoticeRules, Truthful
<1>9. \A t \in Screen : ScreenRules(t)'
  <2> TAKE t \in Screen
  <2>1. \A e \in air'[t] : Truthful(t, e)
    BY <1>1, <1>2, <1>4 DEF ToastRules, ScreenRules, NoticeRules
  <2>2. \A e \in screens[t].shown \cup screens[t].buffer \cup air'[t] : Truthful(t, e)
    BY <1>1, <2>1 DEF ToastRules, ScreenRules
  <2> QED
    BY <1>1, <1>3, <2>2 DEF ToastRules, ScreenRules, Truthful
<1>10. \A t \in Screen : NewsComes(t)'
  <2> SUFFICES ASSUME NEW t \in Screen, NEW x \in screens[t].since, NEW what \in What,
                      NEW audience \in {"PLAYER", "BANK"}, audience = screens[t].page,
                      News(t, x, what, audience)
               PROVE  Coming(t, x, what, audience)'
    BY <1>3 DEF NewsComes, News
  <2> DEFINE e == Toast(x, what, audience)
  <2>1. Coming(t, x, what, audience) /\ screens[t].up
    BY <1>1 DEF ToastRules, NewsComes, ScreenRules
  <2>2. CASE [to |-> t, toast |-> e] \in n.events
    <3>1. e \in air'[t]
      BY <1>4, <2>1, <2>2
    <3> QED
      BY <3>1 DEF Coming
  <2>3. CASE [to |-> t, toast |-> e] \notin n.events
    BY <1>2, <1>3, <1>4, <2>1, <2>3 DEF Coming
  <2> QED
    BY <2>2, <2>3
<1>11. ResultHeard'
  BY <1>1, <1>3 DEF ToastRules, ResultHeard
<1> QED
  BY <1>5, <1>6, <1>7, <1>8, <1>9, <1>10, <1>11 DEF ToastInv, ToastRules

-----------------------------------------------------------------------------
(* The calls *)

\* What the serving of a call may do: it works the call, sends the notices of
\* what it has changed, and changes the row of its transfer only.
Serves(c, result, kinds) ==
  LET x == c.of
      q == transfers'[c.of]
  IN
  /\ Worked(c, result, kinds)
  /\ result \in {"PENDING", "EXECUTED", "REJECTED", "FAILED"}
  /\ kinds \subseteq Kind
  /\ transfers' \in [Transfer -> TransferRow]
  /\ \A y \in Transfer \ {x} : transfers'[y] = transfers[y]
  /\ q.form = transfers[x].form /\ q.intent = transfers[x].intent
  /\ q.dropped = transfers[x].dropped
  /\ transfers[x].answer # "NONE" => q.answer = transfers[x].answer
  /\ AnswerRules(q)
  /\ c.op = "SUBMIT" /\ result # "FAILED" => result = q.answer
  /\ "APPROVED" \in kinds => q.answer = "PENDING"
  /\ q.answer = "EXECUTED" => transfers[x].answer = "EXECUTED" \/ q.intent = "OPEN"
  /\ q.status # transfers[x].status =>
       /\ q.status = "EXECUTED" =>
            "FUNDS" \in kinds /\ (q.answer = "PENDING" => "APPROVED" \in kinds)
       /\ q.status = "REJECTED" => "REJECTED" \in kinds
  /\ q.status = transfers[x].status => q.answer = transfers[x].answer

LEMMA ServeServes ==
  ASSUME ToastInv, NEW c \in calls, ServeCall(c)
  PROVE  \E result, kinds : Serves(c, result, kinds)
<1> DEFINE x == c.of
           q == transfers[x]
<1>1. ToastTypes /\ c \in CallRow /\ CallRules(c) /\ x \in Transfer
  BY DEF ToastInv, ToastTypes, ToastRules, CallRow
<1>2. q \in TransferRow /\ AnswerRules(q)
  BY <1>1 DEF ToastInv, ToastTypes, ToastRules
<1>3. q.form.kind \in {"TRANSFER", "TOLL"}
  BY <1>2, Forms DEF TransferRow
<1>4. ASSUME NEW result \in {"PENDING", "EXECUTED", "REJECTED", "FAILED"},
             NEW kinds \in SUBSET Kind, Worked(c, result, kinds), transfers' = transfers,
             c.op = "SUBMIT" /\ result # "FAILED" => result = q.answer,
             "APPROVED" \notin kinds
      PROVE  Serves(c, result, kinds)
  BY <1>1, <1>2, <1>4 DEF Serves, ToastTypes
<1>5. CASE SubmitTransfer(c, x) /\ approval /\ q.form.kind # "TOLL"
  <2>1. /\ transfers' = [transfers EXCEPT ![x].status = "PENDING", ![x].answer = "PENDING"]
        /\ Worked(c, "PENDING", {"REQUESTED"}) /\ q.answer = "NONE" /\ c.op = "SUBMIT"
    BY <1>5 DEF SubmitTransfer
  <2>2. /\ transfers'[x] = [q EXCEPT !.status = "PENDING", !.answer = "PENDING"]
        /\ \A y \in Transfer \ {x} : transfers'[y] = transfers[y]
        /\ transfers' \in [Transfer -> TransferRow]
    BY <1>1, <1>2, <2>1 DEF ToastTypes, TransferRow
  <2>3. AnswerRules(transfers'[x])
    <3>1. /\ transfers'[x].status = "PENDING" /\ transfers'[x].answer = "PENDING"
          /\ transfers'[x].form = q.form /\ transfers'[x].intent = q.intent
      BY <1>2, <2>2 DEF TransferRow
    <3>2. q.form.kind = "TRANSFER" /\ q.intent # "NONE"
      BY <1>1, <1>3, <1>5, <2>1 DEF CallRules
    <3> QED
      BY <3>1, <3>2 DEF AnswerRules
  <2>4. Serves(c, "PENDING", {"REQUESTED"})
    BY <1>1, <1>2, <2>1, <2>2, <2>3 DEF Serves, Kind, What, TransferRow, AnswerRules
  <2> QED
    BY <2>4
<1>6. CASE SubmitTransfer(c, x) /\ ~ (approval /\ q.form.kind # "TOLL")
  <2>1. /\ transfers' = [transfers EXCEPT ![x].status = "EXECUTED", ![x].answer = "EXECUTED"]
        /\ Worked(c, "EXECUTED", {"FUNDS"}) /\ q.answer = "NONE" /\ c.op = "SUBMIT"
    BY <1>6 DEF SubmitTransfer
  <2>2. /\ transfers'[x] = [q EXCEPT !.status = "EXECUTED", !.answer = "EXECUTED"]
        /\ \A y \in Transfer \ {x} : transfers'[y] = transfers[y]
        /\ transfers' \in [Transfer -> TransferRow]
    BY <1>1, <1>2, <2>1 DEF ToastTypes, TransferRow
  <2>3. AnswerRules(transfers'[x]) /\ q.intent = "OPEN"
    BY <1>1, <1>2, <2>1, <2>2 DEF AnswerRules, TransferRow, CallRules
  <2>4. Serves(c, "EXECUTED", {"FUNDS"})
    BY <1>1, <1>2, <2>1, <2>2, <2>3 DEF Serves, Kind, What, TransferRow, AnswerRules
  <2> QED
    BY <2>4
<1>7. CASE ReplayTransfer(c, x)
  <2>1. Worked(c, q.answer, {}) /\ transfers' = transfers /\ q.answer \in {"PENDING", "EXECUTED"}
    BY <1>2, <1>7 DEF ReplayTransfer, TransferRow
  <2> QED
    BY <1>4, <2>1
<1>8. CASE RefuseSubmit(c, x)
  <2>1. PICK kinds \in {{"SUBMISSION_FAILED"}, {}} :
          Worked(c, "FAILED", kinds) /\ transfers' = transfers
    BY <1>8 DEF RefuseSubmit
  <2>2. kinds \in SUBSET Kind /\ "APPROVED" \notin kinds
    BY DEF Kind, What
  <2> QED
    BY <1>4, <2>1, <2>2
<1>9. CASE Approve(c, x)
  <2>1. /\ transfers' = [transfers EXCEPT ![x].status = "EXECUTED"]
        /\ Worked(c, "EXECUTED", {"FUNDS", "APPROVED"}) /\ q.status = "PENDING" /\ c.op = "APPROVE"
    BY <1>9 DEF Approve
  <2>2. /\ transfers'[x] = [q EXCEPT !.status = "EXECUTED"]
        /\ \A y \in Transfer \ {x} : transfers'[y] = transfers[y]
        /\ transfers' \in [Transfer -> TransferRow]
    BY <1>1, <1>2, <2>1 DEF ToastTypes, TransferRow
  <2>3. AnswerRules(transfers'[x]) /\ q.answer = "PENDING"
    BY <1>1, <1>2, <2>1, <2>2 DEF AnswerRules, TransferRow
  <2>4. Serves(c, "EXECUTED", {"FUNDS", "APPROVED"})
    BY <1>1, <1>2, <2>1, <2>2, <2>3 DEF Serves, Kind, What, TransferRow
  <2> QED
    BY <2>4
<1>10. CASE ApproveAgain(c, x)
  <2>1. Worked(c, "EXECUTED", {}) /\ transfers' = transfers /\ c.op = "APPROVE"
    BY <1>10 DEF ApproveAgain
  <2> QED
    BY <1>4, <2>1
<1>11. CASE RefuseApproval(c, x)
  <2>1. Worked(c, "FAILED", {"APPROVAL_FAILED"}) /\ transfers' = transfers /\ c.op = "APPROVE"
    BY <1>11 DEF RefuseApproval
  <2>2. {"APPROVAL_FAILED"} \in SUBSET Kind
    BY DEF Kind, What
  <2> QED
    BY <1>4, <2>1, <2>2
<1>12. CASE RejectTransfer(c, x)
  <2>1. /\ transfers' = [transfers EXCEPT ![x].status = "REJECTED"]
        /\ Worked(c, "REJECTED", {"REJECTED"}) /\ q.status = "PENDING" /\ c.op = "REJECT"
    BY <1>12 DEF RejectTransfer
  <2>2. /\ transfers'[x] = [q EXCEPT !.status = "REJECTED"]
        /\ \A y \in Transfer \ {x} : transfers'[y] = transfers[y]
        /\ transfers' \in [Transfer -> TransferRow]
    BY <1>1, <1>2, <2>1 DEF ToastTypes, TransferRow
  <2>3. AnswerRules(transfers'[x]) /\ q.answer = "PENDING"
    BY <1>1, <1>2, <2>1, <2>2 DEF AnswerRules, TransferRow
  <2>4. Serves(c, "REJECTED", {"REJECTED"})
    BY <1>1, <1>2, <2>1, <2>2, <2>3 DEF Serves, Kind, What, TransferRow
  <2> QED
    BY <2>4
<1>13. CASE RefuseRejection(c, x)
  <2>1. Worked(c, "FAILED", {}) /\ transfers' = transfers
    BY <1>13 DEF RefuseRejection
  <2> QED
    BY <1>4, <2>1
<1> QED
  BY <1>5, <1>6, <1>7, <1>8, <1>9, <1>10, <1>11, <1>12, <1>13 DEF ServeCall, SubmitTransfer

LEMMA ServeCallKeeps ==
  ASSUME ToastInv, NEW c \in calls, ServeCall(c)
  PROVE  ToastInv'
<1>1. ToastTypes /\ ToastRules /\ c \in CallRow /\ CallRules(c)
  BY DEF ToastInv, ToastTypes, ToastRules
<1>2. PICK result, kinds : Serves(c, result, kinds)
  BY ServeServes
<1> DEFINE x == c.of
           w == [c EXCEPT !.stage = "WORKED", !.result = result]
           due == {Notice(c, k) : k \in kinds}
<1>3. /\ calls' = (calls \ {c}) \cup {w} /\ dispatches' = dispatches \cup due
      /\ bank' = bank /\ approval' = approval /\ air' = air /\ screens' = screens
      /\ breaks' = breaks
  BY <1>2 DEF Serves, Worked, ServeCall, callRest
<1>4. /\ x \in Transfer /\ w \in CallRow /\ w.op = c.op /\ w.of = x /\ w.waits = c.waits
      /\ w.result = result /\ result # "NONE"
  BY <1>1, <1>2 DEF Serves, CallRow
<1>5. /\ \A k \in kinds : /\ Notice(c, k) \in NoticeRow /\ Notice(c, k).of = x
                          /\ Notice(c, k).kind = k /\ Notice(c, k).stage = "DUE"
                          /\ Notice(c, k).events = {}
      /\ due \subseteq NoticeRow
  BY <1>1, <1>2 DEF Serves, Notice, NoticeRow, CallRow
<1>6. KeepsAnswers
  BY <1>2, <1>4 DEF KeepsAnswers, Serves
<1>7. ToastTypes'
  BY <1>1, <1>2, <1>3, <1>4, <1>5 DEF ToastTypes, Serves
<1>8. \A y \in Transfer : AnswerRules(transfers'[y])
  BY <1>1, <1>2 DEF ToastRules, Serves
<1>9. \A k \in calls' : CallRules(k)'
  <2>1. \A y \in Transfer : transfers'[y].intent = transfers[y].intent
    BY <1>2 DEF Serves
  <2>2. ASSUME NEW k \in calls PROVE CallRules(k)'
    <3>1. k \in CallRow /\ CallRules(k)
      BY <1>1 DEF ToastTypes, ToastRules
    <3>2. CASE k.op = "SUBMIT"
      BY <1>3, <1>6, <2>1, <3>1, <3>2, CallStays, <1>1 DEF CallRules, CallRow
    <3>3. CASE k.op # "SUBMIT"
      BY <3>1, <3>3 DEF CallRules
    <3> QED
      BY <3>2, <3>3
  <2>3. CallRules(w)'
    <3>1. w.op = "SUBMIT" => /\ transfers'[x].intent # "NONE"
                             /\ w.waits = "GONE" => x \notin screens'[Payer].since
                             /\ w.result # "FAILED" => w.result = transfers'[x].answer
      BY <1>1, <1>2, <1>3, <1>4, <2>1 DEF CallRules, Serves
    <3> QED
      BY <1>4, <3>1 DEF CallRules
  <2> QED
    BY <1>3, <2>2, <2>3
<1>10. \A n \in dispatches' : NoticeRules(n)'
  <2>1. ASSUME NEW n \in dispatches PROVE NoticeRules(n)'
    BY <1>1, <1>6, NoticeStays DEF ToastTypes, ToastRules
  <2>2. ASSUME NEW k \in kinds PROVE NoticeRules(Notice(c, k))'
    BY <1>2, <1>5 DEF NoticeRules, Serves
  <2> QED
    BY <1>3, <2>1, <2>2
<1>11. \A t \in Screen : ScreenRules(t)'
  <2> TAKE t \in Screen
  <2>1. ScreenRules(t)
    BY <1>1 DEF ToastRules
  <2> QED
    BY <1>1, <1>3, <1>6, <2>1, ScreensStay DEF ScreenRules
<1>12. \A t \in Screen : NewsComes(t)'
  <2> SUFFICES ASSUME NEW t \in Screen, NEW y \in screens[t].since, NEW what \in What,
                      NEW audience \in {"PLAYER", "BANK"}, audience = screens[t].page,
                      News(t, y, what, audience)'
               PROVE  Coming(t, y, what, audience)'
    BY <1>3 DEF NewsComes
  <2>1. y \in Transfer
    BY <1>1 DEF ToastTypes, ScreenRow
  <2>2. CASE transfers'[y] = transfers[y]
    <3>1. News(t, y, what, audience)
      BY <1>3, <2>2 DEF News
    <3>2. Coming(t, y, what, audience)
      BY <1>1, <3>1 DEF ToastRules, NewsComes
    <3> QED
      BY <1>3, <2>2, <3>2, ComesStill
  <2>3. CASE transfers'[y] # transfers[y] /\ transfers'[x].status = transfers[x].status
    <3>1. y = x /\ transfers'[x].form = transfers[x].form
          /\ transfers'[x].answer = transfers[x].answer
          /\ transfers'[x].dropped = transfers[x].dropped
      BY <1>2, <2>1, <2>3 DEF Serves
    <3>2. News(t, y, what, audience)
      BY <1>3, <2>3, <3>1 DEF News
    <3>3. Coming(t, y, what, audience)
      BY <1>1, <3>2 DEF ToastRules, NewsComes
    <3> QED
      BY <1>3, <3>1, <3>3, ComesStill
  <2>4. CASE transfers'[y] # transfers[y] /\ transfers'[x].status # transfers[x].status
    <3>1. y = x
      BY <1>2, <2>1, <2>4 DEF Serves
    <3>2. what \in kinds
      BY <1>2, <2>4, <3>1 DEF News, Serves
    <3> QED
      BY <1>3, <1>5, <3>1, <3>2 DEF Coming
  <2> QED
    BY <2>2, <2>3, <2>4
<1>13. ResultHeard'
  <2> SUFFICES ASSUME NEW y \in screens[Payer].since, transfers'[y].answer = "EXECUTED",
                      transfers'[y].form.kind = "TRANSFER", transfers'[y].intent # "OPEN"
               PROVE  Toast(y, "RESULT", "PLAYER") \in screens[Payer].shown
    BY <1>3 DEF ResultHeard, Toast
  <2>1. y \in Transfer
    BY <1>1 DEF ToastTypes, ScreenRow, Screen
  <2>2. /\ transfers[y].answer = "EXECUTED" /\ transfers[y].form = transfers'[y].form
        /\ transfers[y].intent = transfers'[y].intent
    BY <1>2, <2>1 DEF Serves
  <2> QED
    BY <1>1, <2>2 DEF ToastRules, ResultHeard
<1> QED
  BY <1>7, <1>8, <1>9, <1>10, <1>11, <1>12, <1>13 DEF ToastInv, ToastRules

LEMMA ReverseKeeps ==
  ASSUME ToastInv, NEW x \in Transfer, ReverseTransfer(x)
  PROVE  ToastInv'
<1>1. ToastTypes /\ ToastRules
  BY DEF ToastInv
<1>2. /\ transfers[x].status = "EXECUTED" /\ calls' = calls /\ dispatches' = dispatches
      /\ bank' = bank /\ approval' = approval /\ air' = air /\ screens' = screens
      /\ breaks' = breaks
      /\ transfers' = [transfers EXCEPT ![x].status = "REVERSED"]
  BY DEF ReverseTransfer, callRest
<1>3. /\ transfers' \in [Transfer -> TransferRow]
      /\ \A y \in Transfer :
           /\ transfers'[y].form = transfers[y].form /\ transfers'[y].answer = transfers[y].answer
           /\ transfers'[y].intent = transfers[y].intent
           /\ transfers'[y].dropped = transfers[y].dropped
           /\ \/ transfers'[y].status = transfers[y].status
              \/ transfers[y].status = "EXECUTED" /\ transfers'[y].status = "REVERSED"
  BY <1>1, <1>2 DEF ToastTypes, TransferRow
<1>4. KeepsAnswers
  BY <1>3 DEF KeepsAnswers
<1>5. ToastTypes'
  BY <1>1, <1>2, <1>3 DEF ToastTypes
<1>6. \A y \in Transfer : AnswerRules(transfers'[y])
  <2> TAKE y \in Transfer
  <2>1. AnswerRules(transfers[y])
    BY <1>1 DEF ToastRules
  <2> QED
    BY <1>3, <2>1 DEF AnswerRules
<1>7. \A c \in calls' : CallRules(c)'
  BY <1>1, <1>2, <1>3 DEF ToastRules, ToastTypes, CallRules, CallRow
<1>8. \A n \in dispatches' : NoticeRules(n)'
  BY <1>1, <1>2, <1>4, NoticeStays DEF ToastTypes, ToastRules
<1>9. \A t \in Screen : ScreenRules(t)'
  <2> TAKE t \in Screen
  <2>1. ScreenRules(t)
    BY <1>1 DEF ToastRules
  <2> QED
    BY <1>1, <1>2, <1>4, <2>1, ScreensStay DEF ScreenRules
<1>10. \A t \in Screen : NewsComes(t)'
  <2> TAKE t \in Screen
  <2>1. NewsComes(t) /\ screens[t].since \subseteq Transfer
    BY <1>1 DEF ToastRules, ToastTypes, ScreenRow
  <2>2. \A y \in screens'[t].since :
           /\ transfers'[y].form = transfers[y].form
           /\ transfers'[y].answer = transfers[y].answer
           /\ transfers[y].dropped \subseteq transfers'[y].dropped
           /\ \/ transfers'[y].status = transfers[y].status
              \/ transfers'[y].status = "REVERSED"
    BY <1>2, <1>3, <2>1
  <2> QED
    BY <1>2, <2>1, <2>2, NewsStays
<1>11. ResultHeard'
  <2>1. screens[Payer].since \subseteq Transfer
    BY <1>1 DEF ToastTypes, ScreenRow, Screen
  <2> QED
    BY <1>1, <1>2, <1>3, <2>1 DEF ToastRules, ResultHeard, Toast
<1> QED
  BY <1>5, <1>6, <1>7, <1>8, <1>9, <1>10, <1>11 DEF ToastInv, ToastRules

LEMMA SwitchKeeps ==
  ASSUME ToastInv, SwitchMode
  PROVE  ToastInv'
<1>1. ToastTypes /\ ToastRules
  BY DEF ToastInv
<1>2. /\ bank' = bank /\ transfers' = transfers /\ calls' = calls /\ dispatches' = dispatches
      /\ air' = air /\ screens' = screens /\ approval' \in BOOLEAN /\ breaks' \in Nat
  BY <1>1 DEF SwitchMode, ToastTypes
<1>3. ToastTypes'
  BY <1>1, <1>2 DEF ToastTypes
<1>4. ToastRules'
  BY <1>1, <1>2 DEF ToastRules, CallRules, NoticeRules, ScreenRules, NewsComes, ResultHeard,
                    Truthful, News, Coming
<1> QED
  BY <1>3, <1>4 DEF ToastInv

\* A call that is opened, and what a tab that presses is present for.
LEMMA PressKeeps ==
  ASSUME ToastInv, NEW x \in Transfer, PressTransfer(x)
  PROVE  ToastInv'
<1> DEFINE o == OpenCall("SUBMIT", x)
<1>1. ToastTypes /\ ToastRules
  BY DEF ToastInv
<1>2. /\ transfers[x].intent \in {"NONE", "OPEN"}
      /\ calls' = calls \cup {o} /\ dispatches' = dispatches
      /\ bank' = bank /\ approval' = approval /\ air' = air /\ breaks' = breaks
      /\ transfers' = [transfers EXCEPT ![x].intent = "OPEN", ![x].tries = @ + 1]
      /\ screens' = IF transfers[x].intent = "NONE" THEN Present(x) ELSE screens
  BY DEF PressTransfer
<1>3. /\ transfers' \in [Transfer -> TransferRow]
      /\ \A y \in Transfer :
           /\ transfers'[y].form = transfers[y].form /\ transfers'[y].answer = transfers[y].answer
           /\ transfers'[y].status = transfers[y].status
           /\ transfers'[y].dropped = transfers[y].dropped
           /\ transfers'[y].intent = IF y = x THEN "OPEN" ELSE transfers[y].intent
  BY <1>1, <1>2 DEF ToastTypes, TransferRow
<1>4. /\ o \in CallRow /\ o.op = "SUBMIT" /\ o.of = x /\ o.stage = "SENT" /\ o.waits = "HERE"
  BY DEF OpenCall, CallRow
<1>5. /\ screens' \in [Screen -> ScreenRow]
      /\ \A t \in Screen :
           /\ screens'[t].page = screens[t].page /\ screens'[t].workbench = screens[t].workbench
           /\ screens'[t].up = screens[t].up /\ screens'[t].buffer = screens[t].buffer
           /\ screens'[t].shown = screens[t].shown
           /\ \A y \in screens'[t].since :
                \/ y \in screens[t].since
                \/ y = x /\ transfers[x].intent = "NONE" /\ screens[t].up
  <2>1. screens \in [Screen -> ScreenRow]
    BY <1>1 DEF ToastTypes
  <2>2. CASE transfers[x].intent = "NONE"
    <3>1. screens' = [t \in Screen |-> IF screens[t].up
                        THEN [screens[t] EXCEPT !.since = @ \cup {x}] ELSE screens[t]]
      BY <1>2, <2>2 DEF Present
    <3> QED
      BY <2>1, <2>2, <3>1 DEF ScreenRow
  <2>3. CASE transfers[x].intent # "NONE"
    BY <1>2, <2>1, <2>3
  <2> QED
    BY <2>2, <2>3
<1>6. KeepsAnswers
  BY <1>3 DEF KeepsAnswers
<1>7. ToastTypes'
  BY <1>1, <1>2, <1>3, <1>4, <1>5 DEF ToastTypes
<1>8. \A y \in Transfer : AnswerRules(transfers'[y])
  <2> TAKE y \in Transfer
  <2>1. AnswerRules(transfers[y])
    BY <1>1 DEF ToastRules
  <2> QED
    BY <1>3, <2>1 DEF AnswerRules
<1>9. \A c \in calls' : CallRules(c)'
  <2>1. ASSUME NEW c \in calls PROVE CallRules(c)'
    <3>1. c \in CallRow /\ CallRules(c) /\ c.of \in Transfer
      BY <1>1 DEF ToastTypes, ToastRules, CallRow
    <3>2. \A y \in screens'[Payer].since :
            y \in screens[Payer].since \/ transfers[y].intent = "NONE"
      BY <1>5 DEF Screen
    <3>3. CASE c.op = "SUBMIT"
      <4>1. transfers'[c.of].intent # "NONE"
        BY <1>3, <3>1, <3>3 DEF CallRules
      <4> QED
        BY <1>1, <1>6, <3>1, <3>2, <4>1, CallStays
    <3>4. CASE c.op # "SUBMIT"
      BY <3>1, <3>4 DEF CallRules
    <3> QED
      BY <3>3, <3>4
  <2>2. CallRules(o)'
    BY <1>3, <1>4 DEF CallRules
  <2> QED
    BY <1>2, <2>1, <2>2
<1>10. \A n \in dispatches' : NoticeRules(n)'
  BY <1>1, <1>2, <1>6, NoticeStays DEF ToastTypes, ToastRules
<1>11. \A t \in Screen : ScreenRules(t)'
  <2> TAKE t \in Screen
  <2>1. ScreenRules(t)
    BY <1>1 DEF ToastRules
  <2>2. screens'[t].since # {} => screens'[t].up
    BY <1>5, <2>1 DEF ScreenRules
  <2> QED
    BY <1>1, <1>2, <1>5, <1>6, <2>1, <2>2, ScreensStay DEF ScreenRules
<1>12. \A t \in Screen : NewsComes(t)'
  <2> SUFFICES ASSUME NEW t \in Screen, NEW y \in screens'[t].since, NEW what \in What,
                      NEW audience \in {"PLAYER", "BANK"}, audience = screens'[t].page,
                      News(t, y, what, audience)'
               PROVE  Coming(t, y, what, audience)'
    BY DEF NewsComes
  <2>1. y \in Transfer
    BY <1>5 DEF ScreenRow
  <2>2. News(t, y, what, audience) /\ audience = screens[t].page
    BY <1>2, <1>3, <1>5, <2>1 DEF News
  <2>3. transfers[y].status # "NONE"
    BY <2>2 DEF News
  <2>4. y \in screens[t].since
    BY <1>1, <1>5, <2>1, <2>3 DEF ToastRules, AnswerRules
  <2>5. Coming(t, y, what, audience)
    BY <1>1, <2>2, <2>4 DEF ToastRules, NewsComes
  <2> QED
    BY <1>2, <1>3, <1>5, <2>1, <2>5, ComesStill
<1>13. ResultHeard'
  <2> SUFFICES ASSUME NEW y \in screens'[Payer].since, transfers'[y].answer = "EXECUTED",
                      transfers'[y].form.kind = "TRANSFER", transfers'[y].intent # "OPEN"
               PROVE  Toast(y, "RESULT", "PLAYER") \in screens'[Payer].shown
    BY DEF ResultHeard, Toast
  <2>1. y \in Transfer
    BY <1>5 DEF ScreenRow, Screen
  <2>2. y # x /\ y \in screens[Payer].since /\ transfers[y].answer = "EXECUTED"
        /\ transfers[y].form.kind = "TRANSFER" /\ transfers[y].intent # "OPEN"
    BY <1>3, <1>5, <2>1 DEF Screen
  <2> QED
    BY <1>1, <1>5, <2>2 DEF ToastRules, ResultHeard, Screen
<1> QED
  BY <1>7, <1>8, <1>9, <1>10, <1>11, <1>12, <1>13 DEF ToastInv, ToastRules

-----------------------------------------------------------------------------
(* The tabs: steps that change no row but its counters *)

KeepsRows ==
  \A x \in Transfer :
    /\ transfers'[x].form = transfers[x].form /\ transfers'[x].answer = transfers[x].answer
    /\ transfers'[x].intent = transfers[x].intent /\ transfers'[x].status = transfers[x].status
    /\ transfers'[x].dropped = transfers[x].dropped

\* A tab that knows nothing new, and has lost nothing its page is to be told
\* unless it has given up what it was present for.
KeepsTab(t) ==
  /\ screens'[t].shown \cup screens'[t].buffer \cup air'[t]
       \subseteq screens[t].shown \cup screens[t].buffer \cup air[t]
  /\ \A e \in screens'[t].buffer :
       e.audience = screens'[t].page /\ screens'[t].workbench # screens'[t].page
  /\ screens'[t].page = "BANK" => t = bank
  /\ screens'[t].since \subseteq screens[t].since
  /\ screens'[t].since # {} =>
       /\ screens'[t].up
       /\ screens'[t].page = screens[t].page
       /\ screens[t].shown \subseteq screens'[t].shown
       /\ \A e \in screens[t].shown \cup screens[t].buffer \cup air[t] :
            e.audience = screens[t].page =>
              e \in screens'[t].shown \cup screens'[t].buffer \cup air'[t]
       /\ dispatches' = dispatches

LEMMA TabStepKeeps ==
  ASSUME ToastInv, ToastTypes', KeepsRows, bank' = bank, dispatches' \subseteq dispatches,
         \A c \in calls' : CallRules(c)', \A t \in Screen : KeepsTab(t)
  PROVE  ToastInv'
<1>1. ToastTypes /\ ToastRules
  BY DEF ToastInv
<1>2. KeepsAnswers
  BY DEF KeepsAnswers, KeepsRows
<1>3. \A x \in Transfer : AnswerRules(transfers'[x])
  <2> TAKE x \in Transfer
  <2>1. AnswerRules(transfers[x])
    BY <1>1 DEF ToastRules
  <2> QED
    BY <2>1 DEF AnswerRules, KeepsRows
<1>4. \A n \in dispatches' : NoticeRules(n)'
  BY <1>1, <1>2, NoticeStays DEF ToastTypes, ToastRules
<1>5. \A t \in Screen : ScreenRules(t)'
  <2> TAKE t \in Screen
  <2>1. ScreenRules(t)
    BY <1>1 DEF ToastRules
  <2> QED
    BY <1>1, <1>2, <2>1, ScreensStay DEF KeepsTab
<1>6. \A t \in Screen : NewsComes(t)'
  <2> TAKE t \in Screen
  <2>1. NewsComes(t) /\ screens[t].since \subseteq Transfer /\ KeepsTab(t)
    BY <1>1 DEF ToastRules, ToastTypes, ScreenRow
  <2>2. \A x \in screens'[t].since :
           /\ transfers'[x].form = transfers[x].form
           /\ transfers'[x].answer = transfers[x].answer
           /\ transfers[x].dropped \subseteq transfers'[x].dropped
           /\ \/ transfers'[x].status = transfers[x].status
              \/ transfers'[x].status = "REVERSED"
    BY <2>1 DEF KeepsTab, KeepsRows
  <2> QED
    BY <2>1, <2>2, NewsStays DEF KeepsTab
<1>7. ResultHeard'
  <2>1. /\ KeepsTab(Payer) /\ screens[Payer].since \subseteq Transfer
    BY <1>1 DEF ToastTypes, ScreenRow, Screen
  <2> QED
    BY <1>1, <2>1, ResultStays DEF ToastRules, KeepsTab, KeepsRows
<1> QED
  BY <1>3, <1>4, <1>5, <1>6, <1>7 DEF ToastInv, ToastRules

\* A tab nothing happens to, and one that only connects.
LEMMA TabIdles ==
  ASSUME ToastInv, NEW t \in Screen, screens'[t].shown = screens[t].shown,
         screens'[t].buffer = screens[t].buffer, screens'[t].page = screens[t].page,
         screens'[t].workbench = screens[t].workbench, screens'[t].since = screens[t].since,
         screens[t].up => screens'[t].up, air'[t] = air[t], dispatches' = dispatches
  PROVE  KeepsTab(t)
<1>1. ScreenRules(t)
  BY DEF ToastInv, ToastRules
<1> QED
  BY <1>1 DEF ScreenRules, KeepsTab

\* A call that was about what its tab knows, when no tab learns of a transfer.
LEMMA CallsIdle ==
  ASSUME ToastInv, KeepsRows, NEW c \in calls,
         screens'[Payer].since \subseteq screens[Payer].since
  PROVE  CallRules(c)'
<1>1. ToastTypes /\ c \in CallRow /\ CallRules(c) /\ c.of \in Transfer
  BY DEF ToastInv, ToastTypes, ToastRules, CallRow
<1>2. KeepsAnswers
  BY DEF KeepsAnswers, KeepsRows
<1>3. CASE c.op = "SUBMIT"
  <2>1. transfers'[c.of].intent # "NONE"
    BY <1>1, <1>3 DEF CallRules, KeepsRows
  <2> QED
    BY <1>1, <1>2, <2>1, CallStays
<1>4. CASE c.op # "SUBMIT"
  BY <1>1, <1>4 DEF CallRules
<1> QED
  BY <1>3, <1>4

LEMMA RuleKeeps ==
  ASSUME ToastInv, NEW x \in Transfer, NEW op \in {"APPROVE", "REJECT"}, Rule(x, op)
  PROVE  ToastInv'
<1> DEFINE o == OpenCall(op, x)
<1>1. ToastTypes
  BY DEF ToastInv
<1>2. /\ calls' = calls \cup {o} /\ dispatches' = dispatches
      /\ bank' = bank /\ approval' = approval /\ air' = air /\ screens' = screens
      /\ breaks' = breaks
      /\ transfers' = [transfers EXCEPT ![x].rulings = @ + 1]
  BY DEF Rule, callRest
<1>3. transfers' \in [Transfer -> TransferRow] /\ KeepsRows
  BY <1>1, <1>2 DEF ToastTypes, TransferRow, KeepsRows
<1>4. o \in CallRow /\ o.op # "SUBMIT" /\ o.stage = "SENT"
  BY DEF OpenCall, CallRow
<1>5. ToastTypes'
  BY <1>1, <1>2, <1>3, <1>4 DEF ToastTypes
<1>6. \A c \in calls : CallRules(c)'
  BY <1>2, <1>3, CallsIdle
<1>7. CallRules(o)'
  BY <1>4 DEF CallRules
<1>8. \A c \in calls' : CallRules(c)'
  BY <1>2, <1>6, <1>7
<1>9. \A t \in Screen : KeepsTab(t)
  BY <1>2, TabIdles
<1> QED
  BY <1>2, <1>3, <1>5, <1>8, <1>9, TabStepKeeps

LEMMA LoseAnswerKeeps ==
  ASSUME ToastInv, NEW c \in calls, LoseAnswer(c)
  PROVE  ToastInv'
<1> DEFINE l == [c EXCEPT !.waits = "LOST"]
<1>1. ToastTypes /\ c \in CallRow
  BY DEF ToastInv, ToastTypes
<1>2. /\ calls' = (calls \ {c}) \cup {l} /\ dispatches' = dispatches
      /\ bank' = bank /\ approval' = approval /\ air' = air /\ screens' = screens
      /\ transfers' = transfers /\ breaks' \in Nat
  BY <1>1 DEF LoseAnswer, ToastTypes
<1>3. KeepsRows
  BY <1>2 DEF KeepsRows
<1>4. l \in CallRow /\ l.op = c.op /\ l.of = c.of /\ l.stage = c.stage /\ l.result = c.result
      /\ l.waits = "LOST"
  BY <1>1 DEF CallRow
<1>5. ToastTypes'
  BY <1>1, <1>2, <1>4 DEF ToastTypes
<1>6. \A k \in calls : CallRules(k)'
  BY <1>2, <1>3, CallsIdle
<1>7. CallRules(l)'
  BY <1>4, <1>6 DEF CallRules
<1>8. \A k \in calls' : CallRules(k)'
  BY <1>2, <1>6, <1>7
<1>9. \A t \in Screen : KeepsTab(t)
  BY <1>2, TabIdles
<1> QED
  BY <1>2, <1>3, <1>5, <1>8, <1>9, TabStepKeeps

\* An answer that is heard: what is told, and the key that is confirmed.
LEMMA HearAnswerKeeps ==
  ASSUME ToastInv, NEW c \in calls, HearAnswer(c)
  PROVE  ToastInv'
<1> DEFINE x == c.of
           confirms == c.op = "SUBMIT" /\ c.result # "FAILED" /\ c.waits # "LOST"
           shows == c.waits = "HERE" /\ Feedback(c) # {}
           toast == CHOOSE e \in Feedback(c) : TRUE
<1>1. ToastTypes /\ ToastRules /\ c \in CallRow /\ CallRules(c) /\ x \in Transfer
  BY DEF ToastInv, ToastTypes, ToastRules, CallRow
<1>2. /\ c.stage = "WORKED" /\ calls' = calls \ {c} /\ dispatches' = dispatches
      /\ bank' = bank /\ approval' = approval /\ air' = air /\ breaks' = breaks
      /\ transfers' = IF confirms
                      THEN [transfers EXCEPT ![x].intent = "CONFIRMED"] ELSE transfers
      /\ screens' = IF shows
                    THEN [screens EXCEPT ![Caller(c)] = Enqueued(@, toast)] ELSE screens
  BY DEF HearAnswer
<1>3. /\ transfers' \in [Transfer -> TransferRow]
      /\ \A y \in Transfer :
           /\ transfers'[y].form = transfers[y].form /\ transfers'[y].answer = transfers[y].answer
           /\ transfers'[y].status = transfers[y].status
           /\ transfers'[y].dropped = transfers[y].dropped
           /\ transfers'[y].intent = IF y = x /\ confirms THEN "CONFIRMED"
                                     ELSE transfers[y].intent
  BY <1>1, <1>2 DEF ToastTypes, TransferRow
<1>4. confirms => transfers[x].answer # "NONE" /\ c.result = transfers[x].answer
  BY <1>1, <1>2 DEF CallRules
<1>5. Feedback(c) # {} => toast \in ToastRow /\ Truthful(Caller(c), toast)
  <2> SUFFICES ASSUME Feedback(c) # {}
               PROVE  toast \in ToastRow /\ Truthful(Caller(c), toast)
    OBVIOUS
  <2>1. toast \in Feedback(c)
    OBVIOUS
  <2> HIDE DEF toast
  <2>2. transfers[x].form.kind \in {"TRANSFER", "TOLL"}
    BY <1>1, Forms DEF ToastTypes, TransferRow
  <2>3. \/ /\ toast = Toast(x, "RESULT", "PLAYER")
           /\ c.op = "SUBMIT" /\ c.result = "EXECUTED" /\ transfers[x].form.kind # "TOLL"
        \/ toast = Toast(x, "SUBMITTED", "PLAYER")
        \/ toast = Toast(x, "APPROVAL_FAILED", "BANK")
    BY <2>1 DEF Feedback
  <2>4. toast \in ToastRow
    BY <1>1, <2>3 DEF Toast, ToastRow, What
  <2>5. CASE /\ toast = Toast(x, "RESULT", "PLAYER")
             /\ c.op = "SUBMIT" /\ c.result = "EXECUTED" /\ transfers[x].form.kind # "TOLL"
    <3>1. Caller(c) = Payer /\ transfers[x].answer = "EXECUTED"
          /\ transfers[x].form.kind = "TRANSFER"
      BY <1>1, <1>2, <2>2, <2>5 DEF Caller, CallRules
    <3> QED
      BY <2>4, <2>5, <3>1 DEF Toast, Truthful
  <2>6. CASE toast = Toast(x, "SUBMITTED", "PLAYER")
    BY <2>4, <2>6 DEF Toast, Truthful
  <2>7. CASE toast = Toast(x, "APPROVAL_FAILED", "BANK")
    BY <2>4, <2>7 DEF Toast, Truthful
  <2> QED
    BY <2>3, <2>4, <2>5, <2>6, <2>7
<1> HIDE DEF toast
<1>6. Caller(c) \in Screen
  BY <1>1 DEF Caller, ToastTypes, Screen
<1>7. /\ screens' \in [Screen -> ScreenRow]
      /\ \A t \in Screen :
           /\ screens'[t].page = screens[t].page /\ screens'[t].workbench = screens[t].workbench
           /\ screens'[t].up = screens[t].up /\ screens'[t].buffer = screens[t].buffer
           /\ screens'[t].since = screens[t].since
           /\ screens'[t].shown = IF shows /\ t = Caller(c) THEN screens[t].shown \cup {toast}
                                  ELSE screens[t].shown
  <2>1. screens \in [Screen -> ScreenRow]
    BY <1>1 DEF ToastTypes
  <2>2. CASE shows
    <3>1. screens' = [screens EXCEPT ![Caller(c)].shown = @ \cup {toast}]
      BY <1>2, <1>6, <2>1, <2>2 DEF Enqueued
    <3> QED
      BY <1>5, <1>6, <2>1, <2>2, <3>1 DEF ScreenRow
  <2>3. CASE ~ shows
    BY <1>2, <2>1, <2>3
  <2> QED
    BY <2>2, <2>3
<1>8. KeepsAnswers
  BY <1>3 DEF KeepsAnswers
<1>9. ToastTypes'
  BY <1>1, <1>2, <1>3, <1>7 DEF ToastTypes
<1>10. \A y \in Transfer : AnswerRules(transfers'[y])
  <2> TAKE y \in Transfer
  <2>1. AnswerRules(transfers[y])
    BY <1>1 DEF ToastRules
  <2> QED
    BY <1>3, <1>4, <2>1 DEF AnswerRules
<1>11. \A k \in calls' : CallRules(k)'
  <2> SUFFICES ASSUME NEW k \in calls PROVE CallRules(k)'
    BY <1>2
  <2>1. k \in CallRow /\ CallRules(k) /\ k.of \in Transfer
    BY <1>1 DEF ToastTypes, ToastRules, CallRow
  <2>2. CASE k.op = "SUBMIT"
    <3>1. transfers'[k.of].intent # "NONE"
      BY <1>3, <2>1, <2>2 DEF CallRules
    <3>2. screens'[Payer].since = screens[Payer].since
      BY <1>7 DEF Screen
    <3> QED
      BY <1>1, <1>8, <2>1, <3>1, <3>2, CallStays
  <2>3. CASE k.op # "SUBMIT"
    BY <2>1, <2>3 DEF CallRules
  <2> QED
    BY <2>2, <2>3
<1>12. \A n \in dispatches' : NoticeRules(n)'
  BY <1>1, <1>2, <1>8, NoticeStays DEF ToastTypes, ToastRules
<1>13. \A t \in Screen : ScreenRules(t)'
  <2> TAKE t \in Screen
  <2>1. ScreenRules(t)
    BY <1>1 DEF ToastRules
  <2>2. ASSUME NEW e \in screens'[t].shown \cup screens'[t].buffer \cup air'[t]
        PROVE  e \in ToastRow /\ Truthful(t, e)
    <3>1. screens[t].shown \cup screens[t].buffer \cup air[t] \subseteq ToastRow
      BY <1>1 DEF ToastTypes, ScreenRow
    <3>2. CASE e \in screens[t].shown \cup screens[t].buffer \cup air[t]
      BY <2>1, <3>1, <3>2 DEF ScreenRules
    <3>3. CASE e \notin screens[t].shown \cup screens[t].buffer \cup air[t]
      <4>1. e \in screens'[t].shown /\ e \notin screens[t].shown
        BY <1>2, <1>7, <3>3
      <4>2. shows /\ t = Caller(c)
        BY <1>7, <4>1
      <4>3. e = toast
        BY <1>7, <4>1, <4>2
      <4> QED
        BY <1>5, <4>2, <4>3
    <3> QED
      BY <3>2, <3>3
  <2>3. \A e \in screens'[t].shown \cup screens'[t].buffer \cup air'[t] : Truthful(t, e)'
    BY <1>8, <2>2, TruthStays
  <2> QED
    BY <1>2, <1>7, <2>1, <2>3 DEF ScreenRules
<1>14. \A t \in Screen : NewsComes(t)'
  <2> TAKE t \in Screen
  <2>1. NewsComes(t) /\ screens[t].since \subseteq Transfer
    BY <1>1 DEF ToastRules, ToastTypes, ScreenRow
  <2>2. \A y \in screens'[t].since :
           /\ transfers'[y].form = transfers[y].form
           /\ transfers'[y].answer = transfers[y].answer
           /\ transfers'[y].dropped = transfers[y].dropped
           /\ transfers'[y].status = transfers[y].status
    BY <1>3, <1>7, <2>1
  <2> QED
    BY <1>2, <1>7, <2>1, <2>2, NewsStays
<1>15. ResultHeard'
  <2> SUFFICES ASSUME NEW y \in screens'[Payer].since, transfers'[y].answer = "EXECUTED",
                      transfers'[y].form.kind = "TRANSFER", transfers'[y].intent # "OPEN"
               PROVE  Toast(y, "RESULT", "PLAYER") \in screens'[Payer].shown
    BY DEF ResultHeard, Toast
  <2>1. Payer \in Screen /\ y \in Transfer /\ y \in screens[Payer].since
    BY <1>7 DEF ScreenRow, Screen
  <2>2. transfers[y].answer = "EXECUTED" /\ transfers[y].form.kind = "TRANSFER"
    BY <1>3, <2>1
  <2>3. CASE transfers[y].intent # "OPEN"
    <3>1. Toast(y, "RESULT", "PLAYER") \in screens[Payer].shown
      BY <1>1, <2>1, <2>2, <2>3 DEF ToastRules, ResultHeard
    <3> QED
      BY <1>7, <2>1, <3>1
  <2>4. CASE transfers[y].intent = "OPEN"
    <3>1. y = x /\ confirms
      BY <1>3, <2>1, <2>4
    <3>2. c.waits = "HERE" /\ c.result = "EXECUTED" /\ Caller(c) = Payer
      BY <1>1, <1>4, <2>1, <2>2, <3>1 DEF CallRules, CallRow, Caller
    <3>3. Feedback(c) = {Toast(y, "RESULT", "PLAYER")}
      BY <2>2, <3>1, <3>2 DEF Feedback
    <3>4. toast = Toast(y, "RESULT", "PLAYER")
      BY <3>3 DEF toast
    <3> QED
      BY <1>7, <2>1, <3>2, <3>3, <3>4
  <2> QED
    BY <2>3, <2>4
<1> QED
  BY <1>9, <1>10, <1>11, <1>12, <1>13, <1>14, <1>15 DEF ToastInv, ToastRules

\* A tab step that leaves the rows, the calls and the notices alone.
LEMMA ScreenStepKeeps ==
  ASSUME ToastInv, bank' = bank, approval' = approval, transfers' = transfers, calls' = calls,
         dispatches' = dispatches, breaks' \in Nat, screens' \in [Screen -> ScreenRow],
         air' \in [Screen -> SUBSET ToastRow], \A t \in Screen : KeepsTab(t)
  PROVE  ToastInv'
<1>1. ToastTypes'
  BY DEF ToastInv, ToastTypes
<1>2. KeepsRows
  BY DEF KeepsRows
<1>3. KeepsTab(Payer)
  BY DEF Screen
<1>4. \A c \in calls' : CallRules(c)'
  BY <1>2, <1>3, CallsIdle DEF KeepsTab
<1> QED
  BY <1>1, <1>2, <1>4, TabStepKeeps

LEMMA HearToastKeeps ==
  ASSUME ToastInv, NEW t \in Screen, NEW e \in air[t], HearToast(t, e)
  PROVE  ToastInv'
<1>1. ToastTypes /\ ScreenRules(t)
  BY DEF ToastInv, ToastRules
<1>2. /\ bank' = bank /\ approval' = approval /\ transfers' = transfers /\ calls' = calls
      /\ dispatches' = dispatches /\ breaks' = breaks
      /\ air' = [air EXCEPT ![t] = @ \ {e}]
      /\ screens' = [screens EXCEPT ![t] = Routed(@, e)]
  BY DEF HearToast
<1>3. screens[t] \in ScreenRow /\ e \in ToastRow
  BY <1>1 DEF ToastTypes
<1>4. LET r == Routed(screens[t], e) IN
        /\ r \in ScreenRow
        /\ r.page = screens[t].page /\ r.workbench = screens[t].workbench
        /\ r.up = screens[t].up /\ r.since = screens[t].since
        /\ r.shown \subseteq screens[t].shown \cup {e}
        /\ screens[t].shown \subseteq r.shown
        /\ r.buffer = screens[t].buffer
             \/ /\ e.audience = r.page /\ r.workbench # r.page
                /\ r.buffer = screens[t].buffer \cup {e}
        /\ e.audience = r.page => e \in r.shown \cup r.buffer
  BY <1>3 DEF Routed, Enqueued, ScreenRow
<1>5. screens'[t] = Routed(screens[t], e) /\ air'[t] = air[t] \ {e}
  BY <1>1, <1>2 DEF ToastTypes
<1>6. screens' \in [Screen -> ScreenRow] /\ air' \in [Screen -> SUBSET ToastRow]
  BY <1>1, <1>2, <1>4 DEF ToastTypes
<1>7. KeepsTab(t)
  BY <1>1, <1>2, <1>4, <1>5 DEF KeepsTab, ScreenRules
<1>8. \A u \in Screen \ {t} : KeepsTab(u)
  <2> TAKE u \in Screen \ {t}
  <2>1. screens'[u] = screens[u] /\ air'[u] = air[u]
    BY <1>1, <1>2 DEF ToastTypes
  <2> QED
    BY <1>2, <2>1, TabIdles
<1> QED
  BY <1>1, <1>2, <1>6, <1>7, <1>8, ScreenStepKeeps DEF ToastTypes

LEMMA OpenViewKeeps ==
  ASSUME ToastInv, NEW t \in Screen, OpenView(t)
  PROVE  ToastInv'
<1>1. ToastTypes /\ ScreenRules(t)
  BY DEF ToastInv, ToastRules
<1>2. /\ bank' = bank /\ approval' = approval /\ transfers' = transfers /\ calls' = calls
      /\ dispatches' = dispatches /\ breaks' = breaks /\ air' = air
      /\ screens[t].page # "AWAY"
      /\ screens' = [screens EXCEPT ![t] = Flushed([@ EXCEPT !.workbench = screens[t].page])]
  BY DEF OpenView
<1>3. screens[t] \in ScreenRow
  BY <1>1 DEF ToastTypes
<1>4. LET r == Flushed([screens[t] EXCEPT !.workbench = screens[t].page]) IN
        /\ r \in ScreenRow
        /\ r.page = screens[t].page /\ r.workbench = screens[t].page
        /\ r.up = screens[t].up /\ r.since = screens[t].since /\ r.buffer = {}
        /\ r.shown = screens[t].shown
                       \cup {e \in screens[t].buffer : e.audience = screens[t].page}
  BY <1>2, <1>3 DEF Flushed, ScreenRow
<1>5. screens'[t] = Flushed([screens[t] EXCEPT !.workbench = screens[t].page])
  BY <1>1, <1>2 DEF ToastTypes
<1>6. screens' \in [Screen -> ScreenRow] /\ air' \in [Screen -> SUBSET ToastRow]
  BY <1>1, <1>2, <1>4 DEF ToastTypes
<1>7. KeepsTab(t)
  BY <1>1, <1>2, <1>4, <1>5 DEF KeepsTab, ScreenRules
<1>8. \A u \in Screen \ {t} : KeepsTab(u)
  <2> TAKE u \in Screen \ {t}
  <2>1. screens'[u] = screens[u] /\ air'[u] = air[u]
    BY <1>1, <1>2 DEF ToastTypes
  <2> QED
    BY <1>2, <2>1, TabIdles
<1> QED
  BY <1>1, <1>2, <1>6, <1>7, <1>8, ScreenStepKeeps DEF ToastTypes

LEMMA ConnectKeeps ==
  ASSUME ToastInv, NEW t \in Screen, ConnectScreen(t)
  PROVE  ToastInv'
<1>1. ToastTypes
  BY DEF ToastInv
<1>2. /\ bank' = bank /\ approval' = approval /\ transfers' = transfers /\ calls' = calls
      /\ dispatches' = dispatches /\ breaks' = breaks /\ air' = air
      /\ screens' = [screens EXCEPT ![t].up = TRUE]
  BY DEF ConnectScreen
<1>3. /\ screens' \in [Screen -> ScreenRow]
      /\ \A u \in Screen :
           /\ screens'[u].page = screens[u].page /\ screens'[u].workbench = screens[u].workbench
           /\ screens'[u].shown = screens[u].shown /\ screens'[u].buffer = screens[u].buffer
           /\ screens'[u].since = screens[u].since
           /\ screens[u].up => screens'[u].up
  BY <1>1, <1>2 DEF ToastTypes, ScreenRow
<1>4. \A u \in Screen : KeepsTab(u)
  BY <1>2, <1>3, TabIdles
<1> QED
  BY <1>1, <1>2, <1>3, <1>4, ScreenStepKeeps DEF ToastTypes

LEMMA TurnPageKeeps ==
  ASSUME ToastInv, NEW t \in Screen, NEW page \in {"PLAYER", "BANK", "AWAY"}, TurnPage(t, page)
  PROVE  ToastInv'
<1>1. ToastTypes /\ screens[t] \in ScreenRow
  BY DEF ToastInv, ToastTypes
<1>2. /\ bank' = bank /\ approval' = approval /\ transfers' = transfers /\ calls' = calls
      /\ dispatches' = dispatches /\ air' = air
      /\ screens' = [screens EXCEPT ![t] = [Cleared(@) EXCEPT !.page = page]]
      /\ page = "BANK" => t = bank
  BY DEF TurnPage, Entering, Views
<1>3. breaks' \in Nat
  BY <1>1 DEF TurnPage, ToastTypes
<1>4. LET r == [Cleared(screens[t]) EXCEPT !.page = page] IN
        /\ r \in ScreenRow /\ r.page = page /\ r.buffer = {} /\ r.shown = {} /\ r.since = {}
  BY <1>1 DEF Cleared, ScreenRow
<1>5. screens'[t] = [Cleared(screens[t]) EXCEPT !.page = page]
  BY <1>1, <1>2 DEF ToastTypes
<1>6. screens' \in [Screen -> ScreenRow]
  BY <1>1, <1>2, <1>4 DEF ToastTypes
<1>7. KeepsTab(t)
  BY <1>2, <1>4, <1>5 DEF KeepsTab
<1>8. \A u \in Screen \ {t} : KeepsTab(u)
  <2> TAKE u \in Screen \ {t}
  <2>1. screens'[u] = screens[u]
    BY <1>1, <1>2 DEF ToastTypes
  <2> QED
    BY <1>2, <2>1, TabIdles
<1> QED
  BY <1>1, <1>2, <1>3, <1>6, <1>7, <1>8, ScreenStepKeeps DEF ToastTypes

\* The page that stays begins anew.
LEMMA RefuseFinishKeeps ==
  ASSUME ToastInv, RefuseFinish
  PROVE  ToastInv'
<1>1. ToastTypes /\ bank \in Screen /\ screens[bank] \in ScreenRow
  BY DEF ToastInv, ToastTypes
<1>2. /\ bank' = bank /\ approval' = approval /\ transfers' = transfers /\ calls' = calls
      /\ dispatches' = dispatches /\ air' = air /\ breaks' \in Nat
      /\ screens' = [screens EXCEPT ![bank] = Cleared(@)]
  BY <1>1 DEF RefuseFinish, ToastTypes
<1>3. /\ Cleared(screens[bank]) \in ScreenRow
      /\ Cleared(screens[bank]).buffer = {} /\ Cleared(screens[bank]).shown = {}
      /\ Cleared(screens[bank]).since = {}
  BY <1>1 DEF Cleared, ScreenRow
<1>4. screens'[bank] = Cleared(screens[bank])
  BY <1>1, <1>2 DEF ToastTypes
<1>5. screens' \in [Screen -> ScreenRow]
  BY <1>1, <1>2, <1>3 DEF ToastTypes
<1>6. KeepsTab(bank)
  BY <1>2, <1>3, <1>4 DEF KeepsTab
<1>7. \A u \in Screen \ {bank} : KeepsTab(u)
  <2> TAKE u \in Screen \ {bank}
  <2>1. screens'[u] = screens[u]
    BY <1>1, <1>2 DEF ToastTypes
  <2> QED
    BY <1>2, <2>1, TabIdles
<1> QED
  BY <1>1, <1>2, <1>5, <1>6, <1>7, ScreenStepKeeps DEF ToastTypes

LEMMA RemountKeeps ==
  ASSUME ToastInv, NEW t \in Screen, NEW page \in {"PLAYER", "BANK", "AWAY"},
         RemountPage(t, page)
  PROVE  ToastInv'
<1> DEFINE gone(c) == IF c.waits = "HERE" /\ Caller(c) = t THEN [c EXCEPT !.waits = "GONE"] ELSE c
<1>1. ToastTypes /\ screens[t] \in ScreenRow
  BY DEF ToastInv, ToastTypes
<1>2. /\ bank' = bank /\ approval' = approval /\ transfers' = transfers
      /\ dispatches' = dispatches /\ air' = [air EXCEPT ![t] = {}]
      /\ screens' = [screens EXCEPT ![t] = [Cleared(@) EXCEPT !.page = page, !.workbench = "NONE",
                                                              !.up = FALSE]]
      /\ calls' = {gone(c) : c \in calls}
      /\ page = "BANK" => t = bank
      /\ breaks' \in Nat
  BY <1>1 DEF RemountPage, Entering, Views, ToastTypes
<1>3. LET r == [Cleared(screens[t]) EXCEPT !.page = page, !.workbench = "NONE", !.up = FALSE] IN
        /\ r \in ScreenRow /\ r.page = page /\ r.buffer = {} /\ r.shown = {} /\ r.since = {}
  BY <1>1 DEF Cleared, ScreenRow
<1>4. screens'[t] = [Cleared(screens[t]) EXCEPT !.page = page, !.workbench = "NONE", !.up = FALSE]
      /\ air'[t] = {}
  BY <1>1, <1>2 DEF ToastTypes
<1>5. screens' \in [Screen -> ScreenRow] /\ air' \in [Screen -> SUBSET ToastRow]
  BY <1>1, <1>2, <1>3 DEF ToastTypes
<1>6. KeepsRows
  BY <1>2 DEF KeepsRows
<1>7. KeepsTab(t)
  BY <1>2, <1>3, <1>4 DEF KeepsTab
<1>8. \A u \in Screen : KeepsTab(u)
  <2>1. ASSUME NEW u \in Screen, u # t PROVE KeepsTab(u)
    <3>1. screens'[u] = screens[u] /\ air'[u] = air[u]
      BY <1>1, <1>2, <2>1 DEF ToastTypes
    <3> QED
      BY <1>2, <3>1, TabIdles
  <2> QED
    BY <1>7, <2>1
<1>9. ASSUME NEW k \in calls' PROVE k \in CallRow /\ CallRules(k)'
  <2>1. PICK c \in calls : k = gone(c)
    BY <1>2
  <2>2. c \in CallRow
    BY <1>1 DEF ToastTypes
  <2>3. CallRules(c)'
    <3>1. screens'[Payer].since \subseteq screens[Payer].since
      BY <1>8 DEF KeepsTab, Screen
    <3> QED
      BY <1>6, <3>1, CallsIdle
  <2>4. CASE c.waits = "HERE" /\ Caller(c) = t
    <3>1. k = [c EXCEPT !.waits = "GONE"]
      BY <2>1, <2>4
    <3>2. /\ k \in CallRow /\ k.op = c.op /\ k.of = c.of
          /\ k.stage = c.stage /\ k.result = c.result
      BY <2>2, <3>1 DEF CallRow
    <3>3. c.op = "SUBMIT" => screens'[Payer].since = {}
      BY <1>3, <1>4, <2>4 DEF Caller
    <3> QED
      BY <2>3, <3>2, <3>3 DEF CallRules
  <2>5. CASE ~ (c.waits = "HERE" /\ Caller(c) = t)
    <3>1. k = c
      BY <2>1, <2>5
    <3> QED
      BY <2>2, <2>3, <3>1
  <2> QED
    BY <2>4, <2>5
<1>10. ToastTypes'
  BY <1>1, <1>2, <1>5, <1>9 DEF ToastTypes
<1> QED
  BY <1>2, <1>6, <1>8, <1>9, <1>10, TabStepKeeps

LEMMA BreakKeeps ==
  ASSUME ToastInv, NEW t \in Screen, BreakConnection(t)
  PROVE  ToastInv'
<1>1. ToastTypes /\ screens[t] \in ScreenRow /\ ScreenRules(t)
  BY DEF ToastInv, ToastTypes, ToastRules
<1>2. /\ bank' = bank /\ approval' = approval /\ transfers' = transfers /\ calls' = calls
      /\ dispatches' = dispatches /\ air' = [air EXCEPT ![t] = {}]
      /\ screens' = [screens EXCEPT ![t].up = FALSE, ![t].since = {}]
      /\ breaks' \in Nat
  BY <1>1 DEF BreakConnection, ToastTypes
<1>3. /\ screens' \in [Screen -> ScreenRow] /\ air' \in [Screen -> SUBSET ToastRow]
      /\ screens'[t].page = screens[t].page /\ screens'[t].workbench = screens[t].workbench
      /\ screens'[t].shown = screens[t].shown /\ screens'[t].buffer = screens[t].buffer
      /\ screens'[t].since = {} /\ air'[t] = {}
      /\ \A u \in Screen \ {t} : screens'[u] = screens[u] /\ air'[u] = air[u]
  BY <1>1, <1>2 DEF ToastTypes, ScreenRow
<1>4. KeepsTab(t)
  BY <1>1, <1>2, <1>3 DEF KeepsTab, ScreenRules
<1>5. \A u \in Screen \ {t} : KeepsTab(u)
  BY <1>2, <1>3, TabIdles
<1> QED
  BY <1>1, <1>2, <1>3, <1>4, <1>5, ScreenStepKeeps DEF ToastTypes

LEMMA CrashKeeps ==
  ASSUME ToastInv, CrashServer
  PROVE  ToastInv'
<1>1. ToastTypes
  BY DEF ToastInv
<1>2. /\ bank' = bank /\ approval' = approval /\ transfers' = transfers /\ calls' = {}
      /\ dispatches' = {} /\ air' = [t \in Screen |-> {}]
      /\ screens' = [t \in Screen |-> [screens[t] EXCEPT !.up = FALSE, !.since = {}]]
      /\ breaks' = breaks + 1
  BY DEF CrashServer
<1>3. /\ screens' \in [Screen -> ScreenRow] /\ air' \in [Screen -> SUBSET ToastRow]
      /\ \A t \in Screen :
           /\ screens'[t].page = screens[t].page /\ screens'[t].workbench = screens[t].workbench
           /\ screens'[t].shown = screens[t].shown /\ screens'[t].buffer = screens[t].buffer
           /\ screens'[t].since = {} /\ air'[t] = {}
  BY <1>1, <1>2 DEF ToastTypes, ScreenRow
<1>4. ToastTypes'
  <2>1. bank' \in Screen /\ approval' \in BOOLEAN /\ transfers' \in [Transfer -> TransferRow]
    BY <1>1, <1>2 DEF ToastTypes
  <2>2. calls' \subseteq CallRow /\ dispatches' \subseteq NoticeRow
    BY <1>2
  <2>3. breaks' \in Nat
    <3>1. breaks' = breaks + 1
      BY <1>2
    <3> QED
      BY <1>1, <3>1 DEF ToastTypes
  <2> QED
    BY <1>3, <2>1, <2>2, <2>3 DEF ToastTypes
<1>5. \A t \in Screen : KeepsTab(t)
  <2> TAKE t \in Screen
  <2>1. ScreenRules(t)
    BY DEF ToastInv, ToastRules
  <2> QED
    BY <1>2, <1>3, <2>1 DEF KeepsTab, ScreenRules
<1>6. KeepsRows
  BY <1>2 DEF KeepsRows
<1> QED
  BY <1>2, <1>4, <1>5, <1>6, TabStepKeeps

-----------------------------------------------------------------------------
(* Toasts: the theorems *)

LEMMA ToastStepKeeps == ToastInv /\ [ToastsNext]_toastVars => ToastInv'
<1> SUFFICES ASSUME ToastInv, [ToastsNext]_toastVars PROVE ToastInv'
  OBVIOUS
<1>1. ASSUME NEW n \in dispatches, Build(n) \/ BuildFails(n) \/ Emit(n) PROVE ToastInv'
  BY <1>1, BuildKeeps, BuildFailsKeeps, EmitKeeps
<1>2. ASSUME NEW c \in calls, ServeCall(c) \/ HearAnswer(c) \/ LoseAnswer(c) PROVE ToastInv'
  BY <1>2, ServeCallKeeps, HearAnswerKeeps, LoseAnswerKeeps
<1>3. ASSUME NEW x \in Transfer, PressTransfer(x) \/ ReverseTransfer(x) PROVE ToastInv'
  BY <1>3, PressKeeps, ReverseKeeps
<1>4. ASSUME NEW x \in Transfer, NEW op \in {"APPROVE", "REJECT"}, Rule(x, op) PROVE ToastInv'
  BY <1>4, RuleKeeps
<1>5. CASE SwitchMode
  BY <1>5, SwitchKeeps
<1>6. ASSUME NEW t \in Screen, OpenView(t) \/ ConnectScreen(t) \/ BreakConnection(t)
      PROVE  ToastInv'
  BY <1>6, OpenViewKeeps, ConnectKeeps, BreakKeeps
<1>7. ASSUME NEW t \in Screen, NEW e \in air[t], HearToast(t, e) PROVE ToastInv'
  BY <1>7, HearToastKeeps
<1>8. ASSUME NEW t \in Screen, NEW page \in {"PLAYER", "BANK", "AWAY"},
             TurnPage(t, page) \/ RemountPage(t, page)
      PROVE  ToastInv'
  BY <1>8, TurnPageKeeps, RemountKeeps
<1>9. CASE CrashServer
  BY <1>9, CrashKeeps
<1>10. CASE RefuseFinish
  BY <1>10, RefuseFinishKeeps
<1>11. CASE UNCHANGED toastVars
  <2>1. ToastTypes'
    BY <1>11 DEF ToastInv, ToastTypes, toastVars
  <2>2. ToastRules'
    BY <1>11 DEF ToastInv, ToastRules, CallRules, NoticeRules, ScreenRules, NewsComes,
                 ResultHeard, Truthful, News, Coming, toastVars
  <2> QED
    BY <2>1, <2>2 DEF ToastInv
<1> QED
  BY <1>1, <1>2, <1>3, <1>4, <1>5, <1>6, <1>7, <1>8, <1>9, <1>10, <1>11
     DEF ToastsNext

\* The rules hold all along: what a tab has been told is true of the row, and
\* what it is to be told is shown, buffered, under way or still to be built.
THEOREM ToastsKeepTheirRules == ToastsSpec => []ToastInv
<1>1. ToastsInit => ToastInv
  BY InitToastInv
<1>2. ToastInv /\ [ToastsNext]_toastVars => ToastInv'
  BY ToastStepKeeps
<1> QED
  BY <1>1, <1>2, PTL DEF ToastsSpec

LEMMA AtMostOne ==
  ASSUME NEW S, \A d, e \in S : d = e
  PROVE  Cardinality(S) <= 1
<1>1. CASE S = {}
  BY <1>1, FS_EmptySet
<1>2. CASE S # {}
  <2>1. PICK e : S = {e}
    BY <1>2
  <2> QED
    BY <2>1, FS_Singleton
<1> QED
  BY <1>1, <1>2

\* The answer of the call, the event of the approval and the event of the
\* funds exclude each other in the view of one player, and the bank's view
\* knows only the last: the money of a transfer is told once.
THEOREM MoneyIsToldOnce == ToastsSpec => []MoneyToldOnce
<1>1. ToastInv => MoneyToldOnce
  <2> SUFFICES ASSUME ToastInv PROVE MoneyToldOnce
    OBVIOUS
  <2> USE DEF MoneyToldOnce
  <2> TAKE t \in Screen, x \in Transfer, audience \in {"PLAYER", "BANK"}
  <2> DEFINE S == {toast \in screens[t].shown : /\ toast.of = x
                                                /\ toast.audience = audience
                                                /\ Money(toast)}
  <2>1. ToastTypes /\ ScreenRules(t) /\ AnswerRules(transfers[x])
    BY DEF ToastInv, ToastRules
  <2>2. ASSUME NEW e \in S
        PROVE  /\ e \in ToastRow /\ e.of = x /\ e.audience = audience
               /\ e.what \in {"RESULT", "APPROVED", "FUNDS"} /\ Truthful(t, e)
    BY <2>1 DEF ToastTypes, ScreenRow, ScreenRules, Money
  <2> HIDE DEF S
  <2>3. ASSUME NEW d \in S, NEW e \in S PROVE d = e
    <3>1. d.what = e.what
      BY <2>1, <2>2, ToastAssumption DEF Truthful, AnswerRules
    <3> QED
      BY <2>2, <3>1 DEF ToastRow
  <2>4. Cardinality(S) <= 1
    BY <2>3, AtMostOne
  <2> QED
    BY <2>4 DEF S
<1> QED
  BY <1>1, ToastsKeepTheirRules, PTL

\* Whoever has kept page and connection since a transfer was asked for has
\* been told what became of it once nothing is under way, but for the event
\* whose builder has failed.
THEOREM OutcomesAreTold == ToastsSpec => []OutcomeTold
<1>1. ToastInv => OutcomeTold
  <2> SUFFICES ASSUME ToastInv, NEW t \in Screen, NothingUnderWay(t), NEW x \in screens[t].since
               PROVE
        /\ transfers[x].status = "EXECUTED" /\ transfers[x].form.moved =>
             /\ On(t, "PLAYER") /\ t = Payer =>
                  CASE transfers[x].form.kind = "TOLL" -> EventTold(t, x, "FUNDS")
                    [] transfers[x].answer = "PENDING" -> EventTold(t, x, "APPROVED")
                    [] OTHER -> Told(t, x, {"RESULT"}) \/ transfers[x].intent = "OPEN"
             /\ On(t, "PLAYER") /\ t = Receiver /\ transfers[x].form.to = "PLAYER" =>
                  EventTold(t, x, "FUNDS")
             /\ On(t, "BANK") => EventTold(t, x, "FUNDS")
        /\ transfers[x].status = "REJECTED" /\ On(t, "PLAYER") /\ t = Payer =>
             EventTold(t, x, "REJECTED")
    BY DEF OutcomeTold
  <2>1. ToastTypes /\ ScreenRules(t) /\ NewsComes(t) /\ ResultHeard /\ x \in Transfer
    BY DEF ToastInv, ToastTypes, ToastRules, ScreenRow
  <2>2. AnswerRules(transfers[x]) /\ transfers[x] \in TransferRow
    BY <2>1 DEF ToastInv, ToastTypes, ToastRules
  <2>3. transfers[x].form.kind \in {"TRANSFER", "TOLL"}
    BY <2>2, Forms DEF TransferRow
  <2>4. screens[t].buffer = {} /\ air[t] = {} /\ dispatches = {}
    BY <2>1 DEF NothingUnderWay, ScreenRules
  <2>5. ASSUME NEW what \in What, NEW audience \in {"PLAYER", "BANK"},
               On(t, audience), News(t, x, what, audience)
        PROVE  Toast(x, what, audience) \in screens[t].shown \/ what \in transfers[x].dropped
    BY <2>1, <2>4, <2>5 DEF NewsComes, Coming, On
  <2>6. ASSUME NEW what \in What, NEW audience \in {"PLAYER", "BANK"},
               On(t, audience), News(t, x, what, audience)
        PROVE  EventTold(t, x, what)
    BY <2>5, <2>6 DEF EventTold, Told, Toast
  <2>7. ASSUME transfers[x].status = "EXECUTED", transfers[x].form.moved
        PROVE  /\ On(t, "PLAYER") /\ t = Payer =>
                    CASE transfers[x].form.kind = "TOLL" -> EventTold(t, x, "FUNDS")
                      [] transfers[x].answer = "PENDING" -> EventTold(t, x, "APPROVED")
                      [] OTHER -> Told(t, x, {"RESULT"}) \/ transfers[x].intent = "OPEN"
               /\ On(t, "PLAYER") /\ t = Receiver /\ transfers[x].form.to = "PLAYER" =>
                    EventTold(t, x, "FUNDS")
               /\ On(t, "BANK") => EventTold(t, x, "FUNDS")
    <3>1. ASSUME On(t, "PLAYER"), t = Payer
          PROVE  CASE transfers[x].form.kind = "TOLL" -> EventTold(t, x, "FUNDS")
                   [] transfers[x].answer = "PENDING" -> EventTold(t, x, "APPROVED")
                   [] OTHER -> Told(t, x, {"RESULT"}) \/ transfers[x].intent = "OPEN"
      <4>1. CASE transfers[x].form.kind = "TOLL"
        <5>1. News(t, x, "FUNDS", "PLAYER")
          BY <2>7, <3>1, <4>1 DEF News
        <5>2. EventTold(t, x, "FUNDS") /\ transfers[x].answer # "PENDING"
          BY <2>2, <2>6, <3>1, <4>1, <5>1 DEF AnswerRules, What
        <5> QED
          BY <4>1, <5>2
      <4>2. CASE transfers[x].form.kind = "TRANSFER" /\ transfers[x].answer = "PENDING"
        <5>1. News(t, x, "APPROVED", "PLAYER")
          BY <2>7, <3>1, <4>2 DEF News
        <5>2. EventTold(t, x, "APPROVED")
          BY <2>6, <3>1, <5>1 DEF What
        <5> QED
          BY <4>2, <5>2
      <4>3. CASE transfers[x].form.kind = "TRANSFER" /\ transfers[x].answer = "EXECUTED"
        <5>1. Told(t, x, {"RESULT"}) \/ transfers[x].intent = "OPEN"
          BY <2>1, <3>1, <4>3 DEF ResultHeard, Told, Toast
        <5> QED
          BY <4>3, <5>1
      <4> QED
        BY <2>2, <2>3, <2>7, <4>1, <4>2, <4>3 DEF AnswerRules, TransferRow
    <3>2. ASSUME On(t, "PLAYER"), t = Receiver, transfers[x].form.to = "PLAYER"
          PROVE  EventTold(t, x, "FUNDS")
      <4>1. News(t, x, "FUNDS", "PLAYER")
        BY <2>7, <3>2 DEF News
      <4> QED
        BY <2>6, <3>2, <4>1 DEF What
    <3>3. ASSUME On(t, "BANK") PROVE EventTold(t, x, "FUNDS")
      <4>1. News(t, x, "FUNDS", "BANK")
        BY <2>1, <2>7, <3>3 DEF News, On, ScreenRules
      <4> QED
        BY <2>6, <3>3, <4>1 DEF What
    <3> QED
      BY <3>1, <3>2, <3>3
  <2>8. ASSUME transfers[x].status = "REJECTED", On(t, "PLAYER"), t = Payer
        PROVE  EventTold(t, x, "REJECTED")
    <3>1. News(t, x, "REJECTED", "PLAYER")
      BY <2>8 DEF News
    <3> QED
      BY <2>6, <2>8, <3>1 DEF What
  <2> QED
    BY <2>7, <2>8
<1> QED
  BY <1>1, ToastsKeepTheirRules, PTL

-----------------------------------------------------------------------------
(* The skeleton *)

UiRow ==
  [page : Page, home : BOOLEAN, asked : {Nowhere} \cup [to : Page, reason : BOOLEAN],
   pending : BOOLEAN, watchdog : BOOLEAN, checked : BOOLEAN, account : BOOLEAN,
   invalidating : BOOLEAN, ready : BOOLEAN, load : {"NONE", "RUNNING", "DONE"},
   late : SUBSET {"HERE", "GONE"}, since : {"NONE", "RUNNING", "ELAPSED"}, timer : BOOLEAN,
   holding : BOOLEAN, reduced : BOOLEAN]

\* Nothing is ready or read before the account is restored.
Unrestored(c) == ~ c.checked => ~ c.ready /\ c.load = "NONE"

\* A private page with an account is ready by a read of its own.
OwnData(c) == c.page \notin Public /\ c.account /\ c.ready => c.load = "DONE"

\* A minimum time that runs holds the skeleton.
Held(c) == c.since = "RUNNING" => c.holding

UiRules(c) == c \in UiRow /\ Unrestored(c) /\ OwnData(c) /\ Held(c)

\* d is c but for the presentation.
Shown(c, d) ==
  /\ d.page = c.page /\ d.checked = c.checked /\ d.account = c.account
  /\ d.ready = c.ready /\ d.load = c.load /\ d.reduced = c.reduced

\* a minimum time that runs goes on, unless no motion is wanted
HoldsOn(c, d) == c.since = "RUNNING" /\ c.holding /\ ~ d.reduced => d.since = "RUNNING" /\ d.holding

LEMMA PresentedRules ==
  ASSUME NEW c \in UiRow, Held(c)
  PROVE  /\ Presented(c) \in UiRow /\ Held(Presented(c)) /\ Shown(c, Presented(c))
         /\ HoldsOn(c, Presented(c))
         /\ Loading(c) /\ ~ c.reduced => Presented(c).holding
<1>1. CASE c.reduced
  BY <1>1 DEF Presented, Cancelled, UiRow, Held, Shown, HoldsOn
<1>2. CASE ~ c.reduced /\ Loading(c)
  BY <1>2 DEF Presented, UiRow, Held, Shown, HoldsOn
<1>3. CASE ~ c.reduced /\ ~ Loading(c)
  <2>1. Presented(c) = ReleaseRequested(c)
    BY <1>3 DEF Presented
  <2>2. CASE c.since = "NONE"
    BY <1>3, <2>1, <2>2 DEF ReleaseRequested, UiRow, Held, Shown, HoldsOn
  <2>3. CASE c.since = "ELAPSED"
    <3>1. Presented(c) = Cancelled(c)
      BY <1>3, <2>1, <2>3 DEF ReleaseRequested, Released
    <3> QED
      BY <1>3, <2>3, <3>1 DEF Cancelled, UiRow, Held, Shown, HoldsOn
  <2>4. CASE c.since = "RUNNING"
    <3>1. Presented(c) = [c EXCEPT !.timer = TRUE]
      BY <2>1, <2>4 DEF ReleaseRequested
    <3> QED
      BY <1>3, <2>4, <3>1 DEF UiRow, Held, Shown, HoldsOn
  <2> QED
    BY <2>2, <2>3, <2>4 DEF UiRow
<1> QED
  BY <1>1, <1>2, <1>3

LEMMA RenderedRules ==
  ASSUME NEW old, NEW c \in UiRow, Held(c)
  PROVE  /\ Rendered(old, c) \in UiRow /\ Held(Rendered(old, c)) /\ Shown(c, Rendered(old, c))
         /\ HoldsOn(c, Rendered(old, c))
<1>1. Rendered(old, c) \in {c, Presented(c)}
  BY DEF Rendered
<1>2. Shown(c, c) /\ HoldsOn(c, c)
  BY DEF Shown, HoldsOn
<1> QED
  BY <1>1, <1>2, PresentedRules

\* what a navigation changes
LEMMA GoingRules ==
  ASSUME NEW c \in UiRow, NEW target \in [to : Page, reason : BOOLEAN]
  PROVE  /\ Going(c, target) \in UiRow /\ Shown(c, Going(c, target))
         /\ Going(c, target).since = c.since /\ Going(c, target).holding = c.holding
<1>1. CASE target = To(c.page)
  BY <1>1 DEF Going, Shown
<1>2. CASE target # To(c.page)
  BY <1>2 DEF Going, Shown, UiRow
<1> QED
  BY <1>1, <1>2

\* a read that is overtaken
LEMMA OvertakenRules ==
  ASSUME NEW c \in UiRow
  PROVE  /\ Overtaken(c) \in UiRow /\ Overtaken(c).load = "NONE"
         /\ Overtaken(c).page = c.page /\ Overtaken(c).checked = c.checked
         /\ Overtaken(c).account = c.account /\ Overtaken(c).ready = c.ready
         /\ Overtaken(c).reduced = c.reduced
         /\ Overtaken(c).since = c.since /\ Overtaken(c).holding = c.holding
<1>1. CASE c.load = "RUNNING"
  BY <1>1 DEF Overtaken, UiRow
<1>2. CASE c.load # "RUNNING"
  BY <1>2 DEF Overtaken, UiRow
<1> QED
  BY <1>1, <1>2

\* The effect of a page makes the page ready only if it is public: a private
\* one has to be read first.
LEMMA PageEffectRules ==
  ASSUME NEW c \in UiRow, Unrestored(c), Held(c)
  PROVE  /\ UiRules(PageEffect(c))
         /\ PageEffect(c).page = c.page /\ PageEffect(c).checked = c.checked
         /\ PageEffect(c).account = c.account /\ PageEffect(c).reduced = c.reduced
         /\ PageEffect(c).since = c.since /\ PageEffect(c).holding = c.holding
<1> DEFINE o == Overtaken(c)
<1>1. /\ o \in UiRow /\ o.load = "NONE" /\ o.page = c.page /\ o.checked = c.checked
      /\ o.account = c.account /\ o.ready = c.ready /\ o.reduced = c.reduced
      /\ o.since = c.since /\ o.holding = c.holding
  BY OvertakenRules
<1>2. {To("login"), To("forbidden")} \subseteq [to : Page, reason : BOOLEAN]
  BY DEF To, Page
<1> HIDE DEF o
<1>3. CASE ~ c.checked
  <2>1. PageEffect(c) = o
    BY <1>3 DEF PageEffect, o
  <2> QED
    BY <1>1, <1>3, <2>1 DEF UiRules, Unrestored, OwnData, Held
<1>4. CASE c.checked /\ c.page \in Public
  <2> DEFINE u == [o EXCEPT !.ready = TRUE]
  <2>1. PageEffect(c) = u
    BY <1>4 DEF PageEffect, o
  <2>2. /\ u \in UiRow /\ u.page = c.page /\ u.checked = c.checked /\ u.account = c.account
        /\ u.reduced = c.reduced /\ u.since = c.since /\ u.holding = c.holding
    BY <1>1 DEF UiRow
  <2> HIDE DEF u
  <2> QED
    BY <1>4, <2>1, <2>2 DEF UiRules, Unrestored, OwnData, Held
<1>5. CASE c.checked /\ c.page \notin Public /\ ~ c.account
  <2>1. PageEffect(c) \in {o, Going(o, To("login"))}
    BY <1>5 DEF PageEffect, o
  <2>2. /\ Going(o, To("login")) \in UiRow /\ Shown(o, Going(o, To("login")))
        /\ Going(o, To("login")).since = o.since /\ Going(o, To("login")).holding = o.holding
    BY <1>1, <1>2, GoingRules
  <2> QED
    BY <1>1, <1>5, <2>1, <2>2 DEF UiRules, Unrestored, OwnData, Held, Shown
<1>6. CASE c.checked /\ c.page \notin Public /\ c.account /\ c.page = "admin"
  <2> DEFINE u == [o EXCEPT !.ready = FALSE]
  <2>1. PageEffect(c) = Going(u, To("forbidden"))
    BY <1>6 DEF PageEffect, o
  <2>2. /\ u \in UiRow /\ ~ u.ready /\ u.page = c.page /\ u.checked = c.checked
        /\ u.account = c.account /\ u.reduced = c.reduced
        /\ u.since = c.since /\ u.holding = c.holding
    BY <1>1 DEF UiRow
  <2> HIDE DEF u
  <2>3. /\ Going(u, To("forbidden")) \in UiRow /\ Shown(u, Going(u, To("forbidden")))
        /\ Going(u, To("forbidden")).since = u.since
        /\ Going(u, To("forbidden")).holding = u.holding
    BY <1>2, <2>2, GoingRules
  <2> QED
    BY <1>6, <2>1, <2>2, <2>3 DEF UiRules, Unrestored, OwnData, Held, Shown
<1>7. CASE c.checked /\ c.page \notin Public /\ c.account /\ c.page # "admin"
  <2> DEFINE u == [o EXCEPT !.ready = FALSE, !.load = "RUNNING"]
  <2>1. PageEffect(c) = u
    BY <1>7 DEF PageEffect, PageRead, o
  <2>2. /\ u \in UiRow /\ u.page = c.page /\ u.checked = c.checked /\ u.account = c.account
        /\ u.reduced = c.reduced /\ u.since = c.since /\ u.holding = c.holding /\ ~ u.ready
    BY <1>1 DEF UiRow
  <2> HIDE DEF u
  <2> QED
    BY <1>7, <2>1, <2>2 DEF UiRules, Unrestored, OwnData, Held
<1> QED
  BY <1>3, <1>4, <1>5, <1>6, <1>7

\* A step of the component: whatever it was before, it is as it should be.
LEMMA RunRules ==
  ASSUME NEW old \in UiRow, NEW c \in UiRow, Unrestored(c), Held(c),
         c.account = old.account /\ c.checked = old.checked /\ c.page = old.page => OwnData(c)
  PROVE  /\ UiRules(Run(old, c)) /\ HoldsOn(c, Run(old, c))
         /\ Run(old, c).page = c.page /\ Run(old, c).reduced = c.reduced
<1> DEFINE shown == Rendered(old, c)
           after == PageEffect(shown)
<1>1. shown \in UiRow /\ Held(shown) /\ Shown(c, shown) /\ HoldsOn(c, shown)
  BY RenderedRules
<1>2. CASE <<c.account, c.checked, c.page>> = <<old.account, old.checked, old.page>>
  <2>1. Run(old, c) = shown
    BY <1>2 DEF Run
  <2> HIDE DEF shown
  <2>2. OwnData(c)
    BY <1>2
  <2> QED
    BY <1>1, <2>1, <2>2 DEF UiRules, Unrestored, OwnData, Shown
<1>3. CASE <<c.account, c.checked, c.page>> # <<old.account, old.checked, old.page>>
  <2>1. Run(old, c) = Rendered(shown, after)
    BY <1>3 DEF Run
  <2>2. Unrestored(shown)
    BY <1>1 DEF Unrestored, Shown
  <2>3. /\ UiRules(after) /\ after.page = shown.page /\ after.reduced = shown.reduced
        /\ after.since = shown.since /\ after.holding = shown.holding
    BY <1>1, <2>2, PageEffectRules
  <2>4. /\ Rendered(shown, after) \in UiRow /\ Held(Rendered(shown, after))
        /\ Shown(after, Rendered(shown, after)) /\ HoldsOn(after, Rendered(shown, after))
    BY <2>3, RenderedRules DEF UiRules
  <2> HIDE DEF shown, after
  <2> QED
    BY <1>1, <2>1, <2>3, <2>4 DEF UiRules, Unrestored, OwnData, Shown, HoldsOn
<1> QED
  BY <1>2, <1>3

\* How long a skeleton stands after a step.
StandsOn ==
  ui.since = "RUNNING" =>
    \/ ui'.holding
    \/ ui.watchdog /\ ui'.page = ui.page
    \/ ui'.reduced
    \/ ui'.page \in Public /\ ~ ui'.checked

\* A step that runs the component after an event that changes neither the
\* minimum time nor what is held.
LEMMA RunStands ==
  ASSUME UiRules(ui), NEW c \in UiRow, Unrestored(c), ui' = Run(ui, c),
         c.since = ui.since, c.holding = ui.holding,
         c.account = ui.account /\ c.checked = ui.checked /\ c.page = ui.page => OwnData(c)
  PROVE  UiRules(ui') /\ StandsOn
<1>1. Held(c)
  BY DEF UiRules, Held
<1>2. UiRules(ui') /\ HoldsOn(c, ui') /\ ui'.reduced = c.reduced
  BY <1>1, RunRules DEF UiRules
<1> QED
  BY <1>2 DEF UiRules, HoldsOn, StandsOn, Held, UiRow

\* The same after an event that also asks for a navigation.
LEMMA GoStands ==
  ASSUME UiRules(ui), NEW c \in UiRow, Unrestored(c),
         NEW target \in [to : Page, reason : BOOLEAN], ui' = Run(ui, Going(c, target)),
         c.since = ui.since, c.holding = ui.holding,
         c.account = ui.account /\ c.checked = ui.checked /\ c.page = ui.page => OwnData(c)
  PROVE  UiRules(ui') /\ StandsOn
<1> DEFINE g == Going(c, target)
<1>1. g \in UiRow /\ Shown(c, g) /\ g.since = c.since /\ g.holding = c.holding
  BY GoingRules
<1>2. ui' = Run(ui, g)
  OBVIOUS
<1> HIDE DEF g
<1>3. Unrestored(g) /\ (g.account = ui.account /\ g.checked = ui.checked /\ g.page = ui.page
                          => OwnData(g))
  BY <1>1 DEF Shown, Unrestored, OwnData
<1> QED
  BY <1>1, <1>2, <1>3, RunStands

\* and one that finds the login invalid
LEMMA InvalidStands ==
  ASSUME UiRules(ui), NEW c \in UiRow, Unrestored(c), ui' = Run(ui, LoginInvalid(c)),
         c.since = ui.since, c.holding = ui.holding
  PROVE  UiRules(ui') /\ StandsOn
<1> DEFINE i == [c EXCEPT !.invalidating = TRUE, !.account = FALSE]
<1>1. /\ i \in UiRow /\ i.checked = c.checked /\ i.ready = c.ready /\ i.load = c.load
      /\ i.since = c.since /\ i.holding = c.holding /\ ~ i.account
  BY DEF UiRow
<1>2. ui' = Run(ui, Going(i, Relogin)) /\ Relogin \in [to : Page, reason : BOOLEAN]
  BY DEF LoginInvalid, Relogin, Page
<1> HIDE DEF i
<1>3. Unrestored(i) /\ OwnData(i)
  BY <1>1 DEF Unrestored, OwnData
<1> QED
  BY <1>1, <1>2, <1>3, GoStands

LEMMA Targets == \A page \in Page : To(page) \in [to : Page, reason : BOOLEAN]
  BY DEF To

\* A component that begins.
Begins(f, page, reduced) ==
  /\ f \in UiRow /\ f.page = page /\ ~ f.checked /\ ~ f.account /\ ~ f.ready
  /\ f.load = "NONE" /\ f.since = "NONE" /\ f.reduced = reduced

LEMMA FreshBegins ==
  ASSUME NEW page \in Page, NEW reduced \in BOOLEAN, NEW late \in SUBSET {"HERE", "GONE"}
  PROVE  /\ Begins(Fresh(page, reduced), page, reduced)
         /\ Begins([Fresh(page, reduced) EXCEPT !.late = late], page, reduced)
<1>1. Begins(Fresh(page, reduced), page, reduced)
  BY DEF Begins, Fresh, UiRow
<1>2. Begins([Fresh(page, reduced) EXCEPT !.late = late], page, reduced)
  BY <1>1 DEF Begins, UiRow
<1> QED
  BY <1>1, <1>2

LEMMA BeginRules ==
  ASSUME NEW page, NEW reduced, NEW f, Begins(f, page, reduced)
  PROVE  /\ UiRules(Presented(f)) /\ Presented(f).page = page /\ ~ Presented(f).checked
         /\ Presented(f).reduced = reduced
         /\ page \notin Public /\ ~ reduced => Presented(f).holding
<1>1. f \in UiRow /\ Held(f) /\ (page \notin Public => Loading(f))
  BY DEF Begins, Held, Loading
<1>2. /\ Presented(f) \in UiRow /\ Held(Presented(f)) /\ Shown(f, Presented(f))
      /\ Loading(f) /\ ~ f.reduced => Presented(f).holding
  BY <1>1, PresentedRules
<1> QED
  BY <1>1, <1>2 DEF Begins, UiRules, Unrestored, OwnData, Shown

LEMMA RestoreStands ==
  ASSUME UiRules(ui), RestoreAccount
  PROVE  UiRules(ui') /\ StandsOn
<1>1. PICK found \in BOOLEAN :
        LET restored == [ui EXCEPT !.account = found, !.checked = TRUE, !.home = FALSE]
        IN ui' = Run(ui, IF found /\ ui.home THEN Going(restored, To("rooms")) ELSE restored)
  BY DEF RestoreAccount
<1> DEFINE c == [ui EXCEPT !.account = found, !.checked = TRUE, !.home = FALSE]
<1>2. c \in UiRow /\ c.checked /\ ~ ui.checked /\ c.since = ui.since /\ c.holding = ui.holding
  BY DEF RestoreAccount, UiRules, UiRow
<1>3. ui' = Run(ui, c) \/ ui' = Run(ui, Going(c, To("rooms")))
  BY <1>1
<1> HIDE DEF c
<1>4. Unrestored(c) /\ To("rooms") \in [to : Page, reason : BOOLEAN]
  BY <1>2, Targets DEF Unrestored, Page
<1> QED
  BY <1>2, <1>3, <1>4, RunStands, GoStands

\* The page of a read that has been settled, for whatever it has found.
LEMMA SettledRules ==
  ASSUME UiRules(ui), ui.load = "RUNNING"
  PROVE  LET settled == [ui EXCEPT !.load = "DONE", !.ready = TRUE] IN
           /\ settled \in UiRow /\ Unrestored(settled) /\ OwnData(settled)
           /\ settled.since = ui.since /\ settled.holding = ui.holding
<1> DEFINE d == [ui EXCEPT !.load = "DONE", !.ready = TRUE]
<1>1. /\ d \in UiRow /\ d.load = "DONE" /\ d.checked = ui.checked
      /\ d.since = ui.since /\ d.holding = ui.holding
  BY DEF UiRules, UiRow
<1> HIDE DEF d
<1>2. Unrestored(d) /\ OwnData(d)
  BY <1>1 DEF UiRules, Unrestored, OwnData
<1> QED
  BY <1>1, <1>2 DEF d

LEMMA SettleStands ==
  ASSUME UiRules(ui), SettleLoad \/ \E page \in Page : RedirectLoad(page)
  PROVE  UiRules(ui') /\ StandsOn
<1> DEFINE d == [ui EXCEPT !.load = "DONE", !.ready = TRUE]
<1>1. /\ ui.load = "RUNNING"
      /\ \/ ui' = Run(ui, d)
         \/ ui' = Run(ui, LoginInvalid(d))
         \/ \E page \in Page : ui' = Run(ui, Going(d, To(page)))
  BY DEF SettleLoad, RedirectLoad
<1>2. d \in UiRow /\ Unrestored(d) /\ OwnData(d) /\ d.since = ui.since /\ d.holding = ui.holding
  BY <1>1, SettledRules
<1> HIDE DEF d
<1> QED
  BY <1>1, <1>2, Targets, RunStands, InvalidStands, GoStands

LEMMA LateStands ==
  ASSUME UiRules(ui), NEW whose \in {"HERE", "GONE"}, SettleLate(whose)
  PROVE  UiRules(ui') /\ StandsOn
<1> DEFINE h == [ui EXCEPT !.late = @ \ {whose}]
<1>1. \/ ui' = Run(ui, h)
      \/ ui' = Run(ui, LoginInvalid(h))
      \/ ui' = [h EXCEPT !.asked = Relogin]
  BY DEF SettleLate
<1>2. /\ h \in UiRow /\ Shown(ui, h) /\ h.since = ui.since /\ h.holding = ui.holding
  BY DEF UiRules, UiRow, Shown
<1> HIDE DEF h
<1>3. Unrestored(h) /\ OwnData(h) /\ Held(h)
  BY <1>2 DEF UiRules, Unrestored, OwnData, Held, Shown
<1>4. CASE ui' = [h EXCEPT !.asked = Relogin]
  <2>1. /\ ui' \in UiRow /\ Shown(h, ui') /\ ui'.since = h.since /\ ui'.holding = h.holding
    BY <1>2, <1>4 DEF UiRow, Shown, Relogin, Page
  <2> QED
    BY <1>2, <1>3, <2>1 DEF UiRules, Unrestored, OwnData, Held, Shown, StandsOn
<1> QED
  BY <1>1, <1>2, <1>3, <1>4, RunStands, InvalidStands

LEMMA ArriveStands ==
  ASSUME UiRules(ui), Arrive
  PROVE  UiRules(ui') /\ StandsOn
<1>1. ui \in UiRow /\ Unrestored(ui) /\ OwnData(ui) /\ Held(ui)
  BY DEF UiRules
<1> DEFINE here == [ui EXCEPT !.asked = Nowhere]
<1>2. here \in UiRow /\ Shown(ui, here) /\ here.since = ui.since /\ here.holding = ui.holding
  BY <1>1 DEF UiRow, Shown
<1>3. CASE ui' = here
  BY <1>1, <1>2, <1>3 DEF UiRules, Unrestored, OwnData, Held, Shown, StandsOn
<1>4. CASE ArriveKept /\ ui.asked.to # ui.page
  <2> DEFINE there == [here EXCEPT !.page = ui.asked.to]
             shown == Rendered(ui, there)
             told == [shown EXCEPT !.pending = FALSE, !.watchdog = FALSE,
                                   !.invalidating = @ /\ ~ ui.asked.reason]
             after == PageEffect(told)
  <2>1. ui' = Rendered(shown, after) /\ ui.asked.to \in Page
    BY <1>1, <1>4 DEF ArriveKept, UiRow
  <2> HIDE DEF here
  <2>2. /\ there \in UiRow /\ there.since = ui.since /\ there.holding = ui.holding
        /\ there.checked = ui.checked /\ there.ready = ui.ready /\ there.load = ui.load
    BY <1>2, <2>1 DEF UiRow, Shown
  <2> HIDE DEF there
  <2>3. Held(there) /\ Unrestored(there)
    BY <1>1, <2>2 DEF Held, Unrestored
  <2>4. shown \in UiRow /\ Held(shown) /\ Shown(there, shown) /\ HoldsOn(there, shown)
    BY <2>2, <2>3, RenderedRules
  <2> HIDE DEF shown
  <2>5. /\ told \in UiRow /\ Shown(shown, told)
        /\ told.since = shown.since /\ told.holding = shown.holding
    BY <2>4 DEF UiRow, Shown
  <2> HIDE DEF told
  <2>6. Held(told) /\ Unrestored(told)
    BY <2>3, <2>4, <2>5 DEF Held, Unrestored, Shown
  <2>7. UiRules(after) /\ after.reduced = told.reduced /\ after.since = told.since
        /\ after.holding = told.holding
    BY <2>5, <2>6, PageEffectRules
  <2> HIDE DEF after
  <2>8. ui' \in UiRow /\ Held(ui') /\ Shown(after, ui') /\ HoldsOn(after, ui')
    BY <2>1, <2>7, RenderedRules DEF UiRules
  <2>9. UiRules(ui')
    BY <2>7, <2>8 DEF UiRules, Unrestored, OwnData, Shown
  <2>10. StandsOn
    BY <1>1, <2>2, <2>4, <2>5, <2>7, <2>8 DEF StandsOn, HoldsOn, Held, Shown, UiRow
  <2> QED
    BY <2>9, <2>10
<1>5. CASE ArriveNew
  <2> DEFINE late == IF Overtaken(ui).late = {} THEN {} ELSE {"GONE"}
  <2>1. /\ ui' = Presented([Fresh(ui.asked.to, ui.reduced) EXCEPT !.late = late])
        /\ ui.asked.to # "NOWHERE"
    BY <1>5 DEF ArriveNew
  <2>2. ui.asked.to \in Page /\ ui.reduced \in BOOLEAN /\ late \in SUBSET {"HERE", "GONE"}
    BY <1>1, <2>1 DEF UiRow, Nowhere
  <2> HIDE DEF late
  <2>3. /\ UiRules(ui') /\ ui'.page = ui.asked.to /\ ~ ui'.checked /\ ui'.reduced = ui.reduced
        /\ ui.asked.to \notin Public /\ ~ ui.reduced => ui'.holding
    <3> DEFINE f == [Fresh(ui.asked.to, ui.reduced) EXCEPT !.late = late]
    <3>1. Begins(f, ui.asked.to, ui.reduced) /\ ui' = Presented(f)
      BY <2>1, <2>2, FreshBegins
    <3> HIDE DEF f
    <3> QED
      BY <3>1, BeginRules
  <2> QED
    BY <2>2, <2>3 DEF StandsOn
<1> QED
  BY <1>3, <1>4, <1>5 DEF Arrive, ArriveKept, FailNavigation

LEMMA TimerStands ==
  ASSUME UiRules(ui), FireWatchdog \/ PassMinimum \/ FireRelease
  PROVE  UiRules(ui') /\ StandsOn
<1>1. ui \in UiRow /\ Unrestored(ui) /\ OwnData(ui) /\ Held(ui)
  BY DEF UiRules
<1>2. CASE FireWatchdog
  <2> DEFINE w == WatchdogFired(ui)
  <2>1. ui' = Run(ui, w) /\ ui.watchdog
    BY <1>2 DEF FireWatchdog
  <2>2. w \in UiRow /\ Shown(ui, w) /\ w.since = "NONE"
    BY <1>1 DEF WatchdogFired, Cancelled, UiRow, Shown
  <2> HIDE DEF w
  <2>3. Unrestored(w) /\ OwnData(w) /\ Held(w)
    BY <1>1, <2>2 DEF Unrestored, OwnData, Held, Shown
  <2>4. UiRules(ui') /\ ui'.page = w.page
    BY <1>1, <2>1, <2>2, <2>3, RunRules
  <2> QED
    BY <2>1, <2>2, <2>4 DEF StandsOn, Shown
<1>3. CASE PassMinimum
  <2>1. /\ ui' \in UiRow /\ Shown(ui, ui') /\ ui'.since = "ELAPSED"
        /\ ui'.holding = ui.holding
    BY <1>1, <1>3 DEF PassMinimum, UiRow, Shown
  <2> QED
    BY <1>1, <2>1 DEF UiRules, Unrestored, OwnData, Held, Shown, StandsOn
<1>4. CASE FireRelease
  <2>1. ui' \in {[ui EXCEPT !.since = "NONE", !.timer = FALSE], Cancelled(ui)}
        /\ ui.since = "ELAPSED"
    BY <1>4 DEF FireRelease, Released
  <2>2. ui' \in UiRow /\ Shown(ui, ui') /\ ui'.since = "NONE"
    BY <1>1, <2>1 DEF Cancelled, UiRow, Shown
  <2> QED
    BY <1>1, <2>1, <2>2 DEF UiRules, Unrestored, OwnData, Held, Shown, StandsOn
<1> QED
  BY <1>2, <1>3, <1>4

LEMMA UserStands ==
  ASSUME UiRules(ui),
         \/ \E page \in Page : Follow(page) \/ Browse(page)
         \/ LogIn \/ LogOut \/ LoseLogin \/ ToggleReducedMotion
  PROVE  UiRules(ui') /\ StandsOn
<1>1. ui \in UiRow /\ Unrestored(ui) /\ OwnData(ui) /\ Held(ui)
  BY DEF UiRules
<1>2. ASSUME NEW page \in Page, Follow(page) PROVE UiRules(ui') /\ StandsOn
  BY <1>1, <1>2, Targets, GoStands DEF Follow
<1>3. ASSUME NEW page \in Page, Browse(page) PROVE UiRules(ui') /\ StandsOn
  <2>1. /\ ui' \in UiRow /\ Shown(ui, ui') /\ ui'.since = ui.since /\ ui'.holding = ui.holding
    BY <1>1, <1>3, Targets DEF Browse, UiRow, Shown
  <2> QED
    BY <1>1, <2>1 DEF UiRules, Unrestored, OwnData, Held, Shown, StandsOn
<1>4. CASE LogIn
  <2> DEFINE c == [ui EXCEPT !.account = TRUE]
  <2>1. ui' = Run(ui, Going(c, To("rooms"))) /\ ui.page = "login"
    BY <1>4 DEF LogIn
  <2>2. /\ c \in UiRow /\ c.page = "login" /\ c.checked = ui.checked /\ c.ready = ui.ready
        /\ c.load = ui.load /\ c.since = ui.since /\ c.holding = ui.holding
    BY <1>1, <2>1 DEF UiRow
  <2> HIDE DEF c
  <2>3. Unrestored(c) /\ OwnData(c) /\ To("rooms") \in [to : Page, reason : BOOLEAN]
    BY <1>1, <2>2, Targets DEF Unrestored, OwnData, Public, Page
  <2> QED
    BY <2>1, <2>2, <2>3, GoStands
<1>5. CASE LogOut
  <2> DEFINE c == [ui EXCEPT !.account = FALSE]
  <2>1. ui' = Run(ui, Going(c, To("home")))
    BY <1>5 DEF LogOut
  <2>2. /\ c \in UiRow /\ ~ c.account /\ c.checked = ui.checked /\ c.ready = ui.ready
        /\ c.load = ui.load /\ c.since = ui.since /\ c.holding = ui.holding
    BY <1>1 DEF UiRow
  <2> HIDE DEF c
  <2>3. Unrestored(c) /\ OwnData(c) /\ To("home") \in [to : Page, reason : BOOLEAN]
    BY <1>1, <2>2, Targets DEF Unrestored, OwnData, Page
  <2> QED
    BY <2>1, <2>2, <2>3, GoStands
<1>6. CASE LoseLogin
  BY <1>1, <1>6, InvalidStands DEF LoseLogin
<1>7. CASE ToggleReducedMotion
  <2>3. PICK wanted \in BOOLEAN : ui' = Run(ui, [ui EXCEPT !.reduced = wanted])
    BY <1>7 DEF ToggleReducedMotion
  <2> DEFINE c == [ui EXCEPT !.reduced = wanted]
  <2>1. ui' = Run(ui, c)
    BY <2>3
  <2>2. /\ c \in UiRow /\ c.page = ui.page /\ c.account = ui.account /\ c.checked = ui.checked
        /\ c.ready = ui.ready /\ c.load = ui.load /\ c.since = ui.since
        /\ c.holding = ui.holding
    BY <1>1 DEF UiRow
  <2> HIDE DEF c
  <2>4. Unrestored(c) /\ OwnData(c)
    BY <1>1, <2>2 DEF Unrestored, OwnData
  <2> QED
    BY <2>1, <2>2, <2>4, RunStands
<1> QED
  BY <1>2, <1>3, <1>4, <1>5, <1>6, <1>7

LEMMA SkeletonStepStands ==
  ASSUME UiRules(ui), [SkeletonNext]_skeletonVars
  PROVE  UiRules(ui') /\ (ui' # ui => StandsOn)
<1>1. CASE SkeletonNext
  BY <1>1, RestoreStands, SettleStands, LateStands, ArriveStands, TimerStands, UserStands
     DEF SkeletonNext
<1>2. CASE UNCHANGED skeletonVars
  BY <1>2 DEF skeletonVars
<1> QED
  BY <1>1, <1>2

\* A private page is shown with an account and data of its own only, and a
\* skeleton stands its minimum time but for the watchdog, a user who wants no
\* motion, and a public page in a new component.
THEOREM SkeletonsStandTheirTime == SkeletonSpec => SkeletonStandsItsTime
<1>1. SkeletonInit => UiRules(ui)
  <2> SUFFICES ASSUME NEW page \in Page, NEW reduced \in BOOLEAN,
                      ui = Presented(Fresh(page, reduced))
               PROVE  UiRules(ui)
    BY DEF SkeletonInit
  <2>1. Begins(Fresh(page, reduced), page, reduced)
    BY FreshBegins
  <2> QED
    BY <2>1, BeginRules
<1>2. UiRules(ui) /\ [SkeletonNext]_skeletonVars => UiRules(ui)'
  BY SkeletonStepStands
<1>3. UiRules(ui) /\ [SkeletonNext]_skeletonVars =>
        [ /\ ~ ShowsSkeleton(ui') /\ ui'.page \notin Public =>
               ui'.account /\ ui'.load = "DONE"
          /\ ShowsSkeleton(ui) /\ ~ ShowsSkeleton(ui') /\ ui.since = "RUNNING" =>
               \/ ui.watchdog /\ ui'.page = ui.page
               \/ ui'.reduced
               \/ ui'.page \in Public /\ ~ ui'.checked ]_ui
  <2> SUFFICES ASSUME UiRules(ui), [SkeletonNext]_skeletonVars, ui' # ui
               PROVE  /\ ~ ShowsSkeleton(ui') /\ ui'.page \notin Public =>
                           ui'.account /\ ui'.load = "DONE"
                      /\ ShowsSkeleton(ui) /\ ~ ShowsSkeleton(ui') /\ ui.since = "RUNNING" =>
                           \/ ui.watchdog /\ ui'.page = ui.page
                           \/ ui'.reduced
                           \/ ui'.page \in Public /\ ~ ui'.checked
    OBVIOUS
  <2>1. UiRules(ui') /\ StandsOn
    BY SkeletonStepStands
  <2> QED
    BY <2>1 DEF UiRules, OwnData, StandsOn, ShowsSkeleton, Loading
<1> QED
  BY <1>1, <1>2, <1>3, PTL DEF SkeletonSpec, SkeletonStandsItsTime

=============================================================================
