--------------------------- MODULE TransferToasts ---------------------------
(***************************************************************************)
(* What the players and the bank are told of a transfer or a toll.         *)
(*                                                                         *)
(* A committed transfer is told by three kinds of toast: the local one     *)
(* that answers the payer's own call, the events of the transfer's life    *)
(* (requested, approved, rejected, failed), and the event of the funds     *)
(* that moved. After its commit a call builds the events from the rows as  *)
(* they are by then, sends them to the sessions concerned, and answers     *)
(* last. Nothing is sent twice, nothing is kept for a tab that is away,    *)
(* and what could not be built is logged and never sent.                   *)
(* A tab drops what is for another view than its page's, buffers what      *)
(* comes before its view is there, and shows a toast with an id it has     *)
(* seen only once, until it opens another page.                            *)
(*                                                                         *)
(* The queue that shows one toast for three seconds at a time is left out: *)
(* a toast counts as told when the queue takes it. Toasts without an id    *)
(* are not recorded, they are never merged with another.                   *)
(***************************************************************************)
EXTENDS Naturals, FiniteSets

CONSTANTS
    Transfer,     \* transfers, and tolls, each an intent of the payer
    Payer,        \* the tab of the player who pays
    Receiver,     \* the tab of the player who may be paid; one of the two has the bank
    MaxTries,     \* bound: calls for one transfer, by the payer and by the bank
    MaxBreaks     \* bound: pages opened, and connections, processes and events lost

ASSUME ToastAssumption == {MaxTries, MaxBreaks} \subseteq Nat /\ Payer # Receiver

VARIABLES
    bank,         \* the tab of the member who is the bank
    approval,     \* Room.transferApprovalRequired
    transfers,    \* the rows of each transfer, the payer's pending intent, and
                  \* what has been logged instead of told of it ("dropped")
    calls,        \* calls of the API that are open
    dispatches,   \* events to be built and sent by calls that have committed or failed
    air,          \* events under way to each tab
    screens,      \* the memory of each tab
    breaks        \* bounded by MaxBreaks

toastVars == <<bank, approval, transfers, calls, dispatches, air, screens, breaks>>

Screen == {Payer, Receiver}

\* a fine is a transfer that may be reduced to nothing ("moved")
Form == {[kind |-> "TRANSFER", to |-> "PLAYER", moved |-> TRUE],
         [kind |-> "TRANSFER", to |-> "BANK", moved |-> TRUE],
         [kind |-> "TRANSFER", to |-> "BANK", moved |-> FALSE],
         [kind |-> "TOLL", to |-> "PLAYER", moved |-> TRUE]}

\* the pages of the room that have a view
Views(t) == {"PLAYER"} \cup (IF t = bank THEN {"BANK"} ELSE {})

Toast(x, what, audience) == [of |-> x, what |-> what, audience |-> audience]

\* a tab that is connected and on a page of the room, whose view it has or is
\* still reading
Opened == {c \in [page : {"PLAYER", "BANK"}, workbench : {"PLAYER", "BANK", "NONE"}, up : {TRUE},
                  buffer : {{}}, shown : {{}}, since : {{}}] : c.workbench \in {c.page, "NONE"}}

ToastsInit ==
    /\ bank \in Screen
    /\ approval \in BOOLEAN
    /\ transfers \in [Transfer -> {[form |-> f, status |-> "NONE", answer |-> "NONE",
                                    intent |-> "NONE", tries |-> 0, rulings |-> 0,
                                    dropped |-> {}] : f \in Form}]
    /\ calls = {}
    /\ dispatches = {}
    /\ air = [t \in Screen |-> {}]
    /\ screens \in {s \in [Screen -> Opened] : \A t \in Screen : s[t].page \in Views(t)}
    /\ breaks = 0

-----------------------------------------------------------------------------
(* The queue and the buffer of a tab.                                      *)

\* enqueue: a toast whose id has been seen is dropped, "shown" is a set
Enqueued(c, toast) == [c EXCEPT !.shown = @ \cup {toast}]

RoutedImpatiently(c, e) ==
    IF e.audience # c.page \/ c.workbench # c.page THEN c ELSE Enqueued(c, e)

\* routeRealtimeToast; a page without a view ignores everything
Routed(c, e) ==
    IF e.audience # c.page THEN c
    ELSE IF c.workbench # c.page THEN [c EXCEPT !.buffer = @ \cup {e}]
    ELSE Enqueued(c, e)

\* pendingRealtimeToastInput and the effect that flushes the buffer when the
\* workbench changes
Flushed(c) ==
    [c EXCEPT !.buffer = {},
              !.shown = @ \cup {e \in c.buffer : e.audience = c.workbench}]

\* beginRoomTransition: the queue and the buffer are emptied
Cleared(c) == [c EXCEPT !.buffer = {}, !.shown = {}, !.since = {}]

-----------------------------------------------------------------------------
(* The events, built from the rows as they are when the builder reads them.*)

IsLifecycleTransferToPlayer(f) == f.kind = "TRANSFER" /\ f.to = "PLAYER"

\* isLifecycleTransfer: the payer of a transfer is told by its own toasts
IsLifecycleTransfer(f) == f.kind = "TRANSFER"

ToBank(x, what) == [to |-> bank, toast |-> Toast(x, what, "BANK")]
ToPlayer(t, x, what) == [to |-> t, toast |-> Toast(x, what, "PLAYER")]

Given(holds, events) == IF holds THEN events ELSE {}

\* buildFundToastDeliveries
FundDeliveries(x, f) ==
    Given(f.moved, {ToBank(x, "FUNDS")}
                   \cup Given(~ IsLifecycleTransfer(f), {ToPlayer(Payer, x, "FUNDS")})
                   \cup Given(f.to = "PLAYER", {ToPlayer(Receiver, x, "FUNDS")}))

\* the builders by the kind of notice; each looks at the request again
Deliveries(n) ==
    LET x == n.of
        status == transfers[x].status
    IN CASE n.kind = "FUNDS" -> FundDeliveries(x, transfers[x].form)
         [] n.kind = "REQUESTED" -> Given(status = "PENDING", {ToBank(x, "REQUESTED")})
         [] n.kind = "APPROVED" -> Given(status = "EXECUTED", {ToPlayer(Payer, x, "APPROVED")})
         [] n.kind = "REJECTED" -> Given(status = "REJECTED", {ToPlayer(Payer, x, "REJECTED")})
         [] n.kind = "SUBMISSION_FAILED" -> {ToBank(x, "SUBMISSION_FAILED")}
         [] n.kind = "APPROVAL_FAILED" ->
              Given(status = "PENDING", {ToPlayer(Payer, x, "APPROVAL_FAILED")})

besidesSending == <<bank, approval, transfers, calls, screens, breaks>>

Build(n) ==
    /\ n.stage = "DUE"
    /\ dispatches' = (dispatches \ {n})
                       \cup {[n EXCEPT !.stage = "BUILT", !.events = Deliveries(n)]}
    /\ UNCHANGED <<besidesSending, air>>

\* the catch blocks of the notifier: the database does not answer the builder,
\* onError logs it, and the call goes on to its answer
BuildFails(n) ==
    /\ n.stage = "DUE"
    /\ breaks < MaxBreaks
    /\ breaks' = breaks + 1
    /\ dispatches' = dispatches \ {n}
    /\ transfers' = [transfers EXCEPT ![n.of].dropped = @ \cup {n.kind}]
    /\ UNCHANGED <<bank, approval, calls, screens, air>>

\* createPostCommitToastNotifier: emit, to the sockets of a session, if any
Emit(n) ==
    /\ n.stage = "BUILT"
    /\ air' = [t \in Screen |-> IF screens[t].up
                                THEN air[t] \cup {d.toast : d \in {e \in n.events : e.to = t}}
                                ELSE air[t]]
    /\ dispatches' = dispatches \ {n}
    /\ UNCHANGED besidesSending

-----------------------------------------------------------------------------
(* Calls. "waits": whether the tab still waits for the answer, or the page *)
(* that sent it is gone, or the connection was lost.                       *)

OpenCall(op, x) == [op |-> op, of |-> x, stage |-> "SENT", result |-> "NONE", waits |-> "HERE"]

Notice(c, kind) ==
    [op |-> c.op, of |-> c.of, kind |-> kind, stage |-> "DUE", events |-> {}]

\* the work is done or refused, and its notices are sent before the answer
Worked(c, result, kinds) ==
    /\ calls' = (calls \ {c}) \cup {[c EXCEPT !.stage = "WORKED", !.result = result]}
    /\ dispatches' = dispatches \cup {Notice(c, k) : k \in kinds}

callRest == <<bank, approval, air, screens, breaks>>

\* transfer and payToll: the mode is read in the transaction
SubmitTransfer(c, x) ==
    /\ c.op = "SUBMIT"
    /\ transfers[x].answer = "NONE"
    /\ IF approval /\ transfers[x].form.kind # "TOLL"
       THEN /\ transfers' = [transfers EXCEPT ![x].status = "PENDING", ![x].answer = "PENDING"]
            /\ Worked(c, "PENDING", {"REQUESTED"})
       ELSE /\ transfers' = [transfers EXCEPT ![x].status = "EXECUTED", ![x].answer = "EXECUTED"]
            /\ Worked(c, "EXECUTED", {"FUNDS"})

\* the key has been answered: the recorded answer, and no notice
ReplayTransfer(c, x) ==
    /\ c.op = "SUBMIT"
    /\ transfers[x].answer # "NONE"
    /\ Worked(c, transfers[x].answer, {})
    /\ UNCHANGED transfers

\* refused, before the key is looked up or after; the bank hears of it when
\* the transaction has seen that transfers need approval
RefuseSubmit(c, x) ==
    /\ c.op = "SUBMIT"
    /\ \E observed \in BOOLEAN :
         Worked(c, "FAILED", IF observed /\ approval /\ transfers[x].form.kind # "TOLL"
                             THEN {"SUBMISSION_FAILED"} ELSE {})
    /\ UNCHANGED transfers

Approve(c, x) ==
    /\ c.op = "APPROVE"
    /\ transfers[x].status = "PENDING"
    /\ transfers' = [transfers EXCEPT ![x].status = "EXECUTED"]
    /\ Worked(c, "EXECUTED", {"FUNDS", "APPROVED"})

\* approved already: the request as it is, and no notice
ApproveAgain(c, x) ==
    /\ c.op = "APPROVE"
    /\ transfers[x].status = "EXECUTED"
    /\ Worked(c, "EXECUTED", {})
    /\ UNCHANGED transfers

RefuseApproval(c, x) ==
    /\ c.op = "APPROVE"
    /\ Worked(c, "FAILED", {"APPROVAL_FAILED"})
    /\ UNCHANGED transfers

RejectTransfer(c, x) ==
    /\ c.op = "REJECT"
    /\ transfers[x].status = "PENDING"
    /\ transfers' = [transfers EXCEPT ![x].status = "REJECTED"]
    /\ Worked(c, "REJECTED", {"REJECTED"})

RefuseRejection(c, x) ==
    /\ c.op = "REJECT"
    /\ Worked(c, "FAILED", {})
    /\ UNCHANGED transfers

ServeCall(c) ==
    /\ c.stage = "SENT"
    /\ \/ SubmitTransfer(c, c.of)
       \/ ReplayTransfer(c, c.of)
       \/ RefuseSubmit(c, c.of)
       \/ Approve(c, c.of)
       \/ ApproveAgain(c, c.of)
       \/ RefuseApproval(c, c.of)
       \/ RejectTransfer(c, c.of)
       \/ RefuseRejection(c, c.of)
    /\ UNCHANGED callRest

\* reverseLatest
ReverseTransfer(x) ==
    /\ transfers[x].status = "EXECUTED"
    /\ transfers' = [transfers EXCEPT ![x].status = "REVERSED"]
    /\ UNCHANGED <<calls, dispatches, callRest>>

\* updateAdminRoom
SwitchMode ==
    /\ breaks < MaxBreaks
    /\ breaks' = breaks + 1
    /\ approval' = ~ approval
    /\ UNCHANGED <<bank, transfers, calls, dispatches, air, screens>>

-----------------------------------------------------------------------------
(* The tabs.                                                               *)

On(t, view) == screens[t].page = view /\ screens[t].workbench = view

\* run: a tab has one write open at a time
Caller(c) == IF c.op = "SUBMIT" THEN Payer ELSE bank
Busy(t) == \E c \in calls : c.waits = "HERE" /\ Caller(c) = t

Present(x) == [t \in Screen |-> IF screens[t].up
                                THEN [screens[t] EXCEPT !.since = @ \cup {x}] ELSE screens[t]]

\* submitTransfer, payLandingToll; pressed again, the intent keeps its key
PressTransfer(x) ==
    /\ transfers[x].intent \in {"NONE", "OPEN"}
    /\ transfers[x].tries < MaxTries
    /\ On(Payer, "PLAYER")
    /\ ~ Busy(Payer)
    /\ \A c \in calls : c.of = x => c.op # "SUBMIT"
    /\ calls' = calls \cup {OpenCall("SUBMIT", x)}
    /\ transfers' = [transfers EXCEPT ![x].intent = "OPEN", ![x].tries = @ + 1]
    /\ screens' = IF transfers[x].intent = "NONE" THEN Present(x) ELSE screens
    /\ UNCHANGED <<bank, approval, dispatches, air, breaks>>

\* approve and rejectRequest
Rule(x, op) ==
    /\ transfers[x].answer = "PENDING"
    /\ transfers[x].rulings < MaxTries
    /\ On(bank, "BANK")
    /\ ~ Busy(bank)
    /\ \A c \in calls : c.of = x => c.op # op
    /\ calls' = calls \cup {OpenCall(op, x)}
    /\ transfers' = [transfers EXCEPT ![x].rulings = @ + 1]
    /\ UNCHANGED <<dispatches, callRest>>

\* playerTransferFeedback and bankTransferApprovalFeedback, the toasts with
\* an id: the result of a transfer, and the failure of an approval
Feedback(c) ==
    IF c.op = "SUBMIT" /\ c.result = "EXECUTED" /\ transfers[c.of].form.kind # "TOLL"
    THEN {Toast(c.of, "RESULT", "PLAYER")}
    ELSE IF c.op = "SUBMIT" /\ c.result = "PENDING" THEN {Toast(c.of, "SUBMITTED", "PLAYER")}
    ELSE IF c.op = "APPROVE" /\ c.result = "FAILED" THEN {Toast(c.of, "APPROVAL_FAILED", "BANK")}
    ELSE {}

\* the answer reaches the tab; runGameAction confirms the key of a success,
\* and the toast is shown if the page is still the one that sent the call
HearAnswer(c) ==
    /\ c.stage = "WORKED"
    /\ \A n \in dispatches : n.of = c.of => n.op # c.op
    /\ calls' = calls \ {c}
    /\ transfers' = IF c.op = "SUBMIT" /\ c.result # "FAILED" /\ c.waits # "LOST"
                    THEN [transfers EXCEPT ![c.of].intent = "CONFIRMED"] ELSE transfers
    /\ screens' = IF c.waits = "HERE" /\ Feedback(c) # {}
                  THEN [screens EXCEPT ![Caller(c)] =
                          Enqueued(@, CHOOSE toast \in Feedback(c) : TRUE)]
                  ELSE screens
    /\ UNCHANGED <<bank, approval, dispatches, air, breaks>>

\* the connection of a call is lost; the tab reports a failure, the server
\* goes on
LoseAnswer(c) ==
    /\ c.waits = "HERE"
    /\ breaks < MaxBreaks
    /\ breaks' = breaks + 1
    /\ calls' = (calls \ {c}) \cup {[c EXCEPT !.waits = "LOST"]}
    /\ UNCHANGED <<bank, approval, transfers, dispatches, air, screens>>

\* onRoomToast
HearToast(t, e) ==
    /\ air' = [air EXCEPT ![t] = @ \ {e}]
    /\ screens' = [screens EXCEPT ![t] = Routed(@, e)]
    /\ UNCHANGED <<bank, approval, transfers, calls, dispatches, breaks>>

\* openGame: the snapshot is there, the view is shown
OpenView(t) ==
    /\ screens[t].page # "AWAY"
    /\ screens[t].workbench # screens[t].page
    /\ screens' = [screens EXCEPT ![t] = Flushed([@ EXCEPT !.workbench = screens[t].page])]
    /\ UNCHANGED <<bank, approval, transfers, calls, dispatches, air, breaks>>

ConnectScreen(t) ==
    /\ ~ screens[t].up
    /\ screens' = [screens EXCEPT ![t].up = TRUE]
    /\ UNCHANGED <<bank, approval, transfers, calls, dispatches, air, breaks>>

Entering(t, page) ==
    /\ page # screens[t].page
    /\ page \in Views(t) \cup {"AWAY"}

\* another page of the room within the component: its view stays until the
\* new one is there
TurnPage(t, page) ==
    /\ Entering(t, page)
    /\ screens[t].page = "AWAY" \/ breaks < MaxBreaks
    /\ breaks' = IF screens[t].page = "AWAY" THEN breaks ELSE breaks + 1
    /\ screens' = [screens EXCEPT ![t] = [Cleared(@) EXCEPT !.page = page]]
    /\ UNCHANGED <<bank, approval, transfers, calls, dispatches, air>>

\* finishRoom begins a transition before its write; when it is refused, the
\* page stays
RefuseFinish ==
    /\ On(bank, "BANK")
    /\ ~ Busy(bank)
    /\ breaks < MaxBreaks
    /\ breaks' = breaks + 1
    /\ screens' = [screens EXCEPT ![bank] = Cleared(@)]
    /\ UNCHANGED <<bank, approval, transfers, calls, dispatches, air>>

\* a page in a new component, whose socket is a new one too; what the old one
\* waits for is only confirmed
RemountPage(t, page) ==
    /\ Entering(t, page)
    /\ screens[t].page # "AWAY"
    /\ breaks < MaxBreaks
    /\ breaks' = breaks + 1
    /\ screens' = [screens EXCEPT ![t] = [Cleared(@) EXCEPT !.page = page, !.workbench = "NONE",
                                                            !.up = FALSE]]
    /\ air' = [air EXCEPT ![t] = {}]
    /\ calls' = {IF c.waits = "HERE" /\ Caller(c) = t THEN [c EXCEPT !.waits = "GONE"] ELSE c :
                   c \in calls}
    /\ UNCHANGED <<bank, approval, transfers, dispatches>>

BreakConnection(t) ==
    /\ screens[t].up
    /\ breaks < MaxBreaks
    /\ breaks' = breaks + 1
    /\ screens' = [screens EXCEPT ![t].up = FALSE, ![t].since = {}]
    /\ air' = [air EXCEPT ![t] = {}]
    /\ UNCHANGED <<bank, approval, transfers, calls, dispatches>>

\* the API process dies: what it had not sent is lost
CrashServer ==
    /\ breaks < MaxBreaks
    /\ breaks' = breaks + 1
    /\ screens' = [t \in Screen |-> [screens[t] EXCEPT !.up = FALSE, !.since = {}]]
    /\ air' = [t \in Screen |-> {}]
    /\ calls' = {}
    /\ dispatches' = {}
    /\ UNCHANGED <<bank, approval, transfers>>

ToastsNext ==
    \/ \E n \in dispatches : Build(n) \/ BuildFails(n) \/ Emit(n)
    \/ \E c \in calls : ServeCall(c) \/ HearAnswer(c) \/ LoseAnswer(c)
    \/ \E x \in Transfer : PressTransfer(x) \/ ReverseTransfer(x)
    \/ \E x \in Transfer, op \in {"APPROVE", "REJECT"} : Rule(x, op)
    \/ SwitchMode
    \/ \E t \in Screen : OpenView(t) \/ ConnectScreen(t) \/ BreakConnection(t)
    \/ \E t \in Screen : \E e \in air[t] : HearToast(t, e)
    \/ \E t \in Screen, page \in {"PLAYER", "BANK", "AWAY"} :
         TurnPage(t, page) \/ RemountPage(t, page)
    \/ RefuseFinish
    \/ CrashServer

ToastsSpec == ToastsInit /\ [][ToastsNext]_toastVars

-----------------------------------------------------------------------------
(* The properties.                                                         *)

Money(toast) == toast.what \in {"RESULT", "APPROVED", "FUNDS"}

\* Between two pages a tab tells of the money of a transfer at most once as
\* the player's and once as the bank's news, although the answer of the call,
\* the event of the approval and the event of the funds all carry it, calls
\* are repeated, and buffered events are flushed late.
MoneyToldOnce ==
    \A t \in Screen, x \in Transfer, audience \in {"PLAYER", "BANK"} :
      Cardinality({toast \in screens[t].shown : /\ toast.of = x
                                                /\ toast.audience = audience
                                                /\ Money(toast)}) <= 1

NothingUnderWay(t) ==
    /\ calls = {}
    /\ dispatches = {}
    /\ air[t] = {}
    /\ screens[t].page # "AWAY"
    /\ screens[t].workbench = screens[t].page

Told(t, x, what) == \E toast \in screens[t].shown : toast.of = x /\ toast.what \in what

\* the event was built and sent: its toast has been shown, unless the builder
\* failed and the log has it
EventTold(t, x, kind) == Told(t, x, {kind}) \/ kind \in transfers[x].dropped

\* A tab that has kept its page and its connection since the transfer was
\* asked for has been told what became of it, once nothing is under way: the
\* payer of the money or of the rejection, the receiver and the bank of the
\* money. What a builder has dropped costs the one event it was to build and
\* no other. Suppressing the payer's event of the funds leaves nobody out but
\* the payer who has lost the answer of a transfer executed at once: he has
\* been told of a failure, and the key is kept for him to try again.
OutcomeTold ==
    \A t \in Screen : NothingUnderWay(t) =>
      \A x \in screens[t].since :
        /\ transfers[x].status = "EXECUTED" /\ transfers[x].form.moved =>
             /\ On(t, "PLAYER") /\ t = Payer =>
                  CASE transfers[x].form.kind = "TOLL" -> EventTold(t, x, "FUNDS")
                    [] transfers[x].answer = "PENDING" -> EventTold(t, x, "APPROVED")
                    [] OTHER -> Told(t, x, {"RESULT"}) \/ transfers[x].intent = "OPEN"
             /\ On(t, "PLAYER") /\ t = Receiver /\ transfers[x].form.to = "PLAYER" =>
                  EventTold(t, x, "FUNDS")
             /\ On(t, "BANK") => EventTold(t, x, "FUNDS")
        /\ transfers[x].status = "REJECTED" /\ On(t, "PLAYER") /\ t = Payer =>
             EventTold(t, x, "REJECTED")
=============================================================================
