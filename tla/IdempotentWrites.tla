-------------------------- MODULE IdempotentWrites --------------------------
(***************************************************************************)
(* How one write of a user reaches the room once, over a browser that      *)
(* forgets or repeats, a network that loses answers, an API process that   *)
(* may die and a database that aborts transactions.                        *)
(*                                                                         *)
(* A browser tab remembers an Idempotency-Key per intent until it knows    *)
(* that the write was applied. The API runs the write in a transaction     *)
(* that looks the key up, works, and records its answer under the key, and *)
(* repeats transactions the database aborts. The services do this in eight *)
(* slightly different ways, the endpoints below; an intent is named by the *)
(* endpoint it uses, and all calls are about one room.                     *)
(*                                                                         *)
(* The database is PostgreSQL. A SERIALIZABLE transaction sees the rows of *)
(* the moment it began: when it gets the lock of a room row that somebody  *)
(* has updated since, it is aborted, and when the row was only locked it   *)
(* goes on with its old view. A READ COMMITTED one sees what is committed  *)
(* when it reads. The key is unique in the table either way.               *)
(***************************************************************************)
EXTENDS Naturals, Sequences, FiniteSets

CONSTANTS
    Tab,        \* browser tabs, each of an account of its own
    Intent,     \* the endpoints users write to
    Call,       \* HTTP calls that may be open at a time
    NoCall,     \* no call
    Attempts,   \* how often a transaction is tried
    Reads,      \* how often a conflicting call looks for a recorded answer
    MaxKeys,    \* bound: keys a behaviour may use
    MaxPages,   \* bound: times a tab may lose its memory
    MaxOthers   \* bound: the version up to which others write to the room

Endpoint == {"GAME", "REQUEST", "SEAT", "JOIN", "SWAP", "FINISH", "ADMIN", "REMOVE"}

ASSUME EndpointAssumption == Intent \subseteq Endpoint

ASSUME CallAssumption == NoCall \notin Call

ASSUME BoundAssumption ==
    /\ Attempts \in Nat \ {0}
    /\ Reads \in Nat \ {0}
    /\ MaxKeys \in Nat
    /\ MaxPages \in Nat
    /\ MaxOthers \in Nat

-----------------------------------------------------------------------------
(* Endpoints. "snapshot": SERIALIZABLE transactions; "retries" and          *)
(* "recovers": the conflicts that are tried again, and those after which    *)
(* the recorded answer is looked for; "locked": that look is a SERIALIZABLE *)
(* transaction that locks the room; "rereads": why it is repeated; "quiet": *)
(* a write may leave the version of the room alone; "refusals": a refusal   *)
(* is recorded; "sure": the tab forgets the key as soon as it hears of      *)
(* success.                                                                 *)

Conflict == {"SERIAL", "UNIQUE"}

\* PrismaGameService.executeIdempotent
GamePolicy ==
    [snapshot |-> TRUE, retries |-> Conflict, recovers |-> Conflict, locked |-> TRUE,
     rereads |-> {"MISSING"}, quiet |-> TRUE, refusals |-> FALSE, sure |-> TRUE]

\* createRequest and requestBankPayment: the GameRequest row is the record
RequestPolicy == [GamePolicy EXCEPT !.retries = {}, !.quiet = FALSE]

\* AccountRoomService.executeIdempotent about a room
SeatPolicy ==
    [snapshot |-> FALSE, retries |-> {"SERIAL"}, recovers |-> {"UNIQUE"}, locked |-> FALSE,
     rereads |-> {"MISSING"}, quiet |-> TRUE, refusals |-> FALSE, sure |-> FALSE]

JoinPolicy == [SeatPolicy EXCEPT !.refusals = TRUE]

\* executeControlledIdempotent
SwapPolicy ==
    [snapshot |-> TRUE, retries |-> {"SERIAL"}, recovers |-> {"UNIQUE"}, locked |-> TRUE,
     rereads |-> {"SERIAL"}, quiet |-> FALSE, refusals |-> FALSE, sure |-> FALSE]

FinishPolicy == SwapPolicy

\* executeAdminWrite
AdminPolicy == [SwapPolicy EXCEPT !.rereads = {}, !.quiet = TRUE]

\* executeAdminWrite without retrySerialization
RemovePolicy == [AdminPolicy EXCEPT !.retries = {}, !.recovers = Conflict]

Policy == [GAME |-> GamePolicy, REQUEST |-> RequestPolicy, SEAT |-> SeatPolicy,
           JOIN |-> JoinPolicy, SWAP |-> SwapPolicy, FINISH |-> FinishPolicy,
           ADMIN |-> AdminPolicy, REMOVE |-> RemovePolicy]

-----------------------------------------------------------------------------
VARIABLES
    pending,     \* the key each tab keeps for an intent, 0 for none
    awaited,     \* the call a tab is busy with
    confirming,  \* successes a tab has heard of and not yet confirmed
    page,        \* how often a tab has lost its memory
    issued,      \* whose key is whose, in the order they were made
    call,        \* the HTTP calls
    version,     \* Room.stateVersion
    record,      \* the answer recorded under each key
    applied,     \* how often the work of each key has been committed
    notified     \* how often the room has been told of it

tabVars == <<pending, awaited, confirming, page, issued>>
roomVars == <<version, record, applied>>
vars == <<tabVars, call, roomVars, notified>>

Key == 1..MaxKeys

Answer == [code : {"NONE", "OK", "REFUSED", "AUTH", "CONFLICT"}, version : Nat]
None == [code |-> "NONE", version |-> 0]
Error(code) == [code |-> code, version |-> 0]

\* READY: on the wire, or to be tried again; BEGUN: its transaction has
\* taken its view of the database; COMMITTED: committed and not yet
\* notified; RECOVER, READING: the same two stages of looking for a record;
\* ANSWERED: the answer is on the wire
AtServer == {"READY", "BEGUN", "COMMITTED", "RECOVER", "READING"}

\* "tries": transactions already aborted in this loop; "sees", "at": the
\* view of the open transaction, records and version
CallRow == [stage : AtServer \cup {"ANSWERED"}, tab : Tab, intent : Intent, key : Key,
            tries : Nat, sees : SUBSET Key, at : Nat, answer : Answer]

FreeCall == [stage |-> "FREE"]

At(x, stage) ==
    [call[x] EXCEPT !.stage = stage, !.tries = 0, !.sees = {}, !.at = 0]

Init ==
    /\ pending = [t \in Tab |-> [i \in Intent |-> 0]]
    /\ awaited = [t \in Tab |-> NoCall]
    /\ confirming = [t \in Tab |-> {}]
    /\ page = [t \in Tab |-> 0]
    /\ issued = <<>>
    /\ call = [x \in Call |-> FreeCall]
    /\ version = 0
    /\ record = [k \in Key |-> None]
    /\ applied = [k \in Key |-> 0]
    /\ notified = [k \in Key |-> 0]

-----------------------------------------------------------------------------
(* The tab: useStableWrite, run and the handlers around them.              *)

Free(t) == awaited[t] = NoCall
KeyFor(t, i) == IF pending[t][i] # 0 THEN pending[t][i] ELSE Len(issued) + 1

\* write: an intent gets a key that is used until it is confirmed; a tab
\* that is busy with another call sends nothing
Submit(t, i) ==
    /\ KeyFor(t, i) \in Key
    /\ pending' = [pending EXCEPT ![t][i] = KeyFor(t, i)]
    /\ issued' = IF pending[t][i] # 0 THEN issued
                 ELSE Append(issued, [tab |-> t, intent |-> i, page |-> page[t]])
    /\ IF Free(t)
       THEN \E x \in Call :
              /\ call[x].stage = "FREE"
              /\ call' = [call EXCEPT ![x] =
                     [stage |-> "READY", tab |-> t, intent |-> i, key |-> KeyFor(t, i),
                      tries |-> 0, sees |-> {}, at |-> 0, answer |-> None]]
              /\ awaited' = [awaited EXCEPT ![t] = x]
       ELSE UNCHANGED <<call, awaited>>
    /\ UNCHANGED <<confirming, page, roomVars, notified>>

\* the connection breaks: the tab sees an error; what is on the wire is
\* lost or arrives late, and a call the API works on lives on
LoseConnection(t) ==
    /\ ~ Free(t)
    /\ awaited' = [awaited EXCEPT ![t] = NoCall]
    /\ \/ /\ call[awaited[t]].stage \in {"READY", "ANSWERED"}
          /\ call' = [call EXCEPT ![awaited[t]] = FreeCall]
       \/ /\ call[awaited[t]].stage # "ANSWERED"
          /\ UNCHANGED call
    /\ UNCHANGED <<pending, confirming, page, issued, roomVars, notified>>

NoIntents == [i \in Intent |-> 0]

HearAnything(t, i, k, answer) ==
    /\ awaited' = [awaited EXCEPT ![t] = NoCall]
    /\ confirming' = [confirming EXCEPT ![t] = @ \cup {<<i, k>>}]
    /\ pending' = IF answer.code = "AUTH" THEN [pending EXCEPT ![t] = NoIntents] ELSE pending
    /\ page' = IF answer.code = "AUTH" THEN [page EXCEPT ![t] = @ + 1] ELSE page

\* only success makes a key confirmable, a lost session drops all keys
Hear(t, i, k, answer) ==
    /\ awaited' = [awaited EXCEPT ![t] = NoCall]
    /\ confirming' = IF answer.code = "OK"
                     THEN [confirming EXCEPT ![t] = @ \cup {<<i, k>>}] ELSE confirming
    /\ pending' = IF answer.code = "AUTH" THEN [pending EXCEPT ![t] = NoIntents] ELSE pending
    /\ page' = IF answer.code = "AUTH" THEN [page EXCEPT ![t] = @ + 1] ELSE page

Deliver(x) ==
    /\ call[x].stage = "ANSWERED"
    /\ awaited[call[x].tab] = x
    /\ call[x].answer.code = "AUTH" => page[call[x].tab] < MaxPages
    /\ Hear(call[x].tab, call[x].intent, call[x].key, call[x].answer)
    /\ call' = [call EXCEPT ![x] = FreeCall]
    /\ UNCHANGED <<issued, roomVars, notified>>

\* confirm: the view has been refreshed, the key is forgotten unless the
\* intent has got a newer one
Confirm(t, w) ==
    /\ w \in confirming[t]
    /\ confirming' = [confirming EXCEPT ![t] = @ \ {w}]
    /\ pending' = IF pending[t][w[1]] = w[2] THEN [pending EXCEPT ![t][w[1]] = 0] ELSE pending
    /\ UNCHANGED <<awaited, page, issued, call, roomVars, notified>>

\* the view could not be refreshed: the key stays, though it was applied
LeaveUnconfirmed(t, w) ==
    /\ w \in confirming[t]
    /\ ~ Policy[w[1]].sure
    /\ confirming' = [confirming EXCEPT ![t] = @ \ {w}]
    /\ UNCHANGED <<pending, awaited, page, issued, call, roomVars, notified>>

\* logout: the keys are dropped; a tab that is busy drops them without
\* asking the API, and handlers that wait go on
Logout(t) ==
    /\ page[t] < MaxPages
    /\ page' = [page EXCEPT ![t] = @ + 1]
    /\ pending' = [pending EXCEPT ![t] = NoIntents]
    /\ UNCHANGED <<awaited, confirming, issued, call, roomVars, notified>>

\* the page is loaded again, which breaks its connections first: nothing of
\* its memory is left
Reload(t) ==
    /\ page[t] < MaxPages
    /\ Free(t)
    /\ page' = [page EXCEPT ![t] = @ + 1]
    /\ pending' = [pending EXCEPT ![t] = NoIntents]
    /\ confirming' = [confirming EXCEPT ![t] = {}]
    /\ UNCHANGED <<awaited, issued, call, roomVars, notified>>

-----------------------------------------------------------------------------
(* The API: one call at a time, the transaction from its lock to its commit *)
(* in one step, since everybody else waits for the room's row.              *)

PolicyOf(x) == Policy[call[x].intent]
Recorded == {k \in Key : record[k] # None}

\* a transaction begins, and a SERIALIZABLE one takes its view
Begin(x) ==
    /\ call[x].stage \in {"READY", "RECOVER"}
    /\ call' = [call EXCEPT ![x].stage = IF @ = "RECOVER" THEN "READING" ELSE "BEGUN",
                            ![x].sees = Recorded,
                            ![x].at = version]
    /\ UNCHANGED <<tabVars, roomVars, notified>>

TakesView(x) == IF call[x].stage = "READING" THEN PolicyOf(x).locked ELSE PolicyOf(x).snapshot

\* the room's row was updated after the view was taken
Moved(x) == TakesView(x) /\ version # call[x].at

\* the transaction finds its key recorded
Found(x) == call[x].key \in (IF TakesView(x) THEN call[x].sees ELSE Recorded)

ReplyOfToday(x, answer) ==
    call' = [call EXCEPT ![x] =
        IF awaited[call[x].tab] = x
        THEN [At(x, "ANSWERED") EXCEPT !.answer = [answer EXCEPT !.version = version]]
        ELSE FreeCall]

\* an answer nobody waits for is dropped
Reply(x, answer) ==
    call' = [call EXCEPT ![x] =
        IF awaited[call[x].tab] = x
        THEN [At(x, "ANSWERED") EXCEPT !.answer = answer] ELSE FreeCall]

\* the authentication of the route, lockRoom and the authorisation that
\* precede the lookup: the session is gone, or the room, the seat or the
\* control of it
Unauthorised(x) ==
    /\ \/ call[x].stage = "BEGUN"
       \/ call[x].stage = "READING" /\ PolicyOf(x).locked
    /\ ~ Moved(x)
    /\ \E code \in {"AUTH", "REFUSED"} : Reply(x, Error(code))
    /\ UNCHANGED <<tabVars, roomVars, notified>>

\* replayRecord: the recorded answer and no work
Replay(x) ==
    /\ call[x].stage \in {"BEGUN", "READING"}
    /\ ~ Moved(x)
    /\ Found(x)
    /\ Reply(x, record[call[x].key])
    /\ UNCHANGED <<tabVars, roomVars, notified>>

\* the work throws a rule error; joinRoom commits the refusal instead
Refuse(x) ==
    /\ call[x].stage = "BEGUN"
    /\ ~ Moved(x)
    /\ ~ Found(x)
    /\ PolicyOf(x).refusals => record[call[x].key] = None
    /\ Reply(x, Error("REFUSED"))
    /\ record' = IF PolicyOf(x).refusals
                 THEN [record EXCEPT ![call[x].key] = Error("REFUSED")] ELSE record
    /\ UNCHANGED <<tabVars, version, applied, notified>>

RecordReplaced(x) == TRUE

\* the unique key of the record lets the insert pass
KeyIsNew(x) == record[call[x].key] = None

\* the work, the version of the room and the record are committed together
Commit(x) ==
    /\ call[x].stage = "BEGUN"
    /\ ~ Moved(x)
    /\ ~ Found(x)
    /\ KeyIsNew(x)
    /\ \E v \in {version + 1} \cup (IF PolicyOf(x).quiet THEN {version} ELSE {}) :
         /\ version' = v
         /\ record' = [record EXCEPT ![call[x].key] = [code |-> "OK", version |-> v]]
    /\ applied' = [applied EXCEPT ![call[x].key] = @ + 1]
    /\ call' = [call EXCEPT ![x] = At(x, "COMMITTED")]
    /\ UNCHANGED <<tabVars, notified>>

\* afterCommit, for the call that has done the work; the version notice a
\* route sends with every answer is not counted
Notify(x) ==
    /\ call[x].stage = "COMMITTED"
    /\ notified' = [notified EXCEPT ![call[x].key] = @ + 1]
    /\ Reply(x, record[call[x].key])
    /\ UNCHANGED <<tabVars, roomVars>>

AgainUncounted(x, stage) ==
    call' = [call EXCEPT ![x] = [At(x, stage) EXCEPT !.tries = call[x].tries]]

Again(x, stage) ==
    call' = [call EXCEPT ![x] = [At(x, stage) EXCEPT !.tries = call[x].tries + 1]]

\* the catch block
AfterConflict(x, kind) ==
    IF kind \in PolicyOf(x).retries /\ call[x].tries + 1 < Attempts
    THEN Again(x, "READY")
    ELSE IF kind \in PolicyOf(x).recovers
    THEN call' = [call EXCEPT ![x] = At(x, "RECOVER")]
    ELSE Reply(x, Error("CONFLICT"))

\* the database aborts the transaction: 40001 or a deadlock
Abort(x) ==
    /\ call[x].stage = "BEGUN"
    /\ AfterConflict(x, "SERIAL")
    /\ UNCHANGED <<tabVars, roomVars, notified>>

\* an insert meets a unique key: that of a record the transaction could not
\* see, or of a row its work inserts
Collide(x) ==
    /\ call[x].stage = "BEGUN"
    /\ ~ Moved(x)
    /\ ~ Found(x)
    /\ AfterConflict(x, "UNIQUE")
    /\ UNCHANGED <<tabVars, roomVars, notified>>

\* replayIdempotencyConflict and its like: look again, or give up
Reread(x, reason) ==
    IF reason \in PolicyOf(x).rereads /\ call[x].tries + 1 < Reads
    THEN Again(x, "RECOVER")
    ELSE Reply(x, Error("CONFLICT"))

ReadAborted(x) ==
    /\ call[x].stage = "READING"
    /\ TakesView(x)
    /\ Reread(x, "SERIAL")
    /\ UNCHANGED <<tabVars, roomVars, notified>>

ReadNothing(x) ==
    /\ call[x].stage = "READING"
    /\ ~ Moved(x)
    /\ ~ Found(x)
    /\ Reread(x, "MISSING")
    /\ UNCHANGED <<tabVars, roomVars, notified>>

\* a write of somebody whose tab is not modelled
OthersWrite ==
    /\ version < MaxOthers
    /\ version' = version + 1
    /\ UNCHANGED <<tabVars, call, record, applied, notified>>

\* the API process dies: what is not committed is rolled back
Crash ==
    /\ \E x \in Call : call[x].stage \in AtServer
    /\ call' = [x \in Call |-> IF call[x].stage \in AtServer THEN FreeCall ELSE call[x]]
    /\ awaited' = [t \in Tab |->
           IF awaited[t] # NoCall /\ call[awaited[t]].stage \in AtServer
           THEN NoCall ELSE awaited[t]]
    /\ UNCHANGED <<pending, confirming, page, issued, roomVars, notified>>

-----------------------------------------------------------------------------
TabStep(t) ==
    \/ \E i \in Intent : Submit(t, i)
    \/ LoseConnection(t)
    \/ \E w \in confirming[t] : Confirm(t, w) \/ LeaveUnconfirmed(t, w)
    \/ Logout(t)
    \/ Reload(t)

Serve(x) ==
    \/ Begin(x)
    \/ Unauthorised(x)
    \/ Replay(x)
    \/ Refuse(x)
    \/ Commit(x)
    \/ Notify(x)
    \/ Abort(x)
    \/ Collide(x)
    \/ ReadAborted(x)
    \/ ReadNothing(x)

Next ==
    \/ \E t \in Tab : TabStep(t)
    \/ \E x \in Call : Deliver(x) \/ Serve(x)
    \/ OthersWrite
    \/ Crash

Spec == Init /\ [][Next]_vars

\* the event loop goes on with a call it has received, and the lock of the
\* room is always released
FairSpec == Spec /\ \A x \in Call : WF_vars(Serve(x))

-----------------------------------------------------------------------------
\* Types of tabs, calls and records; never more keys than may be used.
TypeOK ==
    /\ pending \in [Tab -> [Intent -> Key \cup {0}]]
    /\ awaited \in [Tab -> Call \cup {NoCall}]
    /\ confirming \in [Tab -> SUBSET (Intent \X Key)]
    /\ page \in [Tab -> 0..MaxPages]
    /\ issued \in Seq([tab : Tab, intent : Intent, page : 0..MaxPages])
    /\ Len(issued) <= MaxKeys
    /\ call \in [Call -> CallRow \cup {FreeCall}]
    /\ version \in Nat
    /\ record \in [Key -> Answer]
    /\ applied \in [Key -> Nat]
    /\ notified \in [Key -> Nat]

\* However often a key is sent, lost, retried or aborted, its work is
\* committed at most once, and the room is told of it at most once, only
\* after the commit.
AtMostOnce == \A k \in Key : notified[k] <= applied[k] /\ applied[k] <= 1

\* Whoever hears of success hears of a write that is committed, and all hear
\* the same stateVersion, the one it was committed at.
AnswersAgree ==
    \A x \in Call :
      call[x].stage = "ANSWERED" /\ call[x].answer.code = "OK" =>
        /\ call[x].answer = record[call[x].key]
        /\ applied[call[x].key] = 1

\* A tab that keeps its memory sends an intent under a new key only after
\* the write of the old one is committed: pressing again after an error
\* never does the work twice.
LaterKeyMeansApplied ==
    \A a, b \in DOMAIN issued : a < b /\ issued[a] = issued[b] => applied[a] = 1

\* A call the API has begun is answered, whatever the database aborts, or
\* dies with the process: the attempts and looks are bounded.
EveryCallEnds ==
    \A x \in Call : call[x].stage \in AtServer ~> call[x].stage \notin AtServer
=============================================================================
