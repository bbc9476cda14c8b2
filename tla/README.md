# A verification project for monopoly-zhenhuan

TLA+ models, TLC runs and TLAPS proofs about the server that keeps the books of
a physical board game: every player has a phone, the bank has one too, and the
server records turns, landings, properties, requests and cash. The source is
under `src/`; all paths below are relative to that directory's parent.

`PROJECT.json` lists the components, the runs, which definition models which
lines (`map`), one mutation of the code per checked property (`mutants`), the
hazards and the theorems.

## 1. Inventory

The API is one Fastify + Socket.IO process over PostgreSQL (Prisma); the
database is the only persistent state. The web client is Next.js.

| component | source | state | operations | hard behaviours |
|---|---|---|---|---|
| Turns and landings | `prisma-game-service.ts` | Room.status, currentTurnPlayerId, Turn, LandingEvent, remainingSkipTurns, SkipTurnEntry | start, roll, endTurn, skipTurn, forceNext, invalidateRoll, declareLanding, declareStartLanding, confirmLanding, cancelLandingPropertyActions | a walk over several seats in one transaction; requests and tolls that depend on a landing that is replaced, closed or voided |
| Requests | same | GameRequest, RoomProperty.lockedByRequestId | createRequest (13 kinds), requestBankPayment, confirmTrade, approve, reject, five ways of cancelling | a long time between filing and approval, other commands in between; lock and request must be settled together |
| Money, tolls, reversal | same | Player.balance, GameTransaction and ledger entries, the toll's IdempotencyRecord | transfer, payToll, adjustBalance, adjustProperty, plotFine, addSkipTurns, consumeSkip, reverseLatest | reversal out of order; pay, reverse and pay again; freezing a toll |
| Settlement of a room | `account-room-service.ts` 2310-2480, `settlement.ts` | Room.status, settlement record | computeSettlement, finishRoom NORMAL and FORCED, rankSettlementPlayers | blockers read before the room is closed; ties |
| Idempotent execution | `prisma-game-service.ts` 1433-1586, `account-room-service.ts`, `app-router-client.tsx` 603-644 | IdempotencyRecord; in the tab: pendingWriteIntents | executeIdempotent (two of them), createRequest, joinRoom, executeControlledIdempotent, finishRoom, executeAdminWrite and their replays; the tab's write, confirm, clear | retries after serialization conflicts and unique violations, lost responses, the same key in two calls at a time, a refresh that fails after the write |
| Membership, seats, role swaps | `account-room-service.ts`, `room-admission.ts` | RoomMembership, Player, RoleSwapRequest, owners of the initial palaces | joinRoom, selectCharacter, selectBank, requestRoleSwap, acceptRoleSwap, resolveRoleSwap, removal and reassignment by the administrator, takeControl | waiting swaps while seats change; free colours and orders; rows of three tables that must agree |
| Accounts and sessions | `account-room-service.ts`, `auth-domain.ts` | Account, AccountSession | login, replaceOldestSession, expiry, revocation, logout, password resets, account status, deletion | a password that is verified before the transaction that uses it; at most two sessions |
| Trash and cleaner | `account-room-service.ts`, `room-trash-cleaner.ts` | Room.deletedAt, purgeAfter, the timer's scan | deleteRoom, restoreRoom, permanentlyDeleteRoom, purgeExpiredRooms | purge against restore; rooms that cannot be deleted; a process that dies |
| Realtime notification | `app.ts`, `realtime-toast-notifications.ts`, `toast-queue.ts`, `app-router-client.tsx` | sockets and their rooms, subscription intents, generations; in the tab: known version, snapshot, toast buffer | announcements after commit, subscribe, unsubscribe, evict, revoke; reads; toasts | lost or overtaken notices, authorisation long before the join, reconnection (`KNOWN_LIMITATIONS.md`) |
| Web client | `apps/web` | page, account, reads under way, timers | navigation, restoring the account, page reads, skeleton with watchdog | reads that overtake each other, a navigation that never ends |
| Routes, schema, seed | `app.ts`, `packages/database` | – | parsing, constraints | none of their own beyond the above |

How they interact: a route authenticates the session, calls one service method,
and after its commit emits a best-effort notice. A service method opens one
serializable transaction, locks the room row `FOR UPDATE`, authorises the actor,
looks for a recorded response of the same idempotency key, does its work, raises
`stateVersion` and records the response. Since every command on a room starts by
locking its row, committed commands of one room are totally ordered: **a
committed command is one step of the model, and a failed one is no step**.
Concurrency therefore shows as the order in which the commands of players, bank
and administrator commit, and in everything that spans several of them: a
request that waits for the bank, a landing that outlives its turn, a toll that
may still be reversed.

The correctness each component owes its users is listed under `hazards` in
`PROJECT.json`, with the properties that would catch it going wrong.

## 2. What is modelled

| module | models |
|---|---|
| `RoomState` | the rows of one room as variables; the private helpers: changeBalance and recordTransaction (`Commit`), skip entries (`Owe`, `Consume`), cancelPendingRequests (`CancelRequests`), which landings are live |
| `RoomTurns` | the turn and landing commands in both dice modes, and the walk of createNextActionableTurn |
| `RoomRequests` | filing, trade confirmation, approval (one action per request type) and rejection |
| `RoomMoney` | transfers, tolls, the bank's own changes, reversal with its candidate search |
| `GameRoom` | joining and finishing, and the composition of all commands: `Next`, `Spec` |
| `RoomSafety` | the properties |
| `RequestLifecycle` | the abstract specification of a request: filed once, settled once, in force exactly while EXECUTED |
| `MCGameRoom` | the small rooms TLC explores |
| `IdempotentWrites` | how one write of a user reaches the room once: tab, connection, API and database, for the eight ways the services execute a write |
| `RoomSeats` | who sits where: memberships, players, characters, the bank, initial palaces, swaps, the administrator's changes |
| `Accounts` | accounts, sessions, and logins in two parts: a verified password, and a transaction with its view of the database |
| `RoomTrash` | moving to the trash, restoring, deleting, and the cleaner's scan, room by room |
| `RoomChannel` | how a tab stays level with a room: writes and their announcements, the socket and its subscriptions, the tab's reads, its user's own writes |
| `TransferToasts` | what payer, receiver and bank are told of a transfer or toll: calls, builders, sockets, buffer and queue |
| `RouteSkeleton` | what a tab shows from page to page: navigation, restored account, reads, minimum time and watchdog |
| `SettlementRanking` | what a player is worth and where he stands, with a reference |
| `MCCallsAndTimers`, `MCPressedAgain`, `MCTabs`, `MCRoomSeats`, `MCChannel` | small instances of `IdempotentWrites` and the seven above |
| `GameRoomProof`, `DeedProof`, `LandingProof`, `LogProof` | the proofs about the room, each resting on the one before (section 5) |
| `IdempotentProof`, `AccountRoomProof`, `ChannelProof`, `ScreenProof` | the proofs about the other components: `AccountRoomProof` about `Accounts`, `RoomSeats` and `RoomTrash`, `ScreenProof` about `TransferToasts` and `RouteSkeleton` |

How state corresponds to code. Player `p` is the character seated at `turnOrder`
p. Ids of landings and requests come from finite sets; an unused id has status
`NONE`. `turn` and `log` are the Turn and GameTransaction rows in order of
`turnNumber` and `createdAt`. A transaction carries its ledger entries
(`delta`), the recorded faces of the property it changed, and the request and
landing it belongs to. `skip[p]` is the list of owed units of p's SkipTurnEntry
rows, oldest first, each with its `blocksTollCollection`. `settled[l]` is the
IdempotencyRecord `landing:<id>:toll` that payToll() uses as a settlement
record. The four `Max` constants bound the rows a behaviour may create; each is a
guard of the step that would pass it, and nothing else.

What is abstracted: names, notes, audit entries and notifications; the two dice
(a roll only sets `rolled`); the position on the board (a landing is declared
for any property); who asks (player, bank or administrator authority is checked
before the command and is not part of the room's rows).

Choices worth knowing when reading the model against the code:

- `createdAt` order is taken to be commit order. One API process and the room
  lock make it so unless the clock steps back.
- `playable` only grows: who has a character in a running room keeps it
  (`RemovableWhilePlaying`, and swaps are accepted in a lobby only). Who joins takes
  any order that is free: a new player gets the first, one who returns may have his
  old one.
- Open debts and waiting role swaps also block a normal finish. No code opens a
  debt, and start closes every swap while none can be filed afterwards, so that
  neither is ever met in a running room.
- invalidateRoll() has no check of the room's status of its own; its actor's
  authorisation refuses a finished room, which is the guard of `InvalidateRoll`.
- Approving a START_REWARD does not look at the landing with physical dice.
- addSkipTurns() rewards a cold-palace stay with a reversible transaction while
  an approved COLD_PALACE_EVENT is irreversible; neither reversal nor any other
  reversal gives back skip turns. Both are modelled as they are.
- The bank may void a landing whose toll is paid. The toll can then no longer be
  reversed, and in an electronic room the visitor may declare again in the same
  turn and pay again; `TollOnce` is per landing for that reason, and no property
  excludes the second payment.
- A deed locked by a request keeps its version; a forced finish raises it.

`IdempotentWrites` stands under the room modules: they take for granted that a
command is one step that happens once, and it shows why. An intent is named by
the endpoint it uses; `Policy` says in what the eight endpoints differ: isolation
level, which conflicts are tried again, after which the recorded answer is
looked for and how, whether refusals are recorded, and whether the tab forgets
a key when it hears of success or only after the view was refreshed. A
transaction is two steps, `Begin` (a serializable one takes its view of the
database) and its end, because the room's row is locked in between. The
database's part (`Moved`, `Abort`, `Collide`) is external: a transaction may be
aborted at any time, is aborted when the row it locks has been updated since
its view, and the unique key of the table holds. The payload check
(`assertRequestHash`) is left out: a key belongs to one intent, and the tab keeps
the payload with it. Two things worth knowing, both reachable in the model and
excluded by nothing in the repository: the handlers of seat, join and swap writes
keep the key when the seats cannot be fetched after success, so that the same
intent later in the session is answered by a replay; and `joinRoom` records
refusals, so that trying again repeats the old refusal until the tab loses its
memory. A call that is answered from a GameRequest row shows the row as it is
now; only its `stateVersion` is the recorded one.

### Seats, accounts, trash

`RoomSeats` has one action per service method, since each runs under the lock of
the room's row. One number, `seat`, stands for pawnColor and turnOrder: both are
the first free one of equally many, given at the same time. Somebody acts for
every active member here; which session may, is in `RoomChannel`. What the game
does to a palace is one action. A normal finish is blocked by an open swap or by a
character without its player, a forced one cancels the swaps. Three things the code has and the model cannot
reach are left out: the branch of executeSwap for running rooms, a swap that
waits for the bank (PENDING_BANK), and its approval; swaps are filed and accepted
in a lobby only, and nothing sets that status.

In `Accounts` a login reads the password first and opens its session in a later,
serializable transaction. `BeginLogin` takes the view (the live sessions it
counts), and the commit is refused by the database when a row it writes, the
Account row among them, has been written since (`stale`). Everything the
administrator does holds that row and is one step. A session that is revoked,
expired or deleted is simply not live.

`RoomTrash` keeps the rooms of the trash in the order of `purgeAfter`; `due` says
how many of them, from the front, have had their day. A scan remembers the rooms
that were due at its `now` and claims the first one that has not failed in it.
`Stuck` are rooms whose deletion the database always refuses; any other may fail
now and then (`PurgeFails`).

### Tabs

`RoomChannel` has three parties. The API commits (`version`, `authority`), and
announces in a step of its own (`notices`), which a dying process loses. The
server's end of a socket counts the wishes of its tab (`intent`) and keeps the
subscriptions that are not yet in the channel (`tasks`), each with the intent and
the generation it began with. The tab has a page, what it knows of and shows, and
one read under way: a later read overtakes an earlier one. Messages of one
connection keep their order. A socket that the server has disconnected stays away
until the tab logs in again.

The tab's user writes, too. chooseSeat(), requestSwap(), roleSwapAction(),
takeControl() and finishRoom() begin a new transition first (`StartsOver`), which
throws away a read under way; the writes of a game do not. `Press` leaves either open
on the pages of a game. The write is then committed (`CommitWrite`, `TakeControl`) or
not, and the tab hears of a success and reads (`WriteSucceeds`), of a refusal or of
nothing and does not (`WriteFails`), or that it has lost control and reads the seats
(`WriteLosesControl`). A call whose page has been left may still be committed or
end the login. The error of a write says nothing of the room, and does not count as
`told`.

The code has three holes here. The history variable `missed` names two: an
announcement that passes between the authorisation of a subscription and its join
(NEWS), and a subscription that an eviction of the room has overtaken, which is
dropped without a word (CHANNEL). The third is the read that a write has thrown away
and that no other read has made up for, because the write was refused or its
answer lost (`Forgotten`; section 4). `QuietTabIsFresh` is about every tab that has
fallen into none of them. One more thing is
reachable and harmless: a tab that lost control may stay in the channel until the
notice of it is sent, or longer when it was taken while the subscription was under
way; it is told versions only, and every read asks for control again. A reader
who must know: `ChannelHoldsTheEntitled` speaks of the session and the trash and
not of control for that reason.

`TransferToasts` follows a transfer, a toll or a fine from the payer's call to the
toasts of three audiences. A call commits or fails; its notices are built from the
rows as they are then, sent, and the call is answered last. What the model shows
and a reader would not expect:

- A builder that fails is caught and logged, its event is dropped for good, and the
  call goes on to its answer (`BuildFails`). `dropped` keeps what the log has;
  `OutcomeTold` asks for each event that was built, so that a dropped one excuses
  nobody but whom it was for.
- finishRoom() empties queue and buffer before its write, and when that is refused the
  page stays (`RefuseFinish`).
- A payer who loses the answer of a transfer that was executed at once is told of
  a failure only, since his event of the funds is suppressed; the key is kept, and
  pressing again tells him. `OutcomeTold` names that exception.
- An approval that is reversed before its builder reads the request sends no
  APPROVED event.
- The notice of a failure may overtake that of a success of the same transfer, and
  a repeat that fails is reported to the bank although the first call succeeded.
- The bank's toast of a failed approval has an id made of the request alone, so
  that a second failure is not shown.

The toasts of other requests, of landings and of reversals, wording, and the
three seconds each toast is displayed are left out.

`RouteSkeleton` treats an event together with the renderings and effects it leads
to as one step. A page comes into the component that is there (its effects are
written for that) or into a new one; both are modelled. An account is restored
by a call that may be overtaken by a login. A read that another page has overtaken
no longer decides the page, but it still ends the login when it finds it invalid
(`SettleLate`), even a newer one. `Stranded` names the pages that have nothing to
show and are not left any more: the navigation to the login page or to the refusal
has failed, or `sessionInvalidating` is still set after the user's own navigation.
A navigation that changes only the query leaves `routePending` to the watchdog.

### Standings

`SettlementRanking` translates the valuation and the ranking of `settlement.ts`.
The reference says that a player's rank is one more than the number of those who
are better off. It keeps no state.

## 3. What is checked

Each run of the room explores one kind of trouble; the constant `Commands` names the
commands it sends, in any order, by anybody. All runs are exhaustive for their
bounds. `calls_and_timers`, `pressed_again` and `tabs` hold two or three components
that share no variable: `desk` and `side` say which of them a behaviour is about,
while the others rest in an initial state, so that the states add up and do not
multiply.
`CHECK_DEADLOCK FALSE`: a finished room accepts no command, and a bounded one ends
when its ids are used up.

| run | room | checks |
|---|---|---|
| `electronic_landing` | 2 seats, 1 property, 3 landings, 3 requests, 2 turns, 3 transactions | `TypeOK`, `LockMatchesRequest`, `PendingOnLiveLanding`, `OneUsePerLanding`, `StartRewardOncePerTurn`, `FinishedRoomIsQuiet`, and the refinement `RequestsKeepLifecycle` |
| `electronic_toll` | 2 seats, 2 landings, 3 turns, 3 transactions | `TollOnce`, `ReversalExact`, `TollStands` |
| `physical_board` | 2 seats, physical dice, 3 landings, 2 requests, 3 transactions | `OneLiveLanding`, `PendingOnLiveLanding`, `TollStands` |
| `deeds` | 1 owned property, 2 requests, 3 transactions, versions to 3 | `DeedShape`, `PendingDeedStillValid`, `VersionNamesDeed`, `LockedDeedFrozen` |
| `skip_turns` | 3 seats, the third joins late, 6 turns, 2 owed turns each | `SkipCounterMatches`, `OneActiveTurn`, `TurnsGoRound`, `PassedOverOnlyIfOwed` |
| `cash_and_cards` | 2 seats, every cash and card command, skills | `LedgerExplainsBalances` |
| `calls_and_timers` | one tab, all eight endpoints, 2 calls at a time, one key, 2 attempts, 2 looks, 2 versions by others; three rooms of which one cannot be deleted; a tab with its pages | `AtMostOnce`, `AnswersAgree`, `EveryCallEnds`; `ScanSparesRestored`, `ExpiredRoomIsPurged`; `SkeletonStandsItsTime`, `SkeletonEnds` |
| `pressed_again` | one tab, a game write and a seat write, 2 calls at a time, 2 keys, 1 attempt, 2 looks, one loss of memory; one transfer between a payer and a receiver, one of them the bank | `LaterKeyMeansApplied`; `MoneyToldOnce`, `OutcomeTold` |
| `seats` | three members, three characters, three seats, two waiting swaps | `SeatsAgree`, `OneBank`, `PalaceFollowsCharacter`, `SwapIsWhatWasAgreed`; before that, `StandingsAssumption` and `WealthAssumption` |
| `tabs` | two accounts and two devices; one tab with its room, whose user only looks, or writes once | `AtMostTwoSessions`, `SessionsAreEntitled`; `QuietTabIsFresh`, `ChannelHoldsTheEntitled` |
| `closed_landing` | physical dice, 2 landings | expected violation, section 4 |
| `refused_write` | one tab, one write of its user, two versions, a connection that stands | expected violation of `EveryNoticeIsRead`, section 4 |

Why the bounds are enough for what they are for. Three landings let a landing be
declared, replaced and replaced again; three requests let one be settled, one be
reversed and one wait; three transactions let one be made, reversed and made
again. Six turns let three seats go round twice while a seat is passed over. The
room `electronic_landing` needs the second turn, because what survives the end
of a turn is the question. `version` reaches 3 so that a deed is changed,
restored and changed again. Prices are chosen so that skill discounts and the
bank's offer for a mortgaged deed would go negative were they not cut off.
Landings and requests are interchangeable ids, so the runs declare them
symmetric: no definition picks one of them by name or order, and every property
is a safety property that treats them alike. Players are not symmetric, their
order matters.

For the writes, two calls at a time suffice for every race about one key: a key
is looked up, recorded and recovered, and the other call stands for all others.
One more attempt than one lets a transaction be tried again, one more look lets
the look be repeated; the code has six and up to five. `pressed_again` has one attempt:
the tab does not see how often the API tries. Calls of one tab are
interchangeable, `pressed_again` declares them symmetric; `calls_and_timers` checks
liveness and declares nothing. There the tab does not lose its memory: with one key
it could only stop, and calls that nobody waits for any more are had by a broken
connection; in `pressed_again` it loses it once and goes on with a second key. `CHECK_DEADLOCK FALSE`: a tab may have used up its
keys and be done. A transfer is called for twice and ruled on twice, and one page,
connection, answer, process or event is lost.

In `seats` there are three members, three characters and three seats, so that two
can start a game, of whom one is the bank, and the third may come later; two swaps
wait at a time, so that one goes stale while the other is carried out. The proofs cover
the five seats of the code and any other number. Members and
characters are interchangeable, and every property treats them alike. The
assumptions of the run compute the standings of all 24 * 24 * 24 triples of players
whose cash is between -1 and 1 and whose land, pledged land and buildings are worth
0 or 1, so that every comparison of the key decides, and ties of two and three
occur; and mortgages of either of two properties.

In `tabs` three sessions may ever be opened, one more than an account may have, by
two devices with two attempts each; two passwords let one be verified and reset. A
tab may have two wishes under way, the room three versions, one connection or
process dies, one eviction passes: each hazard needs one. Devices are interchangeable.
`CHECK_DEADLOCK FALSE`: bounds are used up.

The writes of the tab's user are looked at on a side of their own, while session,
connection and room hold and the socket has one wish: together with broken
connections and evictions they exceed what a run can explore. On the other side the
user only looks, and the tab loses its session or its control, not both, since
either ends its entitlement. The theorems of `ChannelProof` cover all of it
together. Of the three versions one is then of another member's write, one of the
tab's own, and one comes after both.

In `calls_and_timers` a batch is two rooms, of which one is stuck, and one scan dies. The
administrator may move a room to and from the trash as often as he likes. In the
browser three moves of the user (or calls that lead elsewhere) suffice to leave a
page, come back, and lose the login on the way. The tab may start on any page.

Fairness. Nothing in the service makes a player or the bank act, so the room
modules assume none and state no liveness. A call the API has received does go
on: the event loop runs it, and the database grants the row lock or aborts.
`FairSpec` is weak fairness of each call's `Serve`, and `EveryCallEnds` says that the
bounded attempts and looks end in an answer, or with the process.

Timers act by themselves. `TrashFairness` is weak fairness of the scan's next step
(the interval fires, a statement ends) and strong fairness of the deletion of each
room that is not stuck: a failure of the database that is not permanent passes.
Restarts are bounded, since a process that always dies within a scan purges
nothing. Nothing is assumed of the administrator. `ExpiredRoomIsPurged` holds as
long as the stuck rooms are fewer than a batch; with as many as a batch takes (20)
those behind them would wait for ever, which `BatchLimit = 1` shows in this
instance.

`SkeletonFairness` is weak fairness of six events of the browser: the call for the
account and the read of the page end, with an answer or an error; the router ends a
navigation, by arriving or failing; the watchdog, the minimum time and the release
are timers. Nothing is assumed of the user, nor of reads that are overtaken.
`MCCallsAndTimers` states all three with the guard of its `desk`.

The channel and the toasts have no liveness: a tab that hears nothing reads again
when its user looks at it, which nobody must do. `QuietTabIsFresh` says instead what
holds of a tab for which nothing is under way.

## 4. Findings

`closed_landing`: the design document of the landing lifecycle
(`src/docs/superpowers/specs/2026-08-01-physical-landing-lifecycle-design.md`,
lines 16, 20-27, 32) calls CLOSED the normal end of a landing with no transition
out of it. cancelLandingPropertyActions() sets a landing to INVALIDATED in any
status, a closed one included. The run shows it in five steps.

`refused_write`: `src/README.md` (line 62) says that the client fetches the whole
state again whenever it is told of the room, and `src/KNOWN_LIMITATIONS.md` (line 15)
that the next notice or operation lets it settle. chooseSeat(), requestSwap(),
roleSwapAction(), takeControl() and finishRoom() (`app-router-client.tsx` 1876, 1894,
1914, 1931, 2087) begin a transition before their write, so that the answer of a read
under way is dropped (1821), and return without a read when the write is refused
(1882, 1903, 1923, 1937, 2100). In the run somebody else writes, the notice makes the
tab read, its user presses, the write is refused, and the tab stays on the older room
with nothing under way.

Everything else the runs check holds. In particular the partial unique indexes
and check constraints of the database are not assumed: `DeedShape`,
`OneLiveLanding`, `OneActiveTurn` and `StartRewardOncePerTurn` show that the
commands keep them by themselves. `SeatsAgree` does the same for characters, colours and
orders, and `AtMostTwoSessions` for a limit that no constraint of the database
states.

## 5. What is proved

For every set of players, properties, ids, prices, skills, dice mode and bound
that satisfies the named assumptions of `RoomState` and `GameRoom` (finite seats
numbered from 1, natural prices, NULL no id, and corrections that are integers):

| theorem | states |
|---|---|
| `GameRoomProof!TypeCorrect` | `Spec => []TypeOK` |
| `GameRoomProof!SkipEntriesMatchCounter` | `Spec => []SkipCounterMatches` |
| `DeedProof!DeedsKeepTheirShape` | `Spec => []DeedShape` |
| `DeedProof!LocksMatchRequests` | `Spec => []LockMatchesRequest` |
| `DeedProof!ReceiptsMatchRequests` | `Spec => []RequestReceipts` |
| `DeedProof!VersionsNameDeeds` | `Spec => []VersionNamesDeed` |
| `DeedProof!LockedDeedsAreFrozen` | `Spec => LockedDeedFrozen` |
| `LandingProof!TurnsHaveOneActive` | `Spec => []OneActiveTurn` |
| `LandingProof!TurnsFollowTheTable` | `Spec => TurnsGoRound` |
| `LandingProof!PassingIsPaid` | `Spec => PassedOverOnlyIfOwed` |
| `LandingProof!FinishedRoomsAreQuiet` | `Spec => []FinishedRoomIsQuiet` |
| `LandingProof!LandingsHaveOneLive` | `Spec => []OneLiveLanding` |
| `LandingProof!PendingRestOnLiveLandings` | `Spec => []PendingOnLiveLanding` |
| `LandingProof!LandingsAreUsedOnce` | `Spec => []OneUsePerLanding` |
| `LandingProof!TurnsYieldOneStartReward` | `Spec => []StartRewardOncePerTurn` |
| `LandingProof!PendingDeedsStayValid` | `Spec => []PendingDeedStillValid` |
| `LogProof!TollsAreChargedOnce` | `Spec => []TollOnce` |
| `LogProof!TollsStand` | `Spec => TollStands` |
| `LogProof!ReversalsAreExact` | `Spec => []ReversalExact` |
| `LogProof!LedgersExplainBalances` | `Spec => []LedgerExplainsBalances` |
| `LogProof!RequestsImplementLifecycle` | `Spec => RequestsKeepLifecycle` |
| `IdempotentProof!TypesHold` | `Spec => []TypeOK` of `IdempotentWrites` |
| `IdempotentProof!WorkIsDoneOnce` | `Spec => []AtMostOnce` |
| `IdempotentProof!AnswersAreRecorded` | `Spec => []AnswersAgree` |
| `IdempotentProof!PressingAgainIsSafe` | `Spec => []LaterKeyMeansApplied` |
| `AccountRoomProof!AccountTypesHold` | `AccountsSpec => []AccountsTypeOK` |
| `AccountRoomProof!TwoSessionsAtMost` | `AccountsSpec => []AtMostTwoSessions` |
| `AccountRoomProof!EntitledSessionsOnly` | `AccountsSpec => []SessionsAreEntitled` |
| `AccountRoomProof!SeatTypesHold` | `Spec => []TypeOK` of `RoomSeats` |
| `AccountRoomProof!SeatsAlwaysAgree` | `Spec => []SeatsAgree` |
| `AccountRoomProof!AlwaysOneBank` | `Spec => []OneBank` |
| `AccountRoomProof!PalacesFollowCharacters` | `Spec => []PalaceFollowsCharacter` |
| `AccountRoomProof!SwapsAreWhatWasAgreed` | `Spec => SwapIsWhatWasAgreed` |
| `AccountRoomProof!RestoredRoomsAreSpared` | `TrashSpec => ScanSparesRestored` |
| `ChannelProof!ChannelIsForTheEntitled` | `Spec => []ChannelHoldsTheEntitled` of `RoomChannel` |
| `ChannelProof!QuietTabsAreFresh` | `Spec => []QuietTabIsFresh` of `RoomChannel` |
| `ScreenProof!MoneyIsToldOnce` | `ToastsSpec => []MoneyToldOnce` of `TransferToasts` |
| `ScreenProof!OutcomesAreTold` | `ToastsSpec => []OutcomeTold` |
| `ScreenProof!SkeletonsStandTheirTime` | `SkeletonSpec => SkeletonStandsItsTime` |

`IdempotentProof` holds for every set of tabs, endpoints and calls and every bound,
`AccountRoomProof` for every set of accounts and devices and any number of attempts,
sessions and passwords, for every set of members and characters and every limit, and
for every set of rooms and every batch,
`ChannelProof` for every set of tabs and every bound, `ScreenProof` for every set of
transfers and any number of calls, breaks and moves. Their assumptions are
`AccountAssumption`, `SeatsAssumption`, `TrashAssumption` (the trash begins finite),
`ChannelAssumption`, `ToastAssumption` and `MovesAssumption`.

The argument. Hardly any of these is inductive alone.

- `TypeInv == TypeOK /\ SkipCounterMatches /\ RequestShape`. The turn walk takes
  served turns off a natural counter, and only checks the entries
  (SKIP_ENTRY_MISSING): the counter stays natural because the two agree. An
  approval reads the property and the parties of a request, which are there
  because of the request's type (`RequestShape`).
- `LockInv` adds `LockMatchesRequest` and `RequestReceipts`: a reversal writes
  REVERSED into the request of a transaction, which leaves the locks right only
  because a transaction's request is never one that still waits.
- `ShapeInv` adds `DeedShape`, `RecordedShape` and `VersionsRecorded`: a reversal
  puts back the face a transaction recorded, so the recorded faces must have the
  shape as well; and `VersionNamesDeed` survives a change of a deed only because no
  recorded face is newer than its deed. `LockedDeedFrozen` then follows step by step:
  every command that changes a deed either refuses a locked one or executes the
  request that locked it.
- `TurnInv` adds `OneActiveTurn` and `LobbyHasNoTurns`. The walk is a set of rows with
  its length chosen, not a loop, and `WalksOver` says what these rows are: of them only the last is active
  (`WalkTurn`). `TurnsGoRound` and `PassedOverOnlyIfOwed` follow from the same description: `PlayersInOrder` has
  every playable seat once, so that the next index modulo the number of seats is
  `NextSeat` (`NextInOrder`, `StopAfterStop`), and the visits that are taken off a
  counter are in bijection with the ended turns that are added (`WalkPays`).
- `LandingInv` is about landings and the requests that depend on them. A request
  keeps the landing and the turn it was filed with, and what may change is the
  landing's status. `WaitingOnLandings` says when it may not: as long as a request
  waits on it (and more than `PendingOnLiveLanding` does: the landing is the actor's,
  on the request's space, in its turn). `RewardKept` says why a turn has one start
  reward: once a reward of a turn is settled, no other landing on START of that turn
  is confirmed. `OneUsePerLanding` and `StartRewardOncePerTurn` are not inductive
  without these two, and these not without `OneLiveLanding`, `LandingKinds` and
  `LandingNamed`. One lemma per family of commands says how landings move
  (`LandingMoved`) and how requests do (`RequestMoved`).
- `TollInv` adds to `TollOnce` that a settlement names a toll of its own landing
  (`SettledToll`) and every toll names a landing (`TollsNameLandings`).
- `StandInv` joins `TurnInv`, `LockInv`, `TollInv` and `LandingTurns` (no landing belongs to a
  turn that is still to come), and `TollStands` follows: a turn only ends by `EndTurn`,
  which freezes its toll, or in a way the candidate search sees.
- `LedgerInv` says of every function that adds up the entries of a player that it ends
  at what he has gained, and that there is one. It holds at the start and each step
  keeps it, because each step either leaves balances and entries or puts one
  transaction behind the others that explains the change (`EntersChanges`). The induction is over
  the steps, and none over the length of the log is needed.
- `ReceiptInv` adds to `LockInv` that an executed request has its transaction
  (`ExecutedHasReceipt`). So `InForce(r)` is one or none with the status of r, and the
  refinement mapping of `RequestLifecycle` becomes a function of the statuses.
  `MovesPhases` lists how a step may move these: file one and cancel some, reject one,
  execute one, reverse one. Each is an action of `RequestLifecycle` or a stutter.

The proofs about the room argue about summaries of its commands, which the first part
of `GameRoomProof` states: filing about a property, filing about none, executing a
property request, executing another, moving cash. Each invariance proof has one lemma
per family of commands. `LogProof` needs only three cases: a step leaves the log, writes
one transaction, or reverses one (`LogEffect`).

`IdempotentProof` argues in the same way. `Inv` adds three facts to the four
invariants: a key is applied exactly when success is recorded under it
(`RecordTellsApplied`, which the unique key of the table preserves); between
commit and notice exactly one call stands for a key (`OneNotifier`); and of the
keys of one intent on one page all but the pending one are applied
(`OthersAreApplied`), which is why a new key is only made where nothing is open.
The steps of the API that leave the room alone are one kind (`Settles`).

`AccountRoomProof` needs to know why the count a login makes is still right when it
commits. `ViewsHold`: a login that has begun has seen at most two sessions of its
account, and as long as it is not stale it has seen every one that is live now, its
account is active, and the password it verified is the present one: whatever opens
a session, or changes password or status, writes the Account row, which makes the
other logins of that account stale. `UnopenedAreDead`: the row a login writes was
never live before.

About the seats it shows that `RowInv` (types, `GoneHoldNothing`, `RowsAgree`, and players with
distinct characters and seats), `OneBank`, `PalaceFollowsCharacter` and `SwapsNamed` (an
open swap is with another member, and names his character if it is for one) are inductive together. A bank swap needs `OneBank` to leave one bank, a character
swap needs `RowsAgree` to move palaces and players alike, and the start needs both.
`SwapIsWhatWasAgreed` then follows step by step: of all actions only `ExecuteSwap`
changes the character of a member who has one and stays. For the trash, `TrashInv`:
what a scan has before it is due at every moment, which needs that a room that leaves
moves the others up and takes itself out of the scan (`LeavesOneBehind`).

`ChannelProof` has to cover the time between the authorisation of a subscription and
its join. Its `Inv` says, for every tab: a socket that is not up holds nothing, and a
subscription began at a wish and a count of evictions that are past (`SocketHolds`);
whoever is in the channel, or was allowed to come in, has a living session or its kick
is still to come (`SessionStands`); and whoever is in it, or was allowed and is not
overtaken by a later wish or an eviction, has an open room or the eviction is still to
come (`RoomStands`). The last is why `applyRoomSubscriptionIntent` compares the generation of the
room again after its reads: an eviction overtakes what was allowed before it.

`QuietTabIsFresh` speaks of a tab with nothing before it, and an induction has to follow
the version of the room through everything that can be before it. `TabInv` adds to
`Inv`, for every tab: nothing on its way to it carries a version still to come
(`NothingAhead`, `NoticesPast`); a tab that believes itself subscribed last wished to be (`BelievesRightly`),
and when that wish has arrived it is in the channel, on its way to it, or will be
told that it is not (`HasPlace`); what it shows, knows and has read is not ahead of
the room, an answer is not older than the screen, and what the tab knows and does not
show it is reading, or a write has thrown the read away (`PageStands`); and it
shows the present version unless the version is still to be announced, is in a
message to it, or is read by a read, a subscription or a wish on its way, or its read
was thrown away (`WillHear`). A write sets `knows` back and leaves the screen, so that
what the tab shows may be newer than what it knows. An eviction is where this is delicate: the socket leaves the
channel, and without the message SUBSCRIPTION_LOST the proof fails at `WillHear`.

`ScreenProof` says where every piece of news is. `Coming`: what a tab is to be told is
shown, in its buffer, on its way, in events that are built, in a notice still to be
built, or in the log because its builder has failed, for as long as the row says so
(`News`); the tab has to keep its page and its
connection for that, and the buffer may hold only what is for its page (`ScreenRules`).
`ResultHeard` covers the payer who is told by the answer of his call and not by an
event: he has heard, or the intent is open. A page that is gone confirms the key
without showing anything, which is why a call of it must not be about a transfer the
new page was present for (`CallRules`). `Truthful` is what makes the money be told
once: the result is only heard of a transfer executed at once, the approval only of one
that waited, and the funds event only of a toll, as far as the payer's own view goes;
what is so stays so, because an answer once recorded is never changed.

The skeleton needs `UiRules`: nothing is ready before the account is restored, a
private page with an account is ready by a read of its own, and a minimum time that
runs holds the skeleton. `RunRules` carries them through an event with its two
renderings and its effect, whatever the event.

TLC agrees with each strengthening, in the rooms of the runs (those of `ChannelProof`
with one tab, three versions and one eviction, and `TabInv` also in the instance of the
run `tabs`; that of `ScreenProof` with one transfer, two calls and one break). `RequestReceipts` and the
types of `IdempotentWrites`, `Accounts` and `RoomSeats` are not repeated in the runs,
since they are proved.

Only model-checked: the liveness properties `EveryCallEnds`, `ExpiredRoomIsPurged` and
`SkeletonEnds`, and what the runs say of `SettlementRanking`, which sorts and sums.
Every other property of a passing run is a theorem. Out of this
prover's reach altogether: liveness and ENABLED, induction over data, RECURSIVE
operators.

## 6. Plan

1. **The room** (done): rows, turns, landings, requests, money,
   reversal, finish; every property of the runs about it proved.
2. **Idempotent execution** (done): the eight endpoints with tab, lost
   connections, conflicts and crashes; everything but liveness proved.
3. **Seats, role swaps and control** (done): everything about seats proved; control
   in `RoomChannel`.
4. **Accounts and sessions** (done): proved.
5. **Trash and cleaner** (done), with liveness.
6. **Realtime** (done for the channel of a room and for transfers and tolls). Left:
   the toasts of landings, of other requests and of reversals; the display queue.
7. **Client** (done for navigation and the skeleton). Left: the form and card
   pickers of a landing, the lists of the administrator.
8. **Pure rules** (ranking and valuation done). Left: the texts of a settlement.

## 7. Not modelled

Routes and parsing, rendering, database migrations and seed, password hashing,
origin policy: they change no state the properties speak of, or only hand it
on. Reading a settlement, and audit records, decide nothing. `roll2d6` is a choice. In the
client, forms, lists and the view state of a page are checked again by the API. What is
left of components that are partly modelled is in the plan.
