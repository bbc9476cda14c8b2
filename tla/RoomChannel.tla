---------------------------- MODULE RoomChannel -----------------------------
(***************************************************************************)
(* How a browser tab stays level with a room: the socket channel of the    *)
(* room, which says only that there is something new, and the reads with   *)
(* which a tab fetches it.                                                 *)
(*                                                                         *)
(* A write commits a new stateVersion and is announced afterwards to the   *)
(* sockets that are in the channel at that moment. A socket gets into the  *)
(* channel when the tab subscribes: the server checks the session and the  *)
(* membership in the database, and joins the channel when the answer is    *)
(* there, if no later wish of the same socket and no eviction of the room  *)
(* has overtaken it. Sessions end, control moves to another device and the *)
(* room goes into the trash while all this is under way; sockets and the   *)
(* API process die.                                                        *)
(*                                                                         *)
(* The user acts as well. His writes of the seats and the finish begin a   *)
(* transition, which forgets the read under way before it is known whether *)
(* the write succeeds; a success reads again, a refusal does not.          *)
(***************************************************************************)
EXTENDS Naturals, Sequences

CONSTANTS
    Tab,           \* browser tabs, each with a session of its own
    MaxVersion,    \* bound: the version up to which the room is written
    MaxIntents,    \* bound: subscriptions and unsubscriptions of one socket
    MaxDrops,      \* bound: connections lost, by tabs and by the process
    MaxEvictions,  \* bound: moves of the room into the trash
    MaxPresses     \* bound: writes the user of a tab begins

ASSUME ChannelAssumption ==
    {MaxVersion, MaxIntents, MaxDrops, MaxEvictions, MaxPresses} \subseteq Nat

VARIABLES
    room,        \* whether the game is over, and whether the room is in the trash
    version,     \* Room.stateVersion
    authority,   \* what the database says of each tab's session
    notices,     \* committed, and not yet announced
    evictions,   \* roomSubscriptionGeneration of the room
    server,      \* the server's end of each socket
    wire,        \* messages under way on each socket, in order
    client,      \* the memory of each tab
    missed,      \* what a subscription has missed on its way to the channel
    drops        \* connections lost so far

vars == <<room, version, authority, notices, evictions, server, wire, client, missed, drops>>

\* "control": where Membership.activeSessionId points; LEFT: removed
Authority == [session : BOOLEAN, control : {"HERE", "ELSEWHERE", "LEFT"}]

\* DOWN: no connection; GREETED: io.use has authenticated the socket, which
\* is not yet in its session's channel; "joined": socket.data
\* .subscribedRoomId and the room's channel, which always agree; "intent":
\* roomSubscriptionIntent; "tasks": subscriptions not yet committed
ServerEnd == [socket : {"DOWN", "GREETED", "UP", "KICKED"}, joined : BOOLEAN, intent : Nat,
              tasks : SUBSET [intent : Nat, evictions : Nat, at : Nat,
                              stage : {"ASKED", "ALLOWED", "DENIED"}]]

NoSocket == [socket |-> "DOWN", joined |-> FALSE, intent |-> 0, tasks |-> {}]

\* "subscribed": socketRoomSubscription; "knows": roomStateVersion, 0 for
\* none; "shows": the version on the screen; "read": the last read under
\* way; "told": the last read has failed, and the screen has said so;
\* "write": a write of the user, sent and not yet committed, or DONE and not
\* answered; "presses": the writes begun so far
NoRead == [stage |-> "NONE"]
Asked == [stage |-> "ASKED"]

\* a write of the user has thrown the last read away, and none has begun since
Forgotten == [stage |-> "FORGOTTEN"]

UnderWay(c) == c.read.stage \in {"ASKED", "ANSWERED"}

Page == {"LOGIN", "LIST", "SEATS", "GAME"}
InRoom(t) == client[t].page \in {"SEATS", "GAME"}

Init ==
    /\ room = [over |-> FALSE, trashed |-> FALSE]
    /\ version = 1
    /\ authority = [t \in Tab |-> [session |-> TRUE, control |-> "HERE"]]
    /\ notices = {}
    /\ evictions = 0
    /\ server = [t \in Tab |-> NoSocket]
    /\ wire = [t \in Tab |-> [up |-> <<>>, down |-> <<>>]]
    /\ client = [t \in Tab |-> [page |-> "LIST", subscribed |-> FALSE, knows |-> 0,
                                shows |-> 0, read |-> NoRead, told |-> FALSE,
                                write |-> "NONE", presses |-> 0]]
    /\ missed = [t \in Tab |-> "NOTHING"]
    /\ drops = 0

Playable == ~ room.over /\ ~ room.trashed
Connected(t) == server[t].socket = "UP"

-----------------------------------------------------------------------------
(* Writes. The announcement of a write is a step of its own: the route is  *)
(* told of the commit first.                                               *)

Version(v) == [kind |-> "VERSION", version |-> v]
Displaced(t, reason) == [kind |-> "DISPLACED", tab |-> t, reason |-> reason]
Kick(t) == [kind |-> "KICK", tab |-> t]

Bump == version < MaxVersion /\ version' = version + 1

\* any write of the room by anybody
Write ==
    /\ Playable
    /\ Bump
    /\ notices' = notices \cup {Version(version')}
    /\ UNCHANGED <<room, authority, evictions, server, wire, client, missed, drops>>

\* start; members without character and bank leave the room
StartRoom ==
    /\ Playable
    /\ \E left \in SUBSET {t \in Tab : authority[t].control = "HERE"} :
         /\ authority' = [t \in Tab |->
                IF t \in left THEN [authority[t] EXCEPT !.control = "LEFT"] ELSE authority[t]]
         /\ Bump
         /\ notices' = notices \cup {Version(version')} \cup {Displaced(t, "STARTED") : t \in left}
    /\ UNCHANGED <<room, evictions, server, wire, client, missed, drops>>

FinishRoom ==
    /\ Playable
    /\ room' = [room EXCEPT !.over = TRUE]
    /\ Bump
    /\ notices' = notices \cup {Version(version')}
    /\ UNCHANGED <<authority, evictions, server, wire, client, missed, drops>>

\* takeControl by another device of the account, or removeAdminRoomMember
LoseControl(t, where) ==
    /\ Playable
    /\ authority[t].control = "HERE"
    /\ authority' = [authority EXCEPT ![t].control = where]
    /\ Bump
    /\ notices' = notices \cup {Version(version'), Displaced(t, "TAKEN")}
    /\ UNCHANGED <<room, evictions, server, wire, client, missed, drops>>

\* the session is revoked, replaced, or goes with its account
LoseSession(t) ==
    /\ authority[t].session
    /\ authority' = [authority EXCEPT ![t].session = FALSE]
    /\ notices' = notices \cup {Kick(t)}
    /\ UNCHANGED <<room, version, evictions, server, wire, client, missed, drops>>

\* deleteRoom
TrashRoom ==
    /\ ~ room.trashed
    /\ evictions < MaxEvictions
    /\ room' = [room EXCEPT !.trashed = TRUE]
    /\ Bump
    /\ notices' = notices \cup {[kind |-> "EVICT"]}
    /\ UNCHANGED <<authority, evictions, server, wire, client, missed, drops>>

RestoreRoom ==
    /\ room.trashed
    /\ room' = [room EXCEPT !.trashed = FALSE]
    /\ Bump
    /\ notices' = notices \cup {Version(version')}
    /\ UNCHANGED <<authority, evictions, server, wire, client, missed, drops>>

-----------------------------------------------------------------------------
(* Announcements.                                                          *)

Tell(t, message) == [wire[t] EXCEPT !.down = Append(@, message)]
News(v) == [type |-> "SNAPSHOT_REQUIRED", version |-> v]
Lost(reason) == [type |-> "SUBSCRIPTION_LOST", reason |-> reason]

\* a subscription of the tab has been allowed and is not in the channel yet:
\* what is announced now passes it
Between(t) ==
    /\ ~ server[t].joined
    /\ \E k \in server[t].tasks : k.stage = "ALLOWED" /\ k.intent = server[t].intent

Passes == [t \in Tab |-> IF Between(t) /\ missed[t] = "NOTHING" THEN "NEWS" ELSE missed[t]]

\* emitInvalidation
Announce(n) ==
    /\ n \in notices
    /\ n.kind = "VERSION"
    /\ wire' = [t \in Tab |-> IF server[t].joined THEN Tell(t, News(n.version)) ELSE wire[t]]
    /\ missed' = Passes
    /\ notices' = notices \ {n}
    /\ UNCHANGED <<room, version, authority, evictions, server, client, drops>>

\* removeSessionFromRoom, for a session that has been displaced or removed
Displace(n) ==
    /\ n \in notices
    /\ n.kind = "DISPLACED"
    /\ IF Connected(n.tab)
       THEN /\ wire' = [wire EXCEPT ![n.tab] = Tell(n.tab, Lost(n.reason))]
            /\ server' = [server EXCEPT ![n.tab].joined = FALSE]
       ELSE UNCHANGED <<wire, server>>
    /\ notices' = notices \ {n}
    /\ UNCHANGED <<room, version, authority, evictions, client, missed, drops>>

\* evictRoomSubscriptions; the version that follows finds nobody in the
\* channel
Evict(n) ==
    /\ n \in notices
    /\ n.kind = "EVICT"
    /\ evictions' = evictions + 1
    /\ wire' = [t \in Tab |-> IF server[t].joined THEN Tell(t, Lost("TRASH")) ELSE wire[t]]
    /\ server' = [t \in Tab |-> [server[t] EXCEPT !.joined = FALSE]]
    /\ missed' = Passes
    /\ notices' = notices \ {n}
    /\ UNCHANGED <<room, version, authority, client, drops>>

\* revokeSocketSession: only a socket that is in the channel of its session
\* is told and disconnected
KickSocket(n) ==
    /\ n \in notices
    /\ n.kind = "KICK"
    /\ IF Connected(n.tab)
       THEN /\ wire' = [wire EXCEPT ![n.tab] = Tell(n.tab, [type |-> "REVOKED"])]
            /\ server' = [server EXCEPT ![n.tab] = [NoSocket EXCEPT !.socket = "KICKED"]]
       ELSE UNCHANGED <<wire, server>>
    /\ notices' = notices \ {n}
    /\ UNCHANGED <<room, version, authority, evictions, client, missed, drops>>

-----------------------------------------------------------------------------
(* The server's end of a socket.                                           *)

serverRest == <<room, version, authority, notices, evictions, client, drops>>

\* io.use
Greet(t) ==
    /\ server[t].socket = "DOWN"
    /\ client[t].page # "LOGIN"
    /\ authority[t].session
    /\ server' = [server EXCEPT ![t].socket = "GREETED"]
    /\ UNCHANGED <<serverRest, wire, missed>>

\* room.subscribe
Subscribe(t) ==
    /\ Connected(t)
    /\ wire[t].up # <<>>
    /\ Head(wire[t].up) = "SUBSCRIBE"
    /\ server' = [server EXCEPT ![t].intent = @ + 1,
                                ![t].tasks = @ \cup {[intent |-> server[t].intent + 1,
                                                      evictions |-> evictions, at |-> 0,
                                                      stage |-> "ASKED"]}]
    /\ wire' = [wire EXCEPT ![t].up = Tail(@)]
    /\ missed' = [missed EXCEPT ![t] = "NOTHING"]
    /\ UNCHANGED serverRest

\* room.unsubscribe
Unsubscribe(t) ==
    /\ Connected(t)
    /\ wire[t].up # <<>>
    /\ Head(wire[t].up) = "UNSUBSCRIBE"
    /\ server' = [server EXCEPT ![t].intent = @ + 1, ![t].joined = FALSE]
    /\ wire' = [wire EXCEPT ![t].up = Tail(@)]
    /\ UNCHANGED <<serverRest, missed>>

\* authenticate and authorizeRoomSession
Entitled(t) ==
    /\ authority[t] = [session |-> TRUE, control |-> "HERE"]
    /\ Playable

Authorise(t, k) ==
    /\ k.stage = "ASKED"
    /\ \E answer \in {[k EXCEPT !.stage = "DENIED"]}
              \cup IF Entitled(t) THEN {[k EXCEPT !.stage = "ALLOWED", !.at = version]} ELSE {} :
         server' = [server EXCEPT ![t].tasks = (@ \ {k}) \cup {answer}]
    /\ UNCHANGED <<serverRest, wire, missed>>

CurrentAnyRoom(t, k) == k.intent = server[t].intent

\* current: no later wish of the socket, no eviction of the room
Current(t, k) == k.intent = server[t].intent /\ k.evictions = evictions

\* applyRoomSubscriptionIntent, for a room
Join(t, k) ==
    /\ k.stage = "ALLOWED"
    /\ server' = [server EXCEPT ![t].tasks = @ \ {k},
                                ![t].joined = @ \/ Current(t, k)]
    /\ wire' = IF Current(t, k) THEN [wire EXCEPT ![t] = Tell(t, News(k.at))] ELSE wire
    /\ missed' = IF k.intent = server[t].intent /\ k.evictions # evictions
                 THEN [missed EXCEPT ![t] = "CHANNEL"] ELSE missed
    /\ UNCHANGED serverRest

\* the catch block: not entitled, or the database did not answer
Reject(t, k) ==
    /\ k.stage = "DENIED"
    /\ server' = [server EXCEPT ![t].tasks = @ \ {k},
                                ![t].joined = @ /\ k.intent # server[t].intent]
    /\ wire' = IF k.intent = server[t].intent
               THEN [wire EXCEPT ![t] = Tell(t, Lost("REJECTED"))] ELSE wire
    /\ UNCHANGED <<serverRest, missed>>

-----------------------------------------------------------------------------
(* The tab.                                                                *)

tabRest == <<room, version, authority, notices, evictions>>

\* a read begins, and the one before it is forgotten
Reading(c) == [c EXCEPT !.read = Asked, !.told = FALSE]

\* a room page opens: beginRoomTransition, the read, and the subscription; the
\* write of the page before no longer owns the room, and its answer is dropped
OpensRoom(c, page) == [Reading(c) EXCEPT !.page = page, !.knows = 0, !.shows = 0,
                                         !.write = "NONE"]

\* a page without a room, or none: clearRoomState
LeavesRoom(c, page) == [c EXCEPT !.page = page, !.subscribed = FALSE, !.knows = 0,
                                 !.shows = 0, !.read = NoRead, !.told = FALSE,
                                 !.write = "NONE"]

Sends(t, message) == [wire EXCEPT ![t].up = Append(@, message)]

\* the bound on the wishes of a socket
MaySend(t) == server[t].intent + Len(wire[t].up) < MaxIntents

\* the connection stands; the tab subscribes again and reads
Connect(t) ==
    /\ server[t].socket = "GREETED"
    /\ server' = [server EXCEPT ![t].socket = "UP"]
    /\ IF InRoom(t)
       THEN /\ wire' = Sends(t, "SUBSCRIBE")
            /\ client' = [client EXCEPT ![t] = [Reading(@) EXCEPT !.subscribed = TRUE]]
       ELSE UNCHANGED <<wire, client>>
    /\ UNCHANGED <<tabRest, missed, drops>>

\* the effects of a page of the room: a tab that is not subscribed asks for
\* it when it is connected
OpenPage(t, page, c) ==
    IF Connected(t) /\ ~ c.subscribed
    THEN /\ MaySend(t)
         /\ wire' = Sends(t, "SUBSCRIBE")
         /\ client' = [client EXCEPT ![t] = [OpensRoom(c, page) EXCEPT !.subscribed = TRUE]]
    ELSE /\ wire' = wire
         /\ client' = [client EXCEPT ![t] = OpensRoom(c, page)]

\* the user goes to a page of the room
Navigate(t, page) ==
    /\ client[t].page \in {"LIST", "SEATS", "GAME"} \ {page}
    /\ page \in {"SEATS", "GAME"}
    /\ OpenPage(t, page, client[t])
    /\ UNCHANGED <<tabRest, server, missed, drops>>

\* the effect of a page without the room
SaysGoodbye(t) ==
    IF Connected(t) /\ client[t].subscribed
    THEN MaySend(t) /\ wire' = Sends(t, "UNSUBSCRIBE")
    ELSE wire' = wire

\* leaveRoom
Leave(t) ==
    /\ InRoom(t)
    /\ SaysGoodbye(t)
    /\ client' = [client EXCEPT ![t] = LeavesRoom(@, "LIST")]
    /\ UNCHANGED <<tabRest, server, missed, drops>>

\* the tab becomes visible or the browser is online again
Look(t) ==
    /\ InRoom(t)
    /\ client' = [client EXCEPT ![t] = Reading(@)]
    /\ UNCHANGED <<tabRest, server, wire, missed, drops>>

-----------------------------------------------------------------------------
(* Writes of the tab's own user.                                           *)

\* chooseSeat, requestSwap, roleSwapAction, takeControl and finishRoom:
\* beginRoomTransition comes before the write
StartsOver(c) ==
    [c EXCEPT !.knows = 0, !.read = IF UnderWay(c) THEN Forgotten ELSE @]

\* a write of the game leaves the transition and a read under way alone;
\* nothing can be pressed on a page that still loads
Press(t) ==
    /\ InRoom(t)
    /\ client[t].write = "NONE"
    /\ client[t].presses < MaxPresses
    /\ UnderWay(client[t]) => client[t].shows > 0
    /\ \E c \in {StartsOver(client[t])}
               \cup IF client[t].page = "GAME" THEN {client[t]} ELSE {} :
         client' = [client EXCEPT ![t] = [c EXCEPT !.write = "SENT", !.presses = @ + 1]]
    /\ UNCHANGED <<tabRest, server, wire, missed, drops>>

Done(t) == [client EXCEPT ![t].write = IF @ = "SENT" THEN "DONE" ELSE @]

\* the write is committed; the bank's may end the game
CommitWrite(t) ==
    /\ client[t].write = "SENT"
    /\ Entitled(t)
    /\ Bump
    /\ \/ room' = room
       \/ client[t].page = "GAME" /\ room' = [room EXCEPT !.over = TRUE]
    /\ notices' = notices \cup {Version(version')}
    /\ client' = Done(t)
    /\ UNCHANGED <<authority, evictions, server, wire, missed, drops>>

\* take-control, also by a call whose page has been left
TakeControl(t) ==
    /\ client[t].page # "LOGIN"
    /\ authority[t] = [session |-> TRUE, control |-> "ELSEWHERE"]
    /\ Playable
    /\ Bump
    /\ authority' = [authority EXCEPT ![t].control = "HERE"]
    /\ notices' = notices \cup {Version(version')}
    /\ client' = Done(t)
    /\ UNCHANGED <<room, evictions, server, wire, missed, drops>>

WriteSucceedsUnread(t) ==
    /\ client[t].write = "DONE"
    /\ client' = [client EXCEPT ![t].write = "NONE", ![t].read = NoRead]
    /\ UNCHANGED <<tabRest, server, wire, missed, drops>>

\* the write has succeeded: fetchSeats, refreshGame or fetchSettlement
WriteSucceeds(t) ==
    /\ client[t].write = "DONE"
    /\ client' = [client EXCEPT ![t] = [Reading(@) EXCEPT !.write = "NONE"]]
    /\ UNCHANGED <<tabRest, server, wire, missed, drops>>

\* the write is refused, or its answer lost: the error is shown, and nothing
\* is read
WriteFails(t) ==
    /\ client[t].write # "NONE"
    /\ client' = [client EXCEPT ![t].write = "NONE"]
    /\ UNCHANGED <<tabRest, server, wire, missed, drops>>

\* ROOM_CONTROL_LOST: handleRoomControlLost reads the seats
WriteLosesControl(t) ==
    /\ client[t].write = "SENT"
    /\ authority[t] = [session |-> TRUE, control |-> "ELSEWHERE"]
    /\ IF client[t].page = "GAME"
       THEN OpenPage(t, "SEATS", client[t])
       ELSE /\ wire' = wire
            /\ client' = [client EXCEPT ![t] = [Reading(@) EXCEPT !.knows = 0,
                                                               !.write = "NONE"]]
    /\ UNCHANGED <<tabRest, server, missed, drops>>

-----------------------------------------------------------------------------
(* Messages.                                                               *)

Hears(t, type) ==
    /\ wire[t].down # <<>>
    /\ Head(wire[t].down).type = type

\* onRoomEvent: what is not newer is ignored
HearNews(t) ==
    /\ Hears(t, "SNAPSHOT_REQUIRED")
    /\ client' = IF InRoom(t) /\ Head(wire[t].down).version > client[t].knows
                 THEN [client EXCEPT ![t] = [Reading(@) EXCEPT
                          !.knows = Head(wire[t].down).version]]
                 ELSE client
    /\ wire' = [wire EXCEPT ![t].down = Tail(@)]
    /\ UNCHANGED <<tabRest, server, missed, drops>>

\* onRoomSubscriptionLost
HearLost(t) ==
    /\ Hears(t, "SUBSCRIPTION_LOST")
    /\ client' = IF ~ InRoom(t) THEN client
                 ELSE IF Head(wire[t].down).reason = "STARTED"
                 THEN [client EXCEPT ![t] = LeavesRoom(@, "LIST")]
                 ELSE [client EXCEPT ![t] = [Reading(@) EXCEPT !.subscribed = FALSE]]
    /\ wire' = [wire EXCEPT ![t].down = Tail(@)]
    /\ UNCHANGED <<tabRest, server, missed, drops>>

\* invalidateLogin: the socket goes with the account
LogsOut(t) ==
    /\ client' = [client EXCEPT ![t] = LeavesRoom(@, "LOGIN")]
    /\ wire' = [wire EXCEPT ![t] = [up |-> <<>>, down |-> <<>>]]
    /\ server' = [server EXCEPT ![t] = NoSocket]

HearRevoked(t) ==
    /\ Hears(t, "REVOKED")
    /\ LogsOut(t)
    /\ UNCHANGED <<tabRest, missed, drops>>

\* SESSION_INVALID, in the answer to any other call of the tab
CallLogsOut(t) ==
    /\ client[t].page # "LOGIN"
    /\ ~ authority[t].session
    /\ LogsOut(t)
    /\ UNCHANGED <<tabRest, missed, drops>>

\* the connection breaks; a socket the server has disconnected does not come
\* back by itself
Disconnected(gone) ==
    /\ server' = [t \in Tab |-> IF t \in gone THEN [NoSocket EXCEPT
                      !.socket = IF server[t].socket = "KICKED" THEN "KICKED" ELSE "DOWN"]
                  ELSE server[t]]
    /\ wire' = [t \in Tab |-> IF t \in gone THEN [up |-> <<>>, down |-> <<>>] ELSE wire[t]]
    /\ client' = [t \in Tab |-> IF t \in gone THEN [client[t] EXCEPT !.subscribed = FALSE]
                                ELSE client[t]]

Disconnect(t) ==
    /\ drops < MaxDrops
    /\ drops' = drops + 1
    /\ server[t].socket # "DOWN"
    /\ Disconnected({t})
    /\ UNCHANGED <<tabRest, missed>>

\* the API process dies between a commit and its announcement
Crash ==
    /\ drops < MaxDrops
    /\ drops' = drops + 1
    /\ Disconnected(Tab)
    /\ notices' = {}
    /\ evictions' = 0
    /\ UNCHANGED <<room, version, authority, missed>>

-----------------------------------------------------------------------------
(* Reads.                                                                  *)

\* the transaction of a read
Serve(t) ==
    /\ client[t].read = Asked
    /\ client' = [client EXCEPT ![t].read =
           [stage |-> "ANSWERED", version |-> version, session |-> authority[t].session,
            here |-> authority[t].control = "HERE", open |-> ~ room.trashed,
            over |-> room.over]]
    /\ missed' = IF missed[t] = "NEWS" THEN [missed EXCEPT ![t] = "NOTHING"] ELSE missed
    /\ UNCHANGED <<tabRest, server, wire, drops>>

Answered(t) == client[t].read.stage = "ANSWERED"

\* SESSION_INVALID
ReadLogsOut(t) ==
    /\ Answered(t)
    /\ ~ client[t].read.session
    /\ LogsOut(t)
    /\ UNCHANGED <<tabRest, missed, drops>>

ReadFailsQuietly(t) ==
    /\ UnderWay(client[t])
    /\ Answered(t) => client[t].read.session
    /\ client' = [client EXCEPT ![t].read = NoRead]
    /\ UNCHANGED <<tabRest, server, wire, missed, drops>>

\* the room is not there, or the network failed: an error is shown
ReadFails(t) ==
    /\ UnderWay(client[t])
    /\ Answered(t) => client[t].read.session
    /\ client' = [client EXCEPT ![t].read = NoRead, ![t].told = TRUE]
    /\ UNCHANGED <<tabRest, server, wire, missed, drops>>

Succeeds(t) == Answered(t) /\ client[t].read.session /\ client[t].read.open

\* routeFromSeats: a game that is over has a page of its own
ReadGoesToSettlement(t) ==
    /\ Succeeds(t)
    /\ client[t].read.over
    /\ SaysGoodbye(t)
    /\ client' = [client EXCEPT ![t] = LeavesRoom(@, "LIST")]
    /\ UNCHANGED <<tabRest, server, missed, drops>>

\* ROOM_CONTROL_LOST: the seats are shown instead of the game
ReadGoesToSeats(t) ==
    /\ Succeeds(t)
    /\ ~ client[t].read.over
    /\ ~ client[t].read.here
    /\ client[t].page = "GAME"
    /\ OpenPage(t, "SEATS", client[t])
    /\ UNCHANGED <<tabRest, server, missed, drops>>

\* routeFromSeats with the intent AUTO, after a seat was chosen or control
\* taken; which intent a read has is left open
ReadGoesToGame(t) ==
    /\ Succeeds(t)
    /\ ~ client[t].read.over
    /\ client[t].read.here
    /\ client[t].page = "SEATS"
    /\ OpenPage(t, "GAME", client[t])
    /\ UNCHANGED <<tabRest, server, missed, drops>>

Shown(c, v) ==
    IF v < c.knows THEN [c EXCEPT !.read = NoRead]
    ELSE [c EXCEPT !.read = NoRead, !.knows = v, !.shows = v]

\* readSnapshot and fetchSeats: what is older than the tab knows of is
\* dropped
ReadShows(t) ==
    /\ Succeeds(t)
    /\ ~ client[t].read.over
    /\ client[t].read.here \/ client[t].page = "SEATS"
    /\ client' = [client EXCEPT ![t] = Shown(client[t], client[t].read.version)]
    /\ UNCHANGED <<tabRest, server, wire, missed, drops>>

-----------------------------------------------------------------------------
WriteStep ==
    \/ Write
    \/ StartRoom
    \/ FinishRoom
    \/ \E t \in Tab, where \in {"ELSEWHERE", "LEFT"} : LoseControl(t, where)
    \/ \E t \in Tab : LoseSession(t)
    \/ RestoreRoom
    \/ TrashRoom

AnnounceStep ==
    \E n \in notices : Announce(n) \/ Displace(n) \/ Evict(n) \/ KickSocket(n)

ServerStep(t) ==
    \/ Greet(t)
    \/ Subscribe(t)
    \/ Unsubscribe(t)
    \/ \E k \in server[t].tasks : Authorise(t, k) \/ Join(t, k) \/ Reject(t, k)

TabStep(t) ==
    \/ Connect(t)
    \/ \E page \in {"SEATS", "GAME"} : Navigate(t, page)
    \/ Leave(t)
    \/ Look(t)
    \/ HearNews(t)
    \/ HearLost(t)
    \/ HearRevoked(t)
    \/ CallLogsOut(t)
    \/ Disconnect(t)

UserStep(t) ==
    \/ Press(t)
    \/ CommitWrite(t)
    \/ TakeControl(t)
    \/ WriteSucceeds(t)
    \/ WriteFails(t)
    \/ WriteLosesControl(t)

ReadStep(t) ==
    \/ Serve(t)
    \/ ReadLogsOut(t)
    \/ ReadFails(t)
    \/ ReadGoesToSettlement(t)
    \/ ReadGoesToSeats(t)
    \/ ReadGoesToGame(t)
    \/ ReadShows(t)

Next ==
    \/ WriteStep
    \/ AnnounceStep
    \/ \E t \in Tab : ServerStep(t) \/ TabStep(t) \/ UserStep(t) \/ ReadStep(t)
    \/ Crash

Spec == Init /\ [][Next]_vars

-----------------------------------------------------------------------------
\* Nothing is under way between the tab and the server.
Quiet(t) ==
    /\ Connected(t)
    /\ InRoom(t)
    /\ client[t].subscribed
    /\ ~ UnderWay(client[t])
    /\ client[t].write = "NONE"
    /\ wire[t] = [up |-> <<>>, down |-> <<>>]
    /\ server[t].tasks = {}
    /\ notices = {}

\* the screen is that of the room as it is, or has said that it could not be
\* read
Honest(t) ==
    \/ client[t].told
    \/ client[t].shows = version /\ ~ room.trashed

\* A connected tab that believes itself subscribed and waits for nothing
\* shows the room as it is, or has said that it could not be read: events
\* that are lost, late or out of order, reads that overtake each other, writes
\* and reconnections leave no tab behind. The exceptions are in the code: an
\* announcement that passes between the authorisation of a subscription and
\* its join; a subscription that an eviction of the room overtakes and that
\* is dropped without a word; and a read that the user's own write has
\* thrown away, when that write was not followed by a read.
QuietTabIsFresh ==
    \A t \in Tab : Quiet(t) /\ missed[t] = "NOTHING" /\ client[t].read # Forgotten =>
      Honest(t)

\* What README.md (line 62) and KNOWN_LIMITATIONS.md (line 15) say of the
\* client: it fetches the whole room after every notice and every operation,
\* so that a connected tab settles on the present room, or says that it could
\* not read it. A write that is refused throws away the read a notice began.
EveryNoticeIsRead ==
    \A t \in Tab : Quiet(t) /\ missed[t] = "NOTHING" => Honest(t)

\* When nothing is left to announce, the channel of the room holds no socket
\* of a session that has ended, and none at all when the room is in the
\* trash, although subscriptions are authorised long before they join.
ChannelHoldsTheEntitled ==
    \A t \in Tab : server[t].joined /\ notices = {} =>
      authority[t].session /\ ~ room.trashed
=============================================================================
