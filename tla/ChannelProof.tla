---------------------------- MODULE ChannelProof ----------------------------
(***************************************************************************)
(* Proofs about RoomChannel, for every set of tabs and every bound: the    *)
(* channel of a room holds no socket that has no business there, and no    *)
(* tab is left behind.                                                     *)
(*                                                                         *)
(* A tab that believes itself subscribed is level: it shows the present    *)
(* version, or something is before it that makes it read again. That may   *)
(* be an announcement to come, a message, a read, a wish or a subscription *)
(* under way, so the invariant follows the version through all of them.    *)
(***************************************************************************)
EXTENDS RoomChannel, SequenceTheorems, TLAPS

EvictNotice == [kind |-> "EVICT"]

\* what the argument needs to know of the types
ChannelTypes ==
    /\ room \in [over : BOOLEAN, trashed : BOOLEAN]
    /\ authority \in [Tab -> Authority]
    /\ evictions \in Nat
    /\ server \in [Tab -> ServerEnd]

\* in the channel, or about to come into it: allowed, and no later wish and
\* no eviction has overtaken it
MayHear(t) ==
    server[t].joined \/ \E k \in server[t].tasks : k.stage = "ALLOWED" /\ Current(t, k)

\* a socket that is down or disconnected holds nothing, and a subscription
\* began with a wish and an eviction that are past
SocketHolds(t) ==
    /\ server[t].socket # "UP" => ~ server[t].joined /\ server[t].tasks = {}
    /\ \A k \in server[t].tasks : k.intent <= server[t].intent /\ k.evictions <= evictions

\* a session that ends is in the channel only as long as its kick is to come
SessionStands(t) ==
    server[t].joined \/ (\E k \in server[t].tasks : k.stage = "ALLOWED") =>
      authority[t].session \/ Kick(t) \in notices

\* the room goes into the trash, and the eviction is to come
RoomStands(t) == MayHear(t) => ~ room.trashed \/ EvictNotice \in notices

Holds(t) == SocketHolds(t) /\ SessionStands(t) /\ RoomStands(t)

Inv == ChannelTypes /\ \A t \in Tab : Holds(t)

-----------------------------------------------------------------------------
LEMMA InvImpliesEntitled == Inv => ChannelHoldsTheEntitled
  BY DEF Inv, Holds, SessionStands, RoomStands, MayHear, ChannelHoldsTheEntitled

LEMMA InitInv == Init => Inv
  BY ChannelAssumption DEF Init, Inv, ChannelTypes, Authority, ServerEnd, NoSocket, Holds,
     SocketHolds, SessionStands, RoomStands, MayHear

\* steps of tabs and reads that leave the server's end alone
LEMMA TabKeepsInv ==
  ASSUME Inv, UNCHANGED <<room, authority, notices, evictions, server>>
  PROVE  Inv'
  BY DEF Inv, ChannelTypes, Holds, SocketHolds, SessionStands, RoomStands, MayHear, Current

\* a write that adds to the notices what it owes
LEMMA WriteKeepsInv ==
  ASSUME Inv, UNCHANGED <<evictions, server>>, notices \subseteq notices',
         room' \in [over : BOOLEAN, trashed : BOOLEAN],
         room'.trashed => room.trashed \/ EvictNotice \in notices',
         authority' \in [Tab -> Authority],
         \A t \in Tab : authority[t].session =>
           authority'[t].session \/ Kick(t) \in notices'
  PROVE  Inv'
  <1> SUFFICES ASSUME NEW t \in Tab PROVE Holds(t)'
      BY DEF Inv, ChannelTypes
  <1>1. Holds(t)
      BY DEF Inv
  <1>2. SocketHolds(t)'
      BY <1>1 DEF Holds, SocketHolds
  <1>3. SessionStands(t)'
      BY <1>1 DEF Holds, SessionStands
  <1>4. RoomStands(t)'
      BY <1>1 DEF Holds, RoomStands, MayHear, Current
  <1> QED
      BY <1>2, <1>3, <1>4 DEF Holds

\* a socket loses its place: whatever it held is gone
LEMMA LosingKeepsInv ==
  ASSUME Inv, UNCHANGED <<room, authority>>,
         evictions' \in Nat, NEW gone \in SUBSET Tab,
         server' \in [Tab -> ServerEnd],
         \A t \in gone : ~ server'[t].joined /\ server'[t].tasks = {},
         \A t \in Tab \ gone : server'[t] = server[t] /\ evictions' = evictions,
         \A t \in Tab \ gone : Kick(t) \in notices => Kick(t) \in notices',
         gone # Tab => (EvictNotice \in notices => EvictNotice \in notices')
  PROVE  Inv'
  <1> SUFFICES ASSUME NEW t \in Tab PROVE Holds(t)'
      BY DEF Inv, ChannelTypes
  <1>1. CASE t \in gone
      BY <1>1 DEF Holds, SocketHolds, SessionStands, RoomStands, MayHear
  <1>2. CASE t \notin gone
    <2>1. Holds(t) /\ gone # Tab
        BY <1>2 DEF Inv
    <2> QED
        BY <1>2, <2>1 DEF Holds, SocketHolds, SessionStands, RoomStands, MayHear, Current
  <1> QED
      BY <1>1, <1>2

\* sockets leave the channel, give subscriptions up or take a new wish, and
\* an eviction is announced
LEMMA ShrinkingKeepsInv ==
  ASSUME Inv, UNCHANGED <<room, authority>>, evictions' \in Nat, evictions' >= evictions,
         server' \in [Tab -> ServerEnd],
         \A t \in Tab : /\ server'[t].socket = server[t].socket
                        /\ server'[t].tasks \subseteq server[t].tasks
                        /\ server'[t].joined => server[t].joined
                        /\ server'[t].intent >= server[t].intent,
         \A t \in Tab : Kick(t) \in notices => Kick(t) \in notices',
         \/ EvictNotice \in notices => EvictNotice \in notices'
         \/ evictions' > evictions /\ \A t \in Tab : ~ server'[t].joined
  PROVE  Inv'
  <1> SUFFICES ASSUME NEW t \in Tab PROVE Holds(t)'
      BY DEF Inv, ChannelTypes
  <1>1. Holds(t) /\ server[t] \in ServerEnd /\ server'[t] \in ServerEnd /\ evictions \in Nat
      BY DEF Inv, ChannelTypes
  <1>2. \A k \in server'[t].tasks :
          /\ k \in server[t].tasks
          /\ k.intent \in Nat /\ k.evictions \in Nat
          /\ k.intent <= server[t].intent /\ k.evictions <= evictions
      BY <1>1 DEF ServerEnd, Holds, SocketHolds
  <1>3. server[t].intent \in Nat /\ server'[t].intent \in Nat
      BY <1>1 DEF ServerEnd
  <1>4. SocketHolds(t)'
      BY <1>1, <1>2, <1>3 DEF Holds, SocketHolds
  <1>5. SessionStands(t)'
      BY <1>1, <1>2 DEF Holds, SessionStands
  <1>6. \A k \in server'[t].tasks : Current(t, k)' => Current(t, k) /\ evictions' = evictions
      BY <1>1, <1>2, <1>3 DEF Current
  <1>7. RoomStands(t)'
      BY <1>1, <1>2, <1>6 DEF Holds, RoomStands, MayHear
  <1> QED
      BY <1>4, <1>5, <1>7 DEF Holds

Task == [intent : Nat, evictions : Nat, at : Nat, stage : {"ASKED", "ALLOWED", "DENIED"}]

\* a server's end whose intent, subscriptions and place have changed
LEMMA Parts ==
  ASSUME NEW old \in ServerEnd, NEW intent \in Nat, NEW joined \in BOOLEAN,
         NEW tasks \in SUBSET Task
  PROVE  /\ [old EXCEPT !.intent = intent, !.tasks = tasks]
              = [socket |-> old.socket, joined |-> old.joined, intent |-> intent, tasks |-> tasks]
         /\ [old EXCEPT !.intent = intent, !.joined = joined]
              = [socket |-> old.socket, joined |-> joined, intent |-> intent, tasks |-> old.tasks]
         /\ [old EXCEPT !.tasks = tasks, !.joined = joined]
              = [socket |-> old.socket, joined |-> joined, intent |-> old.intent, tasks |-> tasks]
  <1> DEFINE wished == [old EXCEPT !.intent = intent]
             asked == [old EXCEPT !.tasks = tasks]
  <1>1. wished = [socket |-> old.socket, joined |-> old.joined, intent |-> intent,
                  tasks |-> old.tasks]
      BY DEF ServerEnd
  <1>2. asked = [socket |-> old.socket, joined |-> old.joined, intent |-> old.intent,
                 tasks |-> tasks]
      BY DEF ServerEnd
  <1> HIDE DEF wished, asked
  <1>3. [wished EXCEPT !.tasks = tasks]
              = [socket |-> old.socket, joined |-> old.joined, intent |-> intent, tasks |-> tasks]
      BY <1>1
  <1>4. [wished EXCEPT !.joined = joined]
              = [socket |-> old.socket, joined |-> joined, intent |-> intent, tasks |-> old.tasks]
      BY <1>1
  <1>5. [asked EXCEPT !.joined = joined]
              = [socket |-> old.socket, joined |-> joined, intent |-> old.intent, tasks |-> tasks]
      BY <1>2
  <1> QED
      BY <1>3, <1>4, <1>5, Zenon DEF wished, asked

\* one socket changes
LEMMA SocketKeepsInv ==
  ASSUME Inv, UNCHANGED <<room, authority, notices, evictions>>, NEW t \in Tab,
         NEW s \in ServerEnd, server' = [server EXCEPT ![t] = s], Holds(t)'
  PROVE  Inv'
  <1> SUFFICES ASSUME NEW u \in Tab \ {t} PROVE Holds(u)'
      BY DEF Inv, ChannelTypes
  <1>1. Holds(u) /\ server'[u] = server[u]
      BY DEF Inv, ChannelTypes
  <1> QED
      BY <1>1 DEF Holds, SocketHolds, SessionStands, RoomStands, MayHear, Current

-----------------------------------------------------------------------------
(* The steps.                                                              *)

\* what is committed, and owed to the channel
LEMMA WriteStepKeepsInv ==
  ASSUME Inv, WriteStep \/ \E t \in Tab : TakeControl(t) \/ CommitWrite(t)
  PROVE  Inv'
  <1> USE DEF Bump
  <1>1. room \in [over : BOOLEAN, trashed : BOOLEAN] /\ authority \in [Tab -> Authority]
      BY DEF Inv, ChannelTypes
  <1>2. CASE Write
      BY <1>1, <1>2, WriteKeepsInv DEF Write
  <1>3. CASE StartRoom
    <2>1. PICK left \in SUBSET Tab :
            authority' = [t \in Tab |->
                IF t \in left THEN [authority[t] EXCEPT !.control = "LEFT"] ELSE authority[t]]
        BY <1>3 DEF StartRoom
    <2>2. authority' \in [Tab -> Authority]
        BY <1>1, <2>1 DEF Authority
    <2>3. \A t \in Tab : authority'[t].session = authority[t].session
        BY <1>1, <2>1 DEF Authority
    <2> QED
        BY <1>1, <1>3, <2>2, <2>3, WriteKeepsInv DEF StartRoom
  <1>4. CASE FinishRoom
      BY <1>1, <1>4, WriteKeepsInv DEF FinishRoom
  <1>5. ASSUME NEW t \in Tab, NEW where \in {"HERE", "ELSEWHERE", "LEFT"},
               authority' = [authority EXCEPT ![t].control = where]
        PROVE  /\ authority' \in [Tab -> Authority]
               /\ \A u \in Tab : authority'[u].session = authority[u].session
      BY <1>1, <1>5 DEF Authority
  <1>6. CASE \E t \in Tab, where \in {"ELSEWHERE", "LEFT"} : LoseControl(t, where)
      BY <1>1, <1>5, <1>6, WriteKeepsInv DEF LoseControl
  <1>7. CASE \E t \in Tab : TakeControl(t)
      BY <1>1, <1>5, <1>7, WriteKeepsInv DEF TakeControl
  <1>8. ASSUME NEW t \in Tab, LoseSession(t) PROVE Inv'
    <2>1. authority' \in [Tab -> Authority]
        BY <1>1, <1>8 DEF LoseSession, Authority
    <2>2. \A u \in Tab : authority[u].session => authority'[u].session \/ Kick(u) \in notices'
        BY <1>1, <1>8 DEF LoseSession, Authority
    <2> QED
        BY <1>1, <1>8, <2>1, <2>2, WriteKeepsInv DEF LoseSession
  <1>9. CASE TrashRoom
      BY <1>1, <1>9, WriteKeepsInv DEF TrashRoom, EvictNotice
  <1>10. CASE RestoreRoom
      BY <1>1, <1>10, WriteKeepsInv DEF RestoreRoom
  <1>11. CASE \E t \in Tab : CommitWrite(t)
    <2>1. room' \in [over : BOOLEAN, trashed : BOOLEAN] /\ (room'.trashed => room.trashed)
        BY <1>1, <1>11 DEF CommitWrite
    <2>2. /\ UNCHANGED <<authority, evictions, server>> /\ notices \subseteq notices'
        BY <1>11 DEF CommitWrite
    <2> QED
        BY <1>1, <2>1, <2>2, WriteKeepsInv
  <1> QED
      BY <1>2, <1>3, <1>4, <1>6, <1>7, <1>8, <1>9, <1>10, <1>11 DEF WriteStep

\* an announcement takes from the notices only what it does
LEMMA AnnounceStepKeepsInv ==
  ASSUME Inv, NEW n \in notices, Announce(n) \/ Displace(n) \/ Evict(n) \/ KickSocket(n)
  PROVE  Inv'
  <1>1. server \in [Tab -> ServerEnd] /\ evictions \in Nat
      BY DEF Inv, ChannelTypes
  <1>2. \A t \in Tab : server[t].intent \in Nat /\ server[t] \in ServerEnd
      BY <1>1 DEF ServerEnd
  <1>3. CASE Announce(n)
      BY <1>1, <1>2, <1>3, ShrinkingKeepsInv DEF Announce, Kick, EvictNotice
  <1>4. ASSUME NEW t \in Tab
        PROVE  /\ [server[t] EXCEPT !.joined = FALSE] \in ServerEnd
               /\ ~ [server[t] EXCEPT !.joined = FALSE].joined
               /\ \A part \in {"socket", "tasks", "intent"} :
                    [server[t] EXCEPT !.joined = FALSE][part] = server[t][part]
      BY <1>2 DEF ServerEnd
  <1>5. CASE Displace(n)
    <2>1. server' \in [Tab -> ServerEnd]
        BY <1>1, <1>4, <1>5 DEF Displace
    <2>2. \A t \in Tab : /\ server'[t].socket = server[t].socket
                        /\ server'[t].tasks = server[t].tasks
                        /\ server'[t].intent = server[t].intent
        BY <1>1, <1>2, <1>4, <1>5 DEF Displace
    <2>6. \A t \in Tab : server'[t].joined => server[t].joined
        BY <1>1, <1>2, <1>4, <1>5 DEF Displace
    <2>3. /\ \A t \in Tab : Kick(t) \in notices => Kick(t) \in notices'
          /\ EvictNotice \in notices => EvictNotice \in notices'
        BY <1>5 DEF Displace, Kick, EvictNotice
    <2>4. UNCHANGED <<room, authority>> /\ evictions' \in Nat /\ evictions' >= evictions
        BY <1>1, <1>5 DEF Displace
    <2>5. \A t \in Tab : server'[t].intent >= server[t].intent
        BY <1>2, <2>2
    <2> QED
        BY <2>1, <2>2, <2>3, <2>4, <2>5, <2>6, ShrinkingKeepsInv
  <1>6. CASE Evict(n)
    <2>1. server' \in [Tab -> ServerEnd]
        BY <1>1, <1>4, <1>6 DEF Evict
    <2>2. \A t \in Tab : /\ server'[t].socket = server[t].socket
                        /\ server'[t].tasks = server[t].tasks
                        /\ ~ server'[t].joined
                        /\ server'[t].intent = server[t].intent
        BY <1>2, <1>4, <1>6 DEF Evict
    <2> QED
        BY <1>1, <1>2, <1>6, <2>1, <2>2, ShrinkingKeepsInv DEF Evict, Kick
  <1>7. CASE KickSocket(n)
    <2> DEFINE gone == {n.tab} \cap Tab
    <2>1. \A t \in gone : ~ server'[t].joined /\ server'[t].tasks = {}
      <3>1. CASE Connected(n.tab)
          BY <1>1, <1>7, <3>1 DEF KickSocket, NoSocket
      <3>2. CASE ~ Connected(n.tab)
          BY <1>7, <3>2 DEF KickSocket, Connected, Inv, Holds, SocketHolds
      <3> QED
          BY <3>1, <3>2
    <2>2. server' \in [Tab -> ServerEnd] /\ \A t \in Tab \ gone : server'[t] = server[t]
      <3> DEFINE kicked == [NoSocket EXCEPT !.socket = "KICKED"]
      <3>1. kicked \in ServerEnd
          BY DEF NoSocket, ServerEnd
      <3>2. server' = [server EXCEPT ![n.tab] = kicked] \/ server' = server
          BY <1>7 DEF KickSocket
      <3> HIDE DEF kicked
      <3> QED
          BY <1>1, <3>1, <3>2
    <2>3. \A t \in Tab \ gone : Kick(t) \in notices => Kick(t) \in notices'
        BY <1>7 DEF KickSocket, Kick
    <2>4. EvictNotice \in notices => EvictNotice \in notices'
        BY <1>7 DEF KickSocket, EvictNotice
    <2>5. gone \in SUBSET Tab /\ UNCHANGED <<room, authority, evictions>>
        BY <1>7 DEF KickSocket
    <2> HIDE DEF gone
    <2> QED
        BY <1>1, <2>1, <2>2, <2>3, <2>4, <2>5, LosingKeepsInv
  <1> QED
      BY <1>3, <1>5, <1>6, <1>7

\* the tab gives its socket up, or the connection is lost
LEMMA DisconnectingKeepsInv ==
  ASSUME Inv,
         \/ \E t \in Tab : HearRevoked(t) \/ CallLogsOut(t) \/ ReadLogsOut(t) \/ Disconnect(t)
         \/ Crash
  PROVE  Inv'
  <1>1. server \in [Tab -> ServerEnd] /\ evictions \in Nat
      BY DEF Inv, ChannelTypes
  <1>2. NoSocket \in ServerEnd /\ ~ NoSocket.joined /\ NoSocket.tasks = {}
      BY DEF NoSocket, ServerEnd
  <1>3. ASSUME NEW t \in Tab, LogsOut(t), UNCHANGED <<room, authority, notices, evictions>>
        PROVE  Inv'
    <2>1. server' = [server EXCEPT ![t] = NoSocket]
        BY <1>3 DEF LogsOut
    <2>2. /\ server' \in [Tab -> ServerEnd]
          /\ server'[t] = NoSocket /\ \A u \in Tab \ {t} : server'[u] = server[u]
        BY <1>1, <1>2, <2>1
    <2>3. {t} \in SUBSET Tab
        OBVIOUS
    <2> QED
        BY <1>1, <1>2, <1>3, <2>2, <2>3, LosingKeepsInv
  <1>4. ASSUME NEW gone \in SUBSET Tab, Disconnected(gone)
        PROVE  /\ server' \in [Tab -> ServerEnd]
               /\ \A t \in gone : ~ server'[t].joined /\ server'[t].tasks = {}
               /\ \A t \in Tab \ gone : server'[t] = server[t]
    <2> DEFINE left(t) == [NoSocket EXCEPT
                             !.socket = IF server[t].socket = "KICKED" THEN "KICKED" ELSE "DOWN"]
    <2>1. \A t : left(t) \in ServerEnd /\ ~ left(t).joined /\ left(t).tasks = {}
        BY DEF NoSocket, ServerEnd
    <2>2. server' = [t \in Tab |-> IF t \in gone THEN left(t) ELSE server[t]]
        BY <1>4 DEF Disconnected
    <2> HIDE DEF left
    <2> QED
        BY <1>1, <2>1, <2>2
  <1>5. ASSUME NEW t \in Tab, Disconnect(t) PROVE Inv'
    <2>1. {t} \in SUBSET Tab /\ Disconnected({t})
        BY <1>5 DEF Disconnect
    <2>2. UNCHANGED <<room, authority, notices, evictions>>
        BY <1>5 DEF Disconnect, tabRest
    <2> QED
        BY <1>1, <1>4, <2>1, <2>2, LosingKeepsInv
  <1>6. CASE Crash
    <2>1. Tab \in SUBSET Tab /\ Disconnected(Tab)
        BY <1>6 DEF Crash
    <2> QED
        BY <1>1, <1>4, <1>6, <2>1, LosingKeepsInv DEF Crash
  <1> QED
      BY <1>3, <1>5, <1>6 DEF HearRevoked, CallLogsOut, ReadLogsOut, tabRest

\* a subscription comes, is allowed while the database says so, and joins
\* only as long as nothing has overtaken it
LEMMA ServerStepKeepsInv ==
  ASSUME Inv, version \in Nat, NEW t \in Tab, ServerStep(t)
  PROVE  Inv'
  <1>1. server \in [Tab -> ServerEnd] /\ evictions \in Nat
      BY DEF Inv, ChannelTypes
  <1>2. server[t] \in ServerEnd /\ Holds(t)
      BY <1>1 DEF Inv
  <1>3. server[t].intent \in Nat
      BY <1>2 DEF ServerEnd
  <1>4. CASE Greet(t)
    <2> DEFINE s == [server[t] EXCEPT !.socket = "GREETED"]
    <2>1. s \in ServerEnd /\ s.joined = FALSE /\ s.tasks = {}
        BY <1>2, <1>4 DEF ServerEnd, Greet, Holds, SocketHolds
    <2>2. server' = [server EXCEPT ![t] = s]
        BY <1>4 DEF Greet
    <2>3. UNCHANGED <<room, authority, notices, evictions>>
        BY <1>4 DEF Greet, serverRest
    <2> HIDE DEF s
    <2>4. server'[t] = s
        BY <1>1, <2>2
    <2>5. Holds(t)'
        BY <2>1, <2>4 DEF Holds, SocketHolds, SessionStands, RoomStands, MayHear
    <2> QED
        BY <2>1, <2>2, <2>3, <2>5, SocketKeepsInv
  <1>5. CASE Subscribe(t)
    <2> DEFINE k == [intent |-> server[t].intent + 1, evictions |-> evictions, at |-> 0,
                     stage |-> "ASKED"]
               s == [server[t] EXCEPT !.intent = @ + 1, !.tasks = @ \cup {k}]
    <2>1. server' = [server EXCEPT ![t] = s]
        BY <1>5 DEF Subscribe
    <2>2. /\ s \in ServerEnd
          /\ s.socket = server[t].socket /\ s.joined = server[t].joined
          /\ s.intent = server[t].intent + 1 /\ s.tasks = server[t].tasks \cup {k}
      <3> DEFINE next == server[t].intent + 1
                 more == server[t].tasks \cup {k}
      <3>1. next \in Nat /\ more \in SUBSET Task /\ TRUE \in BOOLEAN
          BY <1>1, <1>2, <1>3 DEF ServerEnd, Task
      <3> HIDE DEF k, next, more
      <3>2. [server[t] EXCEPT !.intent = next, !.tasks = more]
              = [socket |-> server[t].socket, joined |-> server[t].joined,
                 intent |-> next, tasks |-> more]
          BY <1>2, <3>1, Parts, ZenonT(60)
      <3>3. s = [server[t] EXCEPT !.intent = next, !.tasks = more]
          BY DEF next, more
      <3> HIDE DEF s
      <3> QED
          BY <1>2, <3>1, <3>2, <3>3, Zenon DEF next, more, ServerEnd, Task
    <2>3. UNCHANGED <<room, authority, notices, evictions>> /\ Connected(t)
        BY <1>5 DEF Subscribe, serverRest
    <2>4. k.stage # "ALLOWED" /\ k.intent = server[t].intent + 1 /\ k.evictions = evictions
        OBVIOUS
    <2> HIDE DEF s, k
    <2>5. server'[t] = s
        BY <1>1, <2>1
    <2>6. \A j \in server[t].tasks : j.intent \in Nat /\ j.intent <= server[t].intent
        BY <1>2 DEF ServerEnd, Holds, SocketHolds
    <2>7. SocketHolds(t)'
        BY <1>1, <1>2, <1>3, <2>2, <2>3, <2>4, <2>5, <2>6 DEF Holds, SocketHolds, Connected
    <2>8. SessionStands(t)'
        BY <1>2, <2>2, <2>3, <2>4, <2>5 DEF Holds, SessionStands
    <2>9. RoomStands(t)'
        BY <1>2, <1>3, <2>2, <2>3, <2>4, <2>5, <2>6 DEF Holds, RoomStands, MayHear, Current
    <2> QED
        BY <2>1, <2>2, <2>3, <2>7, <2>8, <2>9, SocketKeepsInv DEF Holds
  <1>6. ASSUME NEW s \in ServerEnd, server' = [server EXCEPT ![t] = s],
               UNCHANGED <<room, authority, notices, evictions>>,
               s.socket = server[t].socket, s.tasks \subseteq server[t].tasks,
               s.joined => server[t].joined, s.intent >= server[t].intent
        PROVE  Inv'
    <2>1. \A u \in Tab : server'[u] = IF u = t THEN s ELSE server[u]
        BY <1>1, <1>6
    <2>2. /\ server' \in [Tab -> ServerEnd]
          /\ \A u \in Tab : /\ server'[u].socket = server[u].socket
                            /\ server'[u].tasks \subseteq server[u].tasks
                            /\ server'[u].joined => server[u].joined
                            /\ server'[u].intent >= server[u].intent
        BY <1>1, <1>6, <2>1 DEF ServerEnd
    <2>3. evictions' \in Nat /\ evictions' >= evictions
        BY <1>1, <1>6
    <2> QED
        BY <1>6, <2>2, <2>3, ShrinkingKeepsInv
  <1>7. CASE Unsubscribe(t)
    <2> DEFINE s == [server[t] EXCEPT !.intent = @ + 1, !.joined = FALSE]
    <2>1. /\ s \in ServerEnd /\ ~ s.joined /\ s.intent >= server[t].intent
          /\ s.socket = server[t].socket /\ s.tasks = server[t].tasks
      <3> DEFINE next == server[t].intent + 1
      <3>1. next \in Nat /\ next >= server[t].intent
          BY <1>3
      <3> HIDE DEF next
      <3>2. s = [socket |-> server[t].socket, joined |-> FALSE,
                 intent |-> next, tasks |-> server[t].tasks]
          BY <1>2, <3>1, Parts, ZenonT(60) DEF next
      <3> HIDE DEF s
      <3> QED
          BY <1>2, <3>1, <3>2 DEF ServerEnd
    <2>2. server' = [server EXCEPT ![t] = s] /\ UNCHANGED <<room, authority, notices, evictions>>
        BY <1>7 DEF Unsubscribe, serverRest
    <2> HIDE DEF s
    <2> QED
        BY <1>6, <2>1, <2>2
  <1>8. ASSUME NEW k \in server[t].tasks, Authorise(t, k) PROVE Inv'
    <2>1. PICK j \in {[k EXCEPT !.stage = "DENIED"]}
                   \cup IF Entitled(t) THEN {[k EXCEPT !.stage = "ALLOWED", !.at = version]} ELSE {} :
            server' = [server EXCEPT ![t].tasks = (@ \ {k}) \cup {j}]
        BY <1>8 DEF Authorise
    <2> DEFINE s == [server[t] EXCEPT !.tasks = (@ \ {k}) \cup {j}]
    <2>2. /\ j.intent = k.intent /\ j.evictions = k.evictions
          /\ j \in [intent : Nat, evictions : Nat, at : Nat, stage : {"ASKED", "ALLOWED", "DENIED"}]
        BY <1>2, <2>1 DEF ServerEnd
    <2>3. j.stage = "ALLOWED" => Entitled(t)
        BY <1>2, <2>1 DEF ServerEnd
    <2>4. server' = [server EXCEPT ![t] = s]
        BY <2>1
    <2>5. /\ s \in ServerEnd /\ s.socket = server[t].socket
          /\ s.joined = server[t].joined /\ s.intent = server[t].intent
          /\ s.tasks = (server[t].tasks \ {k}) \cup {j}
        BY <1>2, <2>2 DEF ServerEnd
    <2>6. UNCHANGED <<room, authority, notices, evictions>>
        BY <1>8 DEF Authorise, serverRest
    <2> HIDE DEF s
    <2>7. server'[t] = s
        BY <1>1, <2>4
    <2>8. SocketHolds(t)'
        BY <1>2, <2>2, <2>5, <2>6, <2>7 DEF Holds, SocketHolds
    <2>9. SessionStands(t)'
        BY <1>2, <2>3, <2>5, <2>6, <2>7 DEF Holds, SessionStands, Entitled
    <2>10. RoomStands(t)'
        BY <1>2, <2>3, <2>5, <2>6, <2>7
        DEF Holds, RoomStands, MayHear, Current, Entitled, Playable
    <2> QED
        BY <2>4, <2>5, <2>6, <2>8, <2>9, <2>10, SocketKeepsInv DEF Holds
  <1>9. ASSUME NEW k \in server[t].tasks, Join(t, k) PROVE Inv'
    <2> DEFINE s == [server[t] EXCEPT !.tasks = @ \ {k}, !.joined = @ \/ Current(t, k)]
    <2>1. server' = [server EXCEPT ![t] = s] /\ k.stage = "ALLOWED"
        BY <1>9 DEF Join
    <2>2. /\ s \in ServerEnd /\ s.socket = server[t].socket
          /\ s.joined = (server[t].joined \/ Current(t, k))
          /\ s.intent = server[t].intent /\ s.tasks = server[t].tasks \ {k}
        BY <1>2 DEF ServerEnd, Current
    <2>3. UNCHANGED <<room, authority, notices, evictions>>
        BY <1>9 DEF Join, serverRest
    <2> HIDE DEF s
    <2>4. server'[t] = s
        BY <1>1, <2>1
    <2>5. SocketHolds(t)'
        BY <1>2, <2>2, <2>3, <2>4 DEF Holds, SocketHolds
    <2>6. SessionStands(t)'
        BY <1>2, <2>1, <2>2, <2>3, <2>4 DEF Holds, SessionStands
    <2>7. RoomStands(t)'
        BY <1>2, <2>1, <2>2, <2>3, <2>4 DEF Holds, RoomStands, MayHear, Current
    <2> QED
        BY <2>1, <2>2, <2>3, <2>5, <2>6, <2>7, SocketKeepsInv DEF Holds
  <1>10. ASSUME NEW k \in server[t].tasks, Reject(t, k) PROVE Inv'
    <2> DEFINE s == [server[t] EXCEPT !.tasks = @ \ {k},
                                      !.joined = @ /\ k.intent # server[t].intent]
    <2>1. /\ s \in ServerEnd /\ s.socket = server[t].socket
          /\ s.joined => server[t].joined
          /\ s.intent >= server[t].intent /\ s.tasks \subseteq server[t].tasks
      <3> DEFINE rest == server[t].tasks \ {k}
                 stays == server[t].joined /\ k.intent # server[t].intent
      <3>1. rest \in SUBSET Task /\ stays \in BOOLEAN /\ rest \subseteq server[t].tasks
          BY <1>2 DEF ServerEnd, Task
      <3>2. stays => server[t].joined
          OBVIOUS
      <3> HIDE DEF rest, stays
      <3>3. s = [socket |-> server[t].socket, joined |-> stays,
                 intent |-> server[t].intent, tasks |-> rest]
          BY <1>2, <3>1, Parts, ZenonT(60) DEF rest, stays
      <3> HIDE DEF s
      <3> QED
          BY <1>2, <1>3, <3>1, <3>2, <3>3 DEF ServerEnd, Task
    <2>2. server' = [server EXCEPT ![t] = s] /\ UNCHANGED <<room, authority, notices, evictions>>
        BY <1>10 DEF Reject, serverRest
    <2> HIDE DEF s
    <2> QED
        BY <1>3, <1>6, <2>1, <2>2
  <1> QED
      BY <1>4, <1>5, <1>7, <1>8, <1>9, <1>10 DEF ServerStep

\* a connection that stands holds nothing yet
LEMMA ConnectKeepsInv ==
  ASSUME Inv, NEW t \in Tab, Connect(t)
  PROVE  Inv'
  <1> DEFINE s == [server[t] EXCEPT !.socket = "UP"]
  <1>1. server \in [Tab -> ServerEnd] /\ server[t] \in ServerEnd /\ Holds(t)
      BY DEF Inv, ChannelTypes
  <1>2. s \in ServerEnd /\ s.joined = FALSE /\ s.tasks = {}
      BY <1>1 DEF ServerEnd, Connect, Holds, SocketHolds
  <1>3. server' = [server EXCEPT ![t] = s] /\ UNCHANGED <<room, authority, notices, evictions>>
      BY DEF Connect, tabRest
  <1> HIDE DEF s
  <1>4. server'[t] = s
      BY <1>1, <1>3
  <1>5. Holds(t)'
      BY <1>2, <1>4 DEF Holds, SocketHolds, SessionStands, RoomStands, MayHear
  <1> QED
      BY <1>2, <1>3, <1>5, SocketKeepsInv

\* no other step of a tab or a read touches the server's end, the database or
\* the notices
LEMMA StepKeepsInv ==
  ASSUME Inv, version \in Nat, Next
  PROVE  Inv'
  <1>1. CASE WriteStep
      BY <1>1, WriteStepKeepsInv
  <1>2. CASE AnnounceStep
      BY <1>2, AnnounceStepKeepsInv DEF AnnounceStep
  <1>3. CASE \E t \in Tab : ServerStep(t)
      BY <1>3, ServerStepKeepsInv
  <1>4. CASE Crash
      BY <1>4, DisconnectingKeepsInv
  <1>5. ASSUME NEW t \in Tab, TabStep(t) PROVE Inv'
    <2>1. CASE Connect(t)
        BY <2>1, ConnectKeepsInv
    <2>3. CASE HearRevoked(t) \/ CallLogsOut(t) \/ Disconnect(t)
        BY <2>3, DisconnectingKeepsInv
    <2>4. CASE \/ \E page \in {"SEATS", "GAME"} : Navigate(t, page)
               \/ Leave(t) \/ Look(t) \/ HearNews(t) \/ HearLost(t)
        BY <2>4, TabKeepsInv DEF Navigate, Leave, Look, HearNews, HearLost, tabRest
    <2> QED
        BY <1>5, <2>1, <2>3, <2>4 DEF TabStep
  <1>6. ASSUME NEW t \in Tab, ReadStep(t) PROVE Inv'
    <2>1. CASE ReadLogsOut(t)
        BY <2>1, DisconnectingKeepsInv
    <2>2. CASE \/ Serve(t) \/ ReadFails(t) \/ ReadGoesToSettlement(t) \/ ReadGoesToSeats(t)
               \/ ReadGoesToGame(t) \/ ReadShows(t)
        BY <2>2, TabKeepsInv
        DEF Serve, ReadFails, ReadGoesToSettlement, ReadGoesToSeats, ReadGoesToGame, ReadShows,
            tabRest
    <2> QED
        BY <1>6, <2>1, <2>2 DEF ReadStep
  <1>7. ASSUME NEW t \in Tab, UserStep(t) PROVE Inv'
    <2>1. CASE TakeControl(t) \/ CommitWrite(t)
        BY <2>1, WriteStepKeepsInv
    <2>2. CASE Press(t) \/ WriteSucceeds(t) \/ WriteFails(t) \/ WriteLosesControl(t)
        BY <2>2, TabKeepsInv DEF Press, WriteSucceeds, WriteFails, WriteLosesControl, tabRest
    <2> QED
        BY <1>7, <2>1, <2>2 DEF UserStep
  <1> QED
      BY <1>1, <1>2, <1>3, <1>4, <1>5, <1>6, <1>7 DEF Next

LEMMA VersionStays ==
  ASSUME version \in Nat, Next
  PROVE  version' \in Nat
  <1>1. CASE WriteStep
      BY <1>1 DEF WriteStep, Write, StartRoom, FinishRoom, LoseControl, LoseSession,
         TrashRoom, RestoreRoom, Bump
  <1>2. CASE AnnounceStep \/ Crash
      BY <1>2 DEF AnnounceStep, Announce, Displace, Evict, KickSocket, Crash
  <1>3. CASE \E t \in Tab : ServerStep(t)
      BY <1>3 DEF ServerStep, Greet, Subscribe, Unsubscribe, Authorise, Join, Reject, serverRest
  <1>4. CASE \E t \in Tab : TabStep(t)
      BY <1>4 DEF TabStep, Connect, Navigate, Leave, Look, HearNews, HearLost,
         HearRevoked, CallLogsOut, Disconnect, tabRest
  <1>5. CASE \E t \in Tab : ReadStep(t)
      BY <1>5 DEF ReadStep, Serve, ReadLogsOut, ReadFails, ReadGoesToSettlement,
         ReadGoesToSeats, ReadGoesToGame, ReadShows, tabRest
  <1>6. CASE \E t \in Tab : UserStep(t)
    <2>1. ASSUME NEW t \in Tab, CommitWrite(t) \/ TakeControl(t) PROVE version' = version + 1
        BY <2>1 DEF CommitWrite, TakeControl, Bump
    <2>2. ASSUME NEW t \in Tab,
                 Press(t) \/ WriteSucceeds(t) \/ WriteFails(t) \/ WriteLosesControl(t)
          PROVE  version' = version
        BY <2>2 DEF Press, WriteSucceeds, WriteFails, WriteLosesControl, tabRest
    <2> QED
        BY <1>6, <2>1, <2>2 DEF UserStep
  <1> QED
      BY <1>1, <1>2, <1>3, <1>4, <1>5, <1>6 DEF Next

\* When nothing is left to announce, the channel of the room holds no socket of
\* a session that has ended, and none of a room in the trash, for any number
\* of tabs, evictions and lost connections.
THEOREM ChannelIsForTheEntitled == Spec => []ChannelHoldsTheEntitled
  <1> DEFINE Strong == Inv /\ version \in Nat
  <1>1. Init => Strong
      BY InitInv DEF Init
  <1>2. Strong /\ [Next]_vars => Strong'
    <2> SUFFICES ASSUME Strong, [Next]_vars PROVE Strong'
        OBVIOUS
    <2>1. CASE Next
        BY <2>1, StepKeepsInv, VersionStays
    <2>2. CASE UNCHANGED vars
        BY <2>2, TabKeepsInv DEF vars
    <2> QED
        BY <2>1, <2>2
  <1>3. Strong => ChannelHoldsTheEntitled
      BY InvImpliesEntitled
  <1> QED
      BY <1>1, <1>2, <1>3, PTL DEF Spec

-----------------------------------------------------------------------------
(* Tabs stay level with the room. The parts of the invariant speak of one  *)
(* server's end s, one wire w, one memory c and what was missed, m.        *)

Wish == {"SUBSCRIBE", "UNSUBSCRIBE"}

Message ==
    [type : {"SNAPSHOT_REQUIRED"}, version : Nat]
      \cup [type : {"SUBSCRIPTION_LOST"}, reason : {"STARTED", "TAKEN", "TRASH", "REJECTED"}]
      \cup [type : {"REVOKED"}]

Wire == [up : Seq(Wish), down : Seq(Message)]

Notice ==
    [kind : {"VERSION"}, version : Nat]
      \cup [kind : {"DISPLACED"}, tab : Tab, reason : {"STARTED", "TAKEN"}]
      \cup [kind : {"KICK"}, tab : Tab]
      \cup [kind : {"EVICT"}]

ReadState ==
    {NoRead, Asked, Forgotten}
      \cup [stage : {"ANSWERED"}, version : Nat, session : BOOLEAN, here : BOOLEAN,
            open : BOOLEAN, over : BOOLEAN]

Memory ==
    [page : Page, subscribed : BOOLEAN, knows : Nat, shows : Nat, read : ReadState,
     told : BOOLEAN, write : {"NONE", "SENT", "DONE"}, presses : Nat]

Miss == {"NOTHING", "NEWS", "CHANNEL"}

\* what the argument about tabs needs to know of the types
TabTypes ==
    /\ version \in Nat \ {0}
    /\ notices \in SUBSET Notice
    /\ wire \in [Tab -> Wire]
    /\ client \in [Tab -> Memory]
    /\ missed \in [Tab -> Miss]

\* the messages under way
Under(s) == {s[i] : i \in DOMAIN s}

\* the room as it is now is still to be announced
ToBeAnnounced ==
    \/ Version(version) \in notices
    \/ room.trashed /\ EvictNotice \in notices

\* the tab is about to hear that its subscription is gone
Losing(w) == \E x \in Under(w.down) : x.type \in {"SUBSCRIPTION_LOST", "REVOKED"}

\* the tab's subscription is on its way to the channel
Wanted(s) == \E k \in s.tasks : k.intent = s.intent

\* nothing carries a version that is yet to come
NothingAhead(s, w) ==
    /\ \A x \in Under(w.down) : x.type = "SNAPSHOT_REQUIRED" => x.version <= version
    /\ \A k \in s.tasks : k.at <= version

\* a tab that believes itself subscribed is on a page of the room, has a
\* socket, and its last wish was to subscribe
BelievesRightly(s, w, c) ==
    c.subscribed =>
      /\ c.page \in {"SEATS", "GAME"}
      /\ s.socket \in {"UP", "KICKED"}
      /\ w.up # <<>> => w.up[Len(w.up)] = "SUBSCRIBE"

\* and once that wish has arrived, the tab is in the channel, is on its way to
\* it, or will be told that it is not
HasPlace(s, w, c, m) ==
    s.socket = "UP" /\ c.subscribed /\ w.up = <<>> /\ m # "CHANNEL" =>
      s.joined \/ Wanted(s) \/ Losing(w)

\* what a tab knows of and does not show it is reading, or has failed to read,
\* or was reading when its user began a write
ReadsWhatItKnows(c) ==
    \/ c.knows <= c.shows
    \/ c.told
    \/ c.read.stage \in {"ASKED", "FORGOTTEN"}
    \/ c.read.stage = "ANSWERED" /\ c.read.version >= c.knows

\* nothing a tab shows, knows of or has read is ahead of the room, and what is
\* as new as the room was read while it was open; an answer is not older than
\* the screen
PageStands(c) ==
    /\ c.shows <= version /\ c.knows <= version
    /\ c.shows = version => ~ room.trashed
    /\ c.read.stage = "ANSWERED" =>
         /\ c.shows <= c.read.version /\ c.read.version <= version
         /\ c.read.version = version /\ c.read.open => ~ room.trashed
    /\ ReadsWhatItKnows(c)

\* the tab shows the present version, has it on its way, or has something
\* before it that makes it read again
HearsOfIt(s, w, c) ==
    \/ c.told
    \/ c.shows = version
    \/ c.read.stage \in {"ASKED", "FORGOTTEN"}
    \/ c.read.stage = "ANSWERED" /\ c.read.version = version
    \/ ToBeAnnounced
    \/ News(version) \in Under(w.down)
    \/ Losing(w)
    \/ w.up # <<>>
    \/ \E k \in s.tasks : k.intent = s.intent /\ (k.stage # "ALLOWED" \/ k.at = version)

WillHear(s, w, c, m) ==
    /\ s.socket = "UP"
    /\ c.page \in {"SEATS", "GAME"}
    /\ c.subscribed
    /\ m = "NOTHING"
    => HearsOfIt(s, w, c)

Level(s, w, c, m) ==
    /\ NothingAhead(s, w)
    /\ BelievesRightly(s, w, c)
    /\ HasPlace(s, w, c, m)
    /\ PageStands(c)
    /\ WillHear(s, w, c, m)

\* no announcement is of a version that is yet to come
NoticesPast == \A n \in notices : n.kind = "VERSION" => n.version <= version

LevelTab(t) == Level(server[t], wire[t], client[t], missed[t])

\* the inductive invariant of the tabs
TabRules == TabTypes /\ NoticesPast /\ \A t \in Tab : LevelTab(t)
TabInv == Inv /\ TabRules

-----------------------------------------------------------------------------
(* Messages and memories *)

\* A message that is sent is under way, and nothing else is new.
LEMMA UnderAppend ==
  ASSUME NEW S, NEW q \in Seq(S), NEW x \in S
  PROVE  /\ Append(q, x) \in Seq(S) /\ Append(q, x) # <<>>
         /\ Append(q, x)[Len(Append(q, x))] = x
         /\ Under(Append(q, x)) = Under(q) \cup {x}
<1> DEFINE r == Append(q, x)
<1>1. /\ r \in Seq(S) /\ Len(r) = Len(q) + 1 /\ r # <<>>
      /\ \A i \in 1 .. Len(q) : r[i] = q[i]
      /\ r[Len(q) + 1] = x
  OBVIOUS
<1>2. DOMAIN q = 1 .. Len(q) /\ DOMAIN r = 1 .. Len(q) + 1 /\ Len(q) \in Nat
  BY <1>1
<1> HIDE DEF r
<1>3. Under(r) = Under(q) \cup {x}
  <2>1. \A y \in Under(r) : y \in Under(q) \cup {x}
    BY <1>1, <1>2 DEF Under
  <2>2. \A y \in Under(q) \cup {x} : y \in Under(r)
    BY <1>1, <1>2 DEF Under
  <2> QED
    BY <2>1, <2>2
<1> QED
  BY <1>1, <1>3 DEF r

\* A message that is heard is no longer under way, the others are.
LEMMA UnderTail ==
  ASSUME NEW S, NEW q \in Seq(S), q # <<>>
  PROVE  /\ Head(q) \in S /\ Tail(q) \in Seq(S)
         /\ Head(q) \in Under(q)
         /\ Under(Tail(q)) \subseteq Under(q)
         /\ Under(q) \subseteq {Head(q)} \cup Under(Tail(q))
         /\ Tail(q) # <<>> => Tail(q)[Len(Tail(q))] = q[Len(q)]
         /\ Tail(q) = <<>> => Head(q) = q[Len(q)]
<1> DEFINE r == Tail(q)
<1>1. /\ r \in Seq(S) /\ Len(q) \in Nat /\ Len(q) > 0 /\ Len(r) = Len(q) - 1
      /\ \A i \in 1 .. Len(r) : r[i] = q[i + 1]
      /\ Head(q) = q[1]
  OBVIOUS
<1> HIDE DEF r
<1>2. DOMAIN q = 1 .. Len(q) /\ DOMAIN r = 1 .. Len(q) - 1
  BY <1>1
<1>3. r = <<>> <=> Len(r) = 0
  BY <1>1, EmptySeq
<1>4. Head(q) \in S /\ Head(q) \in Under(q)
  BY <1>1, <1>2 DEF Under
<1>5. ASSUME NEW y \in Under(r) PROVE y \in Under(q)
  <2>1. PICK i \in 1 .. Len(q) - 1 : y = r[i]
    BY <1>2, <1>5 DEF Under
  <2>2. y = q[i + 1] /\ i + 1 \in 1 .. Len(q)
    BY <1>1, <2>1
  <2> QED
    BY <1>2, <2>2 DEF Under
<1>6. ASSUME NEW y \in Under(q), y # Head(q) PROVE y \in Under(r)
  <2>1. PICK i \in 1 .. Len(q) : y = q[i]
    BY <1>2, <1>6 DEF Under
  <2>2. i # 1
    BY <1>1, <1>6, <2>1
  <2>3. i - 1 \in 1 .. Len(q) - 1 /\ r[i - 1] = y
    BY <1>1, <2>1, <2>2
  <2> QED
    BY <1>2, <2>3 DEF Under
<1>7. r # <<>> => r[Len(r)] = q[Len(q)]
  BY <1>1, <1>3
<1>8. r = <<>> => Head(q) = q[Len(q)]
  BY <1>1, <1>3
<1> QED
  BY <1>1, <1>4, <1>5, <1>6, <1>7, <1>8 DEF r

\* Nothing is under way on a connection that is new or gone.
LEMMA UnderNothing == Under(<<>>) = {}
  BY DEF Under

\* The messages of the API are messages, and two of them end a subscription.
LEMMA MessageTypes ==
  /\ \A v \in Nat : News(v) \in Message /\ News(v).type = "SNAPSHOT_REQUIRED"
                    /\ News(v).version = v
  /\ \A reason \in {"STARTED", "TAKEN", "TRASH", "REJECTED"} :
        Lost(reason) \in Message /\ Lost(reason).type = "SUBSCRIPTION_LOST"
  /\ [type |-> "REVOKED"] \in Message
  BY DEF Message, News, Lost

\* A memory that reads again forgets its last read and its error.
LEMMA ReadingType ==
  ASSUME NEW c \in Memory
  PROVE  /\ Reading(c) \in Memory
         /\ Reading(c).read.stage = "ASKED" /\ ~ Reading(c).told
         /\ Reading(c).page = c.page /\ Reading(c).subscribed = c.subscribed
         /\ Reading(c).knows = c.knows /\ Reading(c).shows = c.shows
<1> DEFINE asks == [c EXCEPT !.read = Asked]
<1>1. /\ asks = [page |-> c.page, subscribed |-> c.subscribed, knows |-> c.knows,
                 shows |-> c.shows, read |-> Asked, told |-> c.told, write |-> c.write,
                 presses |-> c.presses]
      /\ Asked \in ReadState /\ Asked.stage = "ASKED"
  BY DEF Memory, Asked, ReadState
<1>2. Reading(c) = [asks EXCEPT !.told = FALSE]
  BY DEF Reading
<1> HIDE DEF asks
<1>3. Reading(c) = [page |-> c.page, subscribed |-> c.subscribed, knows |-> c.knows,
                    shows |-> c.shows, read |-> Asked, told |-> FALSE,
                    write |-> c.write, presses |-> c.presses]
  BY <1>1, <1>2
<1> QED
  BY <1>1, <1>3 DEF Memory

\* A page of the room opens empty, and reads.
LEMMA OpensRoomType ==
  ASSUME NEW c \in Memory, NEW page \in {"SEATS", "GAME"}
  PROVE  /\ OpensRoom(c, page) \in Memory
         /\ OpensRoom(c, page).read.stage = "ASKED" /\ ~ OpensRoom(c, page).told
         /\ OpensRoom(c, page).page = page
         /\ OpensRoom(c, page).subscribed = c.subscribed
         /\ OpensRoom(c, page).knows = 0 /\ OpensRoom(c, page).shows = 0
<1> DEFINE r == Reading(c)
           paged == [r EXCEPT !.page = page]
           forgot == [paged EXCEPT !.knows = 0]
<1>1. /\ r \in Memory /\ r.read.stage = "ASKED" /\ ~ r.told
      /\ r.subscribed = c.subscribed
  BY ReadingType
<1>2. OpensRoom(c, page) = [[forgot EXCEPT !.shows = 0] EXCEPT !.write = "NONE"]
  BY DEF OpensRoom
<1> HIDE DEF r
<1>3. /\ paged \in Memory /\ paged.read = r.read /\ paged.told = r.told
      /\ paged.page = page /\ paged.subscribed = r.subscribed
  BY <1>1 DEF Memory, Page
<1> HIDE DEF paged
<1>4. /\ forgot \in Memory /\ forgot.read = r.read /\ forgot.told = r.told
      /\ forgot.page = page /\ forgot.subscribed = r.subscribed /\ forgot.knows = 0
  BY <1>3 DEF Memory
<1> HIDE DEF forgot
<1> DEFINE opened == [forgot EXCEPT !.shows = 0]
<1>5. /\ opened \in Memory /\ opened.read = r.read /\ opened.told = r.told
      /\ opened.page = page /\ opened.subscribed = r.subscribed
      /\ opened.knows = 0 /\ opened.shows = 0
  BY <1>4 DEF Memory
<1> DEFINE ready == [opened EXCEPT !.write = "NONE"]
<1>6. OpensRoom(c, page) = ready
  BY <1>2
<1> HIDE DEF opened
<1>7. /\ ready \in Memory /\ ready.read = r.read /\ ready.told = r.told
      /\ ready.page = page /\ ready.subscribed = r.subscribed
      /\ ready.knows = 0 /\ ready.shows = 0
  BY <1>5 DEF Memory
<1> QED
  BY <1>1, <1>6, <1>7

\* A page without the room keeps nothing of it.
LEMMA LeavesRoomType ==
  ASSUME NEW c \in Memory, NEW page \in {"LIST", "LOGIN"}
  PROVE  /\ LeavesRoom(c, page) \in Memory
         /\ LeavesRoom(c, page).page = page /\ ~ LeavesRoom(c, page).subscribed
         /\ LeavesRoom(c, page).knows = 0 /\ LeavesRoom(c, page).shows = 0
         /\ LeavesRoom(c, page).read.stage = "NONE"
<1> DEFINE paged == [c EXCEPT !.page = page]
           left == [paged EXCEPT !.subscribed = FALSE]
           forgot == [left EXCEPT !.knows = 0]
           empty == [forgot EXCEPT !.shows = 0]
           idle == [empty EXCEPT !.read = NoRead]
<1>1. LeavesRoom(c, page) = [[idle EXCEPT !.told = FALSE] EXCEPT !.write = "NONE"]
  BY DEF LeavesRoom
<1>2. paged \in Memory /\ paged.page = page
  BY DEF Memory, Page
<1> HIDE DEF paged
<1>3. left \in Memory /\ left.page = page /\ ~ left.subscribed
  BY <1>2 DEF Memory
<1> HIDE DEF left
<1>4. /\ forgot \in Memory /\ forgot.page = page /\ ~ forgot.subscribed
      /\ forgot.knows = 0
  BY <1>3 DEF Memory
<1> HIDE DEF forgot
<1>5. /\ empty \in Memory /\ empty.page = page /\ ~ empty.subscribed
      /\ empty.knows = 0 /\ empty.shows = 0
  BY <1>4 DEF Memory
<1> HIDE DEF empty
<1>6. NoRead \in ReadState /\ NoRead.stage = "NONE"
  BY DEF NoRead, ReadState
<1> HIDE DEF NoRead
<1>7. /\ idle \in Memory /\ idle.page = page /\ ~ idle.subscribed
      /\ idle.knows = 0 /\ idle.shows = 0 /\ idle.read = NoRead
  BY <1>5, <1>6 DEF Memory
<1> HIDE DEF idle
<1> DEFINE quiet == [idle EXCEPT !.told = FALSE]
<1>8. /\ quiet \in Memory /\ quiet.page = page /\ ~ quiet.subscribed
      /\ quiet.knows = 0 /\ quiet.shows = 0 /\ quiet.read = NoRead
  BY <1>7 DEF Memory
<1> DEFINE ready == [quiet EXCEPT !.write = "NONE"]
<1>9. LeavesRoom(c, page) = ready
  BY <1>1
<1> HIDE DEF quiet
<1>10. /\ ready \in Memory /\ ready.page = page /\ ~ ready.subscribed
       /\ ready.knows = 0 /\ ready.shows = 0 /\ ready.read = NoRead
  BY <1>8 DEF Memory
<1> QED
  BY <1>6, <1>9, <1>10

\* two memories that differ in the writes of the user only
Alike(c, d) ==
    /\ d.page = c.page /\ d.subscribed = c.subscribed
    /\ d.knows = c.knows /\ d.shows = c.shows
    /\ d.read = c.read /\ d.told = c.told

\* A write of the user that begins, is committed or answered leaves the rest of
\* the memory alone.
LEMMA WriteType ==
  ASSUME NEW c \in Memory, NEW x \in {"NONE", "SENT", "DONE"}, NEW n \in Nat
  PROVE  /\ [c EXCEPT !.write = x] \in Memory /\ Alike(c, [c EXCEPT !.write = x])
         /\ [c EXCEPT !.write = x, !.presses = n] \in Memory
         /\ Alike(c, [c EXCEPT !.write = x, !.presses = n])
<1> DEFINE d == [c EXCEPT !.write = x]
           e == [d EXCEPT !.presses = n]
<1>1. d \in Memory
  BY DEF Memory
<1>2. Alike(c, d)
  BY DEF Memory, Alike
<1> HIDE DEF d
<1>3. e \in Memory
  BY <1>1 DEF Memory
<1>4. Alike(d, e)
  BY <1>1 DEF Memory, Alike
<1>5. Alike(c, e)
  BY <1>2, <1>4 DEF Alike
<1> QED
  BY <1>1, <1>2, <1>3, <1>5 DEF d

-----------------------------------------------------------------------------
(* What keeps a tab level *)

USE DEF Wire

\* The version, the room and the announcement of the present version stay.
RoomStays == UNCHANGED <<version, room>> /\ (ToBeAnnounced => ToBeAnnounced')

\* A tab of which nothing changes stays level as long as the room does.
LEMMA LevelStays ==
  ASSUME RoomStays, NEW s, NEW w, NEW c, NEW m, Level(s, w, c, m)
  PROVE  Level(s, w, c, m)'
<1>1. version' = version /\ room' = room
  BY DEF RoomStays
<1>2. /\ NothingAhead(s, w)' /\ BelievesRightly(s, w, c)' /\ HasPlace(s, w, c, m)'
      /\ PageStands(c)'
  BY <1>1 DEF Level, NothingAhead, BelievesRightly, HasPlace, PageStands, ReadsWhatItKnows,
     Losing, Wanted
<1>3. HearsOfIt(s, w, c) => HearsOfIt(s, w, c)'
  BY <1>1 DEF RoomStays, HearsOfIt, Losing
<1>4. WillHear(s, w, c, m)'
  BY <1>3 DEF Level, WillHear
<1> QED
  BY <1>2, <1>4 DEF Level

\* A write leaves every tab level: it is still to be announced.
LEMMA LevelAfterWrite ==
  ASSUME version \in Nat, version' = version + 1, ToBeAnnounced',
         NEW s \in ServerEnd, NEW w \in Wire, NEW c \in Memory, NEW m, Level(s, w, c, m)
  PROVE  Level(s, w, c, m)'
<1>1. c.shows \in Nat /\ c.knows \in Nat
  BY DEF Memory
<1>2. c.read.stage = "ANSWERED" => c.read.version \in Nat
  BY DEF Memory, ReadState, NoRead, Asked, Forgotten
<1>3. PageStands(c)'
  BY <1>1, <1>2 DEF Level, PageStands, ReadsWhatItKnows
<1>4. NothingAhead(s, w)'
  <2>1. \A x \in Under(w.down) : x.type = "SNAPSHOT_REQUIRED" => x.version \in Nat
    BY DEF Under, Message
  <2>2. \A k \in s.tasks : k.at \in Nat
    BY DEF ServerEnd
  <2> QED
    BY <2>1, <2>2 DEF Level, NothingAhead
<1>5. BelievesRightly(s, w, c)' /\ HasPlace(s, w, c, m)'
  BY DEF Level, BelievesRightly, HasPlace, Losing, Wanted
<1>6. WillHear(s, w, c, m)'
  BY DEF WillHear, HearsOfIt
<1> QED
  BY <1>3, <1>4, <1>5, <1>6 DEF Level

\* What one connection, tab and server's end do is of no account to the others.
LEMMA OneTabAnnounced ==
  ASSUME TabRules, RoomStays, notices' \subseteq notices, NEW t \in Tab,
         server' \in [Tab -> ServerEnd],
         \A u \in Tab \ {t} : server'[u] = server[u],
         NEW w \in Wire, wire' = [wire EXCEPT ![t] = w],
         NEW c \in Memory, client' = [client EXCEPT ![t] = c],
         NEW m \in Miss, missed' = [missed EXCEPT ![t] = m],
         Level(server'[t], w, c, m)
  PROVE  TabRules'
<1>1. TabTypes'
  BY DEF TabRules, TabTypes, RoomStays
<1>2. NoticesPast'
  BY DEF TabRules, NoticesPast, RoomStays
<1>4. ASSUME NEW u \in Tab PROVE LevelTab(u)'
  <2>1. CASE u = t
    <3>1. wire'[u] = w /\ client'[u] = c /\ missed'[u] = m
      BY <2>1 DEF TabRules, TabTypes
    <3>2. \A x : x = server'[t] => Level(x, w, c, m)'
      BY LevelStays
    <3> QED
      BY <2>1, <3>1, <3>2 DEF LevelTab
  <2>2. CASE u # t
    <3>1. /\ server'[u] = server[u] /\ wire'[u] = wire[u]
          /\ client'[u] = client[u] /\ missed'[u] = missed[u]
      BY <2>2 DEF TabRules, TabTypes
    <3>2. LevelTab(u)
      BY DEF TabRules
    <3> QED
      BY <3>1, <3>2, LevelStays DEF LevelTab
  <2> QED
    BY <2>1, <2>2
<1> QED
  BY <1>1, <1>2, <1>4 DEF TabRules

\* The same when nothing is announced.
LEMMA OneTab ==
  ASSUME TabRules, UNCHANGED <<version, room, notices>>, NEW t \in Tab,
         server' \in [Tab -> ServerEnd],
         \A u \in Tab \ {t} : server'[u] = server[u],
         NEW w \in Wire, wire' = [wire EXCEPT ![t] = w],
         NEW c \in Memory, client' = [client EXCEPT ![t] = c],
         NEW m \in Miss, missed' = [missed EXCEPT ![t] = m],
         Level(server'[t], w, c, m)
  PROVE  TabRules'
<1>1. RoomStays /\ notices' \subseteq notices
  BY DEF RoomStays, ToBeAnnounced
<1> QED
  BY <1>1, OneTabAnnounced

-----------------------------------------------------------------------------
(* The server's end *)

\* What the proofs about a step of tab t start from.
LEMMA TabFacts ==
  ASSUME TabInv, NEW t \in Tab
  PROVE  /\ version \in Nat \ {0} /\ evictions \in Nat
         /\ server \in [Tab -> ServerEnd] /\ server[t] \in ServerEnd
         /\ wire \in [Tab -> Wire] /\ wire[t] \in Wire
         /\ client \in [Tab -> Memory] /\ client[t] \in Memory
         /\ missed \in [Tab -> Miss] /\ missed[t] \in Miss
         /\ LevelTab(t) /\ Level(server[t], wire[t], client[t], missed[t])
         /\ Holds(t)
         /\ client = [client EXCEPT ![t] = client[t]]
         /\ wire = [wire EXCEPT ![t] = wire[t]]
         /\ missed = [missed EXCEPT ![t] = missed[t]]
  BY DEF TabInv, TabRules, TabTypes, Inv, ChannelTypes, LevelTab

\* A wish that arrives leaves the later ones.
LEMMA HeardUp ==
  ASSUME NEW w \in Wire, w.up # <<>>
  PROVE  LET v == [w EXCEPT !.up = Tail(@)] IN
         /\ v \in Wire /\ v.up = Tail(w.up) /\ v.down = w.down
         /\ v.up # <<>> => v.up[Len(v.up)] = w.up[Len(w.up)]
         /\ v.up = <<>> => w.up[Len(w.up)] = Head(w.up)
<1>1. w.up \in Seq(Wish)
  OBVIOUS
<1>2. /\ Tail(w.up) \in Seq(Wish)
      /\ Tail(w.up) # <<>> => Tail(w.up)[Len(Tail(w.up))] = w.up[Len(w.up)]
      /\ Tail(w.up) = <<>> => w.up[Len(w.up)] = Head(w.up)
  BY <1>1, UnderTail
<1> DEFINE rest == Tail(w.up)
           v == [w EXCEPT !.up = rest]
<1> HIDE DEF rest
<1>3. v \in Wire /\ v.up = rest /\ v.down = w.down
  BY <1>2 DEF rest
<1> QED
  BY <1>2, <1>3 DEF rest

\* A socket that is not up, or has no wish that counts, needs nothing.
LEMMA GreetStaysLevel ==
  ASSUME TabInv, Inv', NEW t \in Tab, Greet(t)
  PROVE  TabRules'
<1> DEFINE s == [server[t] EXCEPT !.socket = "GREETED"]
<1>1. /\ server' = [server EXCEPT ![t] = s] /\ server[t].socket = "DOWN"
      /\ UNCHANGED <<version, room, notices, wire, client, missed>>
  BY DEF Greet, serverRest
<1>2. s.socket = "GREETED" /\ s.tasks = server[t].tasks
  BY TabFacts DEF ServerEnd
<1> HIDE DEF s
<1>3. server'[t] = s /\ \A u \in Tab \ {t} : server'[u] = server[u]
  BY <1>1, TabFacts
<1>4. server' \in [Tab -> ServerEnd]
  BY DEF Inv, ChannelTypes
<1>5. Level(server'[t], wire[t], client[t], missed[t])
  BY <1>1, <1>2, <1>3, TabFacts
  DEF Level, NothingAhead, BelievesRightly, HasPlace, WillHear
<1> QED
  BY <1>1, <1>3, <1>4, <1>5, OneTab, TabFacts DEF TabInv

\* A wish to subscribe that arrives has the tab wanted in the channel.
LEMMA SubscribeStaysLevel ==
  ASSUME TabInv, Inv', NEW t \in Tab, Subscribe(t)
  PROVE  TabRules'
<1> DEFINE k == [intent |-> server[t].intent + 1, evictions |-> evictions, at |-> 0,
                 stage |-> "ASKED"]
           next == server[t].intent + 1
           more == server[t].tasks \cup {k}
           s == [server[t] EXCEPT !.intent = next, !.tasks = more]
           w == [wire[t] EXCEPT !.up = Tail(@)]
<1>1. /\ server' = [server EXCEPT ![t] = s]
      /\ wire' = [wire EXCEPT ![t] = w]
      /\ missed' = [missed EXCEPT ![t] = "NOTHING"]
      /\ UNCHANGED <<version, room, notices, client>>
      /\ wire[t].up # <<>>
  BY DEF Subscribe, serverRest
<1>2. next \in Nat /\ more \in SUBSET Task
  BY TabFacts DEF ServerEnd, Task
<1>3. k.intent = next /\ k.at = 0 /\ k.stage = "ASKED" /\ k \in more
  OBVIOUS
<1>4. w \in Wire /\ w.up = Tail(wire[t].up) /\ w.down = wire[t].down
      /\ (w.up # <<>> => w.up[Len(w.up)] = wire[t].up[Len(wire[t].up)])
  BY <1>1, HeardUp, TabFacts
<1> HIDE DEF k, next, w
<1>5. s.socket = server[t].socket /\ s.intent = next /\ s.tasks = more
  <2>1. server[t] \in ServerEnd /\ TRUE \in BOOLEAN
    BY TabFacts
  <2> HIDE DEF more
  <2>2. s = [socket |-> server[t].socket, joined |-> server[t].joined,
             intent |-> next, tasks |-> more]
    BY <1>2, <2>1, Parts, ZenonT(60)
  <2> HIDE DEF s
  <2> QED
    BY <2>2
<1>6. \A j \in more : j.at <= version
  BY <1>3, TabFacts DEF Level, NothingAhead
<1> HIDE DEF s, more
<1>7. server'[t] = s /\ \A u \in Tab \ {t} : server'[u] = server[u]
  BY <1>1, TabFacts
<1>8. server' \in [Tab -> ServerEnd] /\ "NOTHING" \in Miss
  BY DEF Inv, ChannelTypes, Miss
<1>9. Level(s, w, client[t], "NOTHING")
  <2>1. NothingAhead(s, w) /\ PageStands(client[t])
    BY <1>4, <1>5, <1>6, TabFacts DEF Level, NothingAhead
  <2>2. BelievesRightly(s, w, client[t])
    BY <1>1, <1>4, <1>5, TabFacts DEF Level, BelievesRightly
  <2>3. HasPlace(s, w, client[t], "NOTHING") /\ WillHear(s, w, client[t], "NOTHING")
    BY <1>3, <1>5 DEF HasPlace, Wanted, WillHear, HearsOfIt
  <2> QED
    BY <2>1, <2>2, <2>3 DEF Level
<1> QED
  BY <1>1, <1>4, <1>7, <1>8, <1>9, OneTab, TabFacts DEF TabInv

\* A wish to unsubscribe is never the last one of a tab that believes itself
\* subscribed.
LEMMA UnsubscribeStaysLevel ==
  ASSUME TabInv, Inv', NEW t \in Tab, Unsubscribe(t)
  PROVE  TabRules'
<1> DEFINE next == server[t].intent + 1
           s == [server[t] EXCEPT !.intent = next, !.joined = FALSE]
           w == [wire[t] EXCEPT !.up = Tail(@)]
<1>1. /\ server' = [server EXCEPT ![t] = s]
      /\ wire' = [wire EXCEPT ![t] = w]
      /\ UNCHANGED <<version, room, notices, client, missed>>
      /\ wire[t].up # <<>> /\ Head(wire[t].up) = "UNSUBSCRIBE"
  BY DEF Unsubscribe, serverRest
<1>2. next \in Nat
  BY TabFacts DEF ServerEnd
<1>4. /\ w \in Wire /\ w.up = Tail(wire[t].up) /\ w.down = wire[t].down
      /\ (w.up # <<>> => w.up[Len(w.up)] = wire[t].up[Len(wire[t].up)])
      /\ (w.up = <<>> => wire[t].up[Len(wire[t].up)] = "UNSUBSCRIBE")
  BY <1>1, HeardUp, TabFacts
<1> HIDE DEF next, w
<1>5. s.socket = server[t].socket /\ s.tasks = server[t].tasks
  <2>1. server[t] \in ServerEnd /\ FALSE \in BOOLEAN /\ {} \in SUBSET Task
    BY TabFacts
  <2>2. s = [socket |-> server[t].socket, joined |-> FALSE,
             intent |-> next, tasks |-> server[t].tasks]
    BY <1>2, <2>1, Parts, ZenonT(60)
  <2> HIDE DEF s
  <2> QED
    BY <2>2
<1> HIDE DEF s
<1>7. server'[t] = s /\ \A u \in Tab \ {t} : server'[u] = server[u]
  BY <1>1, TabFacts
<1>8. server' \in [Tab -> ServerEnd]
  BY DEF Inv, ChannelTypes
<1>9. Level(s, w, client[t], missed[t])
  <2>1. NothingAhead(s, w) /\ PageStands(client[t])
    BY <1>4, <1>5, TabFacts DEF Level, NothingAhead
  <2>2. BelievesRightly(s, w, client[t]) /\ (client[t].subscribed => w.up # <<>>)
    BY <1>1, <1>4, <1>5, TabFacts DEF Level, BelievesRightly
  <2>3. HasPlace(s, w, client[t], missed[t]) /\ WillHear(s, w, client[t], missed[t])
    BY <2>2 DEF HasPlace, WillHear, HearsOfIt
  <2> QED
    BY <2>1, <2>2, <2>3 DEF Level
<1> QED
  BY <1>1, <1>4, <1>7, <1>8, <1>9, OneTab, TabFacts DEF TabInv

\* A subscription that is decided is wanted as before, and if it was allowed,
\* it will bring the version of that moment.
LEMMA AuthoriseStaysLevel ==
  ASSUME TabInv, Inv', NEW t \in Tab, NEW k \in server[t].tasks, Authorise(t, k)
  PROVE  TabRules'
<1>1. PICK j \in {[k EXCEPT !.stage = "DENIED"]}
               \cup IF Entitled(t) THEN {[k EXCEPT !.stage = "ALLOWED", !.at = version]} ELSE {} :
        server' = [server EXCEPT ![t].tasks = (@ \ {k}) \cup {j}]
  BY DEF Authorise
<1> DEFINE rest == (server[t].tasks \ {k}) \cup {j}
           s == [server[t] EXCEPT !.tasks = rest]
<1>2. server' = [server EXCEPT ![t] = s]
      /\ UNCHANGED <<version, room, notices, wire, client, missed>>
  BY <1>1 DEF Authorise, serverRest
<1>3. k \in Task /\ k.at <= version
  BY TabFacts DEF ServerEnd, Task, Level, NothingAhead
<1>4. /\ j.intent = k.intent /\ j.at <= version
      /\ j.stage # "ALLOWED" \/ j.at = version
  <2>1. CASE j = [k EXCEPT !.stage = "DENIED"]
    BY <1>3, <2>1 DEF Task
  <2>2. CASE j = [k EXCEPT !.stage = "ALLOWED", !.at = version]
    <3>1. j.intent = k.intent /\ j.at = version
      BY <1>3, <2>2 DEF Task
    <3> QED
      BY <3>1, TabFacts
  <2> QED
    BY <1>1, <2>1, <2>2
<1>5. s.socket = server[t].socket /\ s.joined = server[t].joined
      /\ s.intent = server[t].intent /\ s.tasks = rest
  BY TabFacts DEF ServerEnd
<1> HIDE DEF s
<1>6. \A i \in rest : i.at <= version
  BY <1>4, TabFacts DEF Level, NothingAhead
<1>7. server'[t] = s /\ \A u \in Tab \ {t} : server'[u] = server[u]
  BY <1>2, TabFacts
<1>8. server' \in [Tab -> ServerEnd]
  BY DEF Inv, ChannelTypes
<1>9. Level(s, wire[t], client[t], missed[t])
  <2>1. /\ NothingAhead(s, wire[t]) /\ PageStands(client[t])
        /\ BelievesRightly(s, wire[t], client[t])
    BY <1>5, <1>6, TabFacts DEF Level, NothingAhead, BelievesRightly
  <2>2. ASSUME NEW i \in server[t].tasks, i.intent = server[t].intent
        PROVE  \E h \in rest : h.intent = s.intent /\ (h = i \/ h = j)
    <3>1. CASE i = k
      BY <1>4, <1>5, <2>2, <3>1
    <3>2. CASE i # k
      BY <1>5, <2>2, <3>2
    <3> QED
      BY <3>1, <3>2
  <2>3. HasPlace(s, wire[t], client[t], missed[t])
    BY <1>5, <2>2, TabFacts DEF Level, HasPlace, Wanted
  <2>4. HearsOfIt(server[t], wire[t], client[t]) => HearsOfIt(s, wire[t], client[t])
    <3>1. ASSUME NEW i \in server[t].tasks, i.intent = server[t].intent,
                 i.stage # "ALLOWED" \/ i.at = version
          PROVE  \E h \in s.tasks : h.intent = s.intent /\ (h.stage # "ALLOWED" \/ h.at = version)
      BY <1>4, <1>5, <2>2, <3>1
    <3> QED
      BY <3>1 DEF HearsOfIt
  <2>5. WillHear(s, wire[t], client[t], missed[t])
    BY <1>5, <2>4, TabFacts DEF Level, WillHear
  <2> QED
    BY <2>1, <2>3, <2>5 DEF Level
<1> QED
  BY <1>2, <1>7, <1>8, <1>9, OneTab, TabFacts DEF TabInv

\* A message that is sent to a tab is under way to it.
LEMMA SentDown ==
  ASSUME NEW w \in Wire, NEW x \in Message
  PROVE  LET v == [w EXCEPT !.down = Append(@, x)] IN
         /\ v \in Wire /\ v.up = w.up
         /\ Under(v.down) = Under(w.down) \cup {x}
<1>1. w.down \in Seq(Message)
  OBVIOUS
<1> DEFINE more == Append(w.down, x)
           v == [w EXCEPT !.down = more]
<1>2. more \in Seq(Message) /\ Under(more) = Under(w.down) \cup {x}
  BY <1>1, UnderAppend
<1> HIDE DEF more
<1>3. v \in Wire /\ v.up = w.up /\ v.down = more
  BY <1>2
<1> QED
  BY <1>2, <1>3 DEF more

\* A wish that is sent is the last one.
LEMMA SentUp ==
  ASSUME NEW w \in Wire, NEW x \in Wish
  PROVE  LET v == [w EXCEPT !.up = Append(@, x)] IN
         /\ v \in Wire /\ v.down = w.down
         /\ v.up # <<>> /\ v.up[Len(v.up)] = x
<1>1. w.up \in Seq(Wish)
  OBVIOUS
<1> DEFINE more == Append(w.up, x)
           v == [w EXCEPT !.up = more]
<1>2. more \in Seq(Wish) /\ more # <<>> /\ more[Len(more)] = x
  BY <1>1, UnderAppend
<1> HIDE DEF more
<1>3. v \in Wire /\ v.down = w.down /\ v.up = more
  BY <1>2
<1> QED
  BY <1>2, <1>3 DEF more

\* A tab that is told that its subscription is gone will read again.
LEMMA LosingIsEnough ==
  ASSUME NEW s, NEW r, NEW w, NEW v, NEW c, NEW m, NEW x,
         Level(s, w, c, m),
         r.socket = s.socket, r.tasks \subseteq s.tasks, v.up = w.up,
         Under(v.down) = Under(w.down) \cup {x},
         x.type \in {"SUBSCRIPTION_LOST", "REVOKED"}
  PROVE  /\ Level(r, v, c, m)
         /\ UNCHANGED <<version, room>> => Level(r, v, c, m)'
<1>1. NothingAhead(r, v) /\ BelievesRightly(r, v, c) /\ PageStands(c)
  BY DEF Level, NothingAhead, BelievesRightly
<1>2. Losing(v)
  BY DEF Losing
<1>3. Level(r, v, c, m)
  BY <1>1, <1>2 DEF Level, HasPlace, WillHear, HearsOfIt
<1>4. UNCHANGED <<version, room>> => Level(r, v, c, m)'
  <2> SUFFICES ASSUME version' = version, room' = room PROVE Level(r, v, c, m)'
    OBVIOUS
  <2>1. NothingAhead(r, v)' /\ BelievesRightly(r, v, c)' /\ PageStands(c)'
    BY <1>1 DEF NothingAhead, BelievesRightly, PageStands, ReadsWhatItKnows
  <2>2. Losing(v)'
    BY <1>2 DEF Losing
  <2> QED
    BY <2>1, <2>2 DEF Level, HasPlace, WillHear, HearsOfIt
<1> QED
  BY <1>3, <1>4

\* A subscription that has come through is in the channel, and the tab hears of
\* the version it was allowed at; one that an eviction overtook is missed.
LEMMA JoinStaysLevel ==
  ASSUME TabInv, Inv', NEW t \in Tab, NEW k \in server[t].tasks, Join(t, k)
  PROVE  TabRules'
<1> DEFINE s == [server[t] EXCEPT !.tasks = @ \ {k}, !.joined = @ \/ Current(t, k)]
           old == server[t]
<1>1. /\ server' = [server EXCEPT ![t] = s] /\ k.stage = "ALLOWED"
      /\ UNCHANGED <<version, room, notices, client>>
  BY DEF Join, serverRest
<1>2. /\ s.socket = old.socket /\ s.joined = (old.joined \/ Current(t, k))
      /\ s.intent = old.intent /\ s.tasks = old.tasks \ {k}
  BY TabFacts DEF ServerEnd, Current
<1> HIDE DEF s
<1>3. server'[t] = s /\ \A u \in Tab \ {t} : server'[u] = server[u]
  BY <1>1, TabFacts
<1>4. server' \in [Tab -> ServerEnd]
  BY DEF Inv, ChannelTypes
<1>5. k.at \in Nat /\ k.at <= version
  BY TabFacts DEF ServerEnd, Level, NothingAhead
<1>6. Level(old, wire[t], client[t], missed[t])
  BY TabFacts
<1>7. CASE Current(t, k)
  <2> DEFINE x == News(k.at)
             w == [wire[t] EXCEPT !.down = Append(@, x)]
  <2>1. wire' = [wire EXCEPT ![t] = w] /\ missed' = missed
    BY <1>7 DEF Join, Tell, Current
  <2>2. x \in Message /\ x.type = "SNAPSHOT_REQUIRED" /\ x.version = k.at
    BY <1>5, MessageTypes
  <2> HIDE DEF x
  <2>3. w \in Wire /\ w.up = wire[t].up /\ Under(w.down) = Under(wire[t].down) \cup {x}
    BY <2>2, SentDown, TabFacts
  <2> HIDE DEF w
  <2>4. NothingAhead(s, w) /\ BelievesRightly(s, w, client[t]) /\ PageStands(client[t])
    BY <1>2, <1>5, <1>6, <2>2, <2>3 DEF Level, NothingAhead, BelievesRightly
  <2>5. HasPlace(s, w, client[t], missed[t])
    BY <1>2, <1>7 DEF HasPlace
  <2>6. HearsOfIt(old, wire[t], client[t]) => HearsOfIt(s, w, client[t])
    <3>1. k.at = version => News(version) \in Under(w.down)
      BY <2>3 DEF x
    <3>2. Losing(wire[t]) => Losing(w)
      BY <2>3 DEF Losing
    <3>3. ASSUME NEW i \in old.tasks, i.intent = old.intent,
                 i.stage # "ALLOWED" \/ i.at = version
          PROVE  \/ k.at = version
                 \/ \E h \in s.tasks : h.intent = s.intent /\ (h.stage # "ALLOWED" \/ h.at = version)
      BY <1>1, <1>2, <3>3
    <3> QED
      BY <2>3, <3>1, <3>2, <3>3 DEF HearsOfIt
  <2>7. WillHear(s, w, client[t], missed[t])
    BY <1>2, <1>6, <2>6 DEF Level, WillHear
  <2>8. Level(s, w, client[t], missed[t])
    BY <2>4, <2>5, <2>7 DEF Level
  <2> QED
    BY <1>1, <1>3, <1>4, <2>1, <2>3, <2>8, OneTab, TabFacts DEF TabInv
<1>8. CASE ~ Current(t, k) /\ k.intent = old.intent
  <2>1. wire' = wire /\ missed' = [missed EXCEPT ![t] = "CHANNEL"]
    BY <1>8 DEF Join, Current
  <2>2. Level(s, wire[t], client[t], "CHANNEL")
    BY <1>2, <1>6 DEF Level, NothingAhead, BelievesRightly, HasPlace, WillHear
  <2>3. "CHANNEL" \in Miss
    BY DEF Miss
  <2> QED
    BY <1>1, <1>3, <1>4, <2>1, <2>2, <2>3, OneTab, TabFacts DEF TabInv
<1>9. CASE ~ Current(t, k) /\ k.intent # old.intent
  <2>1. wire' = wire /\ missed' = missed
    BY <1>9 DEF Join, Current
  <2>2. Level(s, wire[t], client[t], missed[t])
    BY <1>2, <1>6, <1>9
    DEF Level, NothingAhead, BelievesRightly, HasPlace, Wanted, WillHear, HearsOfIt
  <2> QED
    BY <1>1, <1>3, <1>4, <2>1, <2>2, OneTab, TabFacts DEF TabInv
<1> QED
  BY <1>7, <1>8, <1>9

\* A subscription that is refused is told of, unless another wish came after it.
LEMMA RejectStaysLevel ==
  ASSUME TabInv, Inv', NEW t \in Tab, NEW k \in server[t].tasks, Reject(t, k)
  PROVE  TabRules'
<1> DEFINE old == server[t]
           rest == old.tasks \ {k}
           stays == old.joined /\ k.intent # old.intent
           s == [old EXCEPT !.tasks = rest, !.joined = stays]
<1>1. /\ server' = [server EXCEPT ![t] = s]
      /\ UNCHANGED <<version, room, notices, client, missed>>
  BY DEF Reject, serverRest
<1>2. /\ s.socket = old.socket /\ s.joined = stays
      /\ s.intent = old.intent /\ s.tasks = rest
  <2>1. rest \in SUBSET Task /\ stays \in BOOLEAN /\ old \in ServerEnd /\ old.intent \in Nat
    BY TabFacts DEF ServerEnd, Task
  <2> HIDE DEF rest, stays
  <2>2. s = [socket |-> old.socket, joined |-> stays, intent |-> old.intent, tasks |-> rest]
    BY <2>1, Parts, ZenonT(60)
  <2> HIDE DEF s
  <2> QED
    BY <2>2
<1> HIDE DEF s
<1>3. server'[t] = s /\ \A u \in Tab \ {t} : server'[u] = server[u]
  BY <1>1, TabFacts
<1>4. server' \in [Tab -> ServerEnd]
  BY DEF Inv, ChannelTypes
<1>5. Level(old, wire[t], client[t], missed[t])
  BY TabFacts
<1>6. CASE k.intent = old.intent
  <2> DEFINE x == Lost("REJECTED")
             w == [wire[t] EXCEPT !.down = Append(@, x)]
  <2>1. wire' = [wire EXCEPT ![t] = w]
    BY <1>6 DEF Reject, Tell
  <2>2. x \in Message /\ x.type = "SUBSCRIPTION_LOST"
    BY MessageTypes
  <2> HIDE DEF x
  <2>3. w \in Wire /\ w.up = wire[t].up /\ Under(w.down) = Under(wire[t].down) \cup {x}
    BY <2>2, SentDown, TabFacts
  <2> HIDE DEF w
  <2>4. Level(s, w, client[t], missed[t])
    BY <1>2, <1>5, <2>2, <2>3, LosingIsEnough
  <2> QED
    BY <1>1, <1>3, <1>4, <2>1, <2>3, <2>4, OneTab, TabFacts DEF TabInv
<1>7. CASE k.intent # old.intent
  <2>1. wire' = wire
    BY <1>7 DEF Reject
  <2>2. Level(s, wire[t], client[t], missed[t])
    BY <1>2, <1>5, <1>7
    DEF Level, NothingAhead, BelievesRightly, HasPlace, Wanted, WillHear, HearsOfIt
  <2> QED
    BY <1>1, <1>3, <1>4, <2>1, <2>2, OneTab, TabFacts DEF TabInv
<1> QED
  BY <1>6, <1>7

-----------------------------------------------------------------------------
(* Announcements *)

\* What passes a tab that is not in the channel is missed by it, or it has
\* something else to wait for.
LEMMA PassedBy ==
  ASSUME UNCHANGED <<version, room>>, NEW s, NEW r, NEW w, NEW c, NEW m, NEW n,
         Level(s, w, c, m), ~ s.joined,
         r.socket = s.socket, r.intent = s.intent, r.tasks = s.tasks,
         n = IF (\E k \in s.tasks : k.stage = "ALLOWED" /\ k.intent = s.intent) /\ m = "NOTHING"
             THEN "NEWS" ELSE m
  PROVE  Level(r, w, c, n)'
<1>1. /\ NothingAhead(r, w)' /\ BelievesRightly(r, w, c)' /\ PageStands(c)'
  BY DEF Level, NothingAhead, BelievesRightly, PageStands, ReadsWhatItKnows
<1>2. n # "CHANNEL" => m # "CHANNEL"
  OBVIOUS
<1>3. HasPlace(r, w, c, n)'
  BY <1>2 DEF Level, HasPlace, Wanted, Losing
<1>4. WillHear(r, w, c, n)'
  <2> SUFFICES ASSUME r.socket = "UP", c.subscribed, n = "NOTHING"
               PROVE  HearsOfIt(r, w, c)'
    BY DEF WillHear
  <2>1. m = "NOTHING" /\ \A k \in s.tasks : k.intent = s.intent => k.stage # "ALLOWED"
    OBVIOUS
  <2>2. w.up # <<>> \/ Wanted(s) \/ Losing(w)
    BY <2>1 DEF Level, HasPlace
  <2> QED
    BY <2>1, <2>2 DEF HearsOfIt, Wanted, Losing
<1> QED
  BY <1>1, <1>3, <1>4 DEF Level

\* What reaches a tab in the channel takes the place of its announcement.
LEMMA Reached ==
  ASSUME UNCHANGED <<version, room>>, NEW n \in Nat, n <= version,
         notices' = notices \ {Version(n)},
         NEW s, NEW w, NEW v, NEW c, NEW m,
         Level(s, w, c, m), s.joined, v.up = w.up,
         Under(v.down) = Under(w.down) \cup {News(n)}
  PROVE  Level(s, v, c, m)'
<1>1. News(n).type = "SNAPSHOT_REQUIRED" /\ News(n).version = n
  BY MessageTypes
<1>2. NothingAhead(s, v)' /\ BelievesRightly(s, v, c)' /\ PageStands(c)'
  BY <1>1 DEF Level, NothingAhead, BelievesRightly, PageStands, ReadsWhatItKnows
<1>3. HasPlace(s, v, c, m)'
  BY DEF HasPlace
<1>4. HearsOfIt(s, w, c) => HearsOfIt(s, v, c)'
  <2>1. CASE n = version
    <3>1. News(version) \in Under(v.down)
      BY <2>1
    <3>2. News(version)' \in Under(v.down)
      BY <3>1 DEF News
    <3> QED
      BY <3>2 DEF HearsOfIt
  <2>2. CASE n # version
    <3>1. Version(version) # Version(n) /\ EvictNotice # Version(n)
      BY <2>2 DEF Version, EvictNotice
    <3>2. ToBeAnnounced => ToBeAnnounced'
      BY <3>1 DEF ToBeAnnounced, Version
    <3>3. News(version)' = News(version)
      BY DEF News
    <3> QED
      BY <3>2, <3>3 DEF HearsOfIt, Losing
  <2> QED
    BY <2>1, <2>2
<1>5. WillHear(s, v, c, m)'
  BY <1>4 DEF Level, WillHear
<1> QED
  BY <1>2, <1>3, <1>5 DEF Level

\* An announcement reaches who is in the channel; whom it passes misses it.
LEMMA AnnounceStaysLevel ==
  ASSUME TabInv, Inv', NEW n \in notices, Announce(n)
  PROVE  TabRules'
<1>1. /\ UNCHANGED <<version, room, server, client>> /\ notices' = notices \ {n}
      /\ n.kind = "VERSION"
      /\ wire' = [t \in Tab |-> IF server[t].joined THEN Tell(t, News(n.version)) ELSE wire[t]]
      /\ missed' = Passes
  BY DEF Announce
<1>2. /\ n.version \in Nat /\ n.version <= version
      /\ n = Version(n.version)
  BY <1>1 DEF TabInv, TabRules, TabTypes, NoticesPast, Notice, Version
<1> DEFINE x == News(n.version)
<1>3. x \in Message
  BY <1>2, MessageTypes
<1> HIDE DEF x
<1>4. ASSUME NEW t \in Tab
      PROVE  /\ wire'[t] \in Wire /\ missed'[t] \in Miss
             /\ LevelTab(t)'
  <2>1. PICK s, w, c, m : s = server[t] /\ w = wire[t] /\ c = client[t] /\ m = missed[t]
    OBVIOUS
  <2>2. Level(s, w, c, m) /\ w \in Wire /\ m \in Miss
    BY <2>1, TabFacts
  <2>3. server'[t] = s /\ client'[t] = c
    BY <1>1, <2>1
  <2>4. missed'[t] = IF Between(t) /\ m = "NOTHING" THEN "NEWS" ELSE m
    BY <1>1, <2>1 DEF Passes
  <2>5. CASE ~ s.joined
    <3>1. wire'[t] = w
      BY <1>1, <2>1, <2>5
    <3>2. PICK d : d = missed'[t]
      OBVIOUS
    <3>3. d = IF (\E k \in s.tasks : k.stage = "ALLOWED" /\ k.intent = s.intent)
                 /\ m = "NOTHING"
              THEN "NEWS" ELSE m
      BY <2>1, <2>4, <2>5, <3>2 DEF Between
    <3>4. Level(s, w, c, d)'
      BY <1>1, <2>2, <2>5, <3>3, PassedBy
    <3>5. d \in Miss
      BY <2>2, <3>3 DEF Miss
    <3> QED
      BY <2>2, <2>3, <3>1, <3>2, <3>4, <3>5 DEF LevelTab
  <2>6. CASE s.joined
    <3> DEFINE v == [w EXCEPT !.down = Append(@, x)]
    <3>1. wire'[t] = v /\ missed'[t] = m
      BY <1>1, <2>1, <2>4, <2>6 DEF Tell, x, Between
    <3>2. v \in Wire /\ v.up = w.up /\ Under(v.down) = Under(w.down) \cup {x}
      BY <1>3, <2>2, SentDown
    <3> HIDE DEF v
    <3>3. PICK y : y = v
      OBVIOUS
    <3>4. Level(s, y, c, m)'
      BY <1>1, <1>2, <2>2, <2>6, <3>2, <3>3, Reached DEF x
    <3> QED
      BY <2>2, <2>3, <3>1, <3>2, <3>3, <3>4 DEF LevelTab
  <2> QED
    BY <2>5, <2>6
<1>5. wire' \in [Tab -> Wire] /\ missed' \in [Tab -> Miss]
  BY <1>1, <1>4 DEF Passes
<1> QED
  BY <1>1, <1>4, <1>5 DEF TabInv, TabRules, TabTypes, NoticesPast

\* Who is displaced is told so.
LEMMA DisplaceStaysLevel ==
  ASSUME TabInv, Inv', NEW n \in notices, Displace(n)
  PROVE  TabRules'
<1> DEFINE t == n.tab
<1>1. /\ UNCHANGED <<version, room, client, missed>> /\ notices' = notices \ {n}
      /\ n.kind = "DISPLACED"
  BY DEF Displace
<1>2. t \in Tab /\ n.reason \in {"STARTED", "TAKEN"}
  BY <1>1 DEF TabInv, TabRules, TabTypes, Notice
<1>3. RoomStays /\ notices' \subseteq notices
  BY <1>1 DEF RoomStays, ToBeAnnounced, Version, EvictNotice
<1> HIDE DEF t
<1>4. server' \in [Tab -> ServerEnd]
  BY DEF Inv, ChannelTypes
<1>5. CASE Connected(t)
  <2> DEFINE x == Lost(n.reason)
             w == [wire[t] EXCEPT !.down = Append(@, x)]
             s == [server[t] EXCEPT !.joined = FALSE]
  <2>1. wire' = [wire EXCEPT ![t] = w] /\ server' = [server EXCEPT ![t] = s]
    BY <1>5 DEF Displace, Tell, t
  <2>2. x \in Message /\ x.type = "SUBSCRIPTION_LOST"
    BY <1>2, MessageTypes
  <2> HIDE DEF x
  <2>3. w \in Wire /\ w.up = wire[t].up /\ Under(w.down) = Under(wire[t].down) \cup {x}
    BY <1>2, <2>2, SentDown, TabFacts
  <2> HIDE DEF w
  <2>4. s.socket = server[t].socket /\ s.tasks = server[t].tasks
    BY <1>2, TabFacts DEF ServerEnd
  <2> HIDE DEF s
  <2>5. server'[t] = s /\ \A u \in Tab \ {t} : server'[u] = server[u]
    BY <1>2, <2>1, TabFacts
  <2>7. Level(server[t], wire[t], client[t], missed[t])
    BY <1>2, TabFacts
  <2>6. Level(s, w, client[t], missed[t])
    BY <2>2, <2>3, <2>4, <2>7, LosingIsEnough
  <2> QED
    BY <1>1, <1>2, <1>3, <1>4, <2>1, <2>3, <2>5, <2>6, OneTabAnnounced, TabFacts DEF TabInv
<1>6. CASE ~ Connected(t)
  <2>1. UNCHANGED <<wire, server>>
    BY <1>6 DEF Displace, t
  <2> QED
    BY <1>1, <1>2, <1>3, <1>4, <2>1, OneTabAnnounced, TabFacts DEF TabInv
<1> QED
  BY <1>5, <1>6

\* A socket that is thrown out is told so, and is no longer connected.
LEMMA KickStaysLevel ==
  ASSUME TabInv, Inv', NEW n \in notices, KickSocket(n)
  PROVE  TabRules'
<1> DEFINE t == n.tab
<1>1. /\ UNCHANGED <<version, room, client, missed>> /\ notices' = notices \ {n}
      /\ n.kind = "KICK"
  BY DEF KickSocket
<1>2. t \in Tab
  BY <1>1 DEF TabInv, TabRules, TabTypes, Notice
<1>3. RoomStays /\ notices' \subseteq notices
  BY <1>1 DEF RoomStays, ToBeAnnounced, Version, EvictNotice
<1> HIDE DEF t
<1>4. server' \in [Tab -> ServerEnd]
  BY DEF Inv, ChannelTypes
<1>5. CASE Connected(t)
  <2> DEFINE x == [type |-> "REVOKED"]
             w == [wire[t] EXCEPT !.down = Append(@, x)]
             s == [NoSocket EXCEPT !.socket = "KICKED"]
  <2>1. wire' = [wire EXCEPT ![t] = w] /\ server' = [server EXCEPT ![t] = s]
    BY <1>5 DEF KickSocket, Tell, t
  <2>2. x \in Message /\ x.type = "REVOKED"
    BY MessageTypes
  <2> HIDE DEF x
  <2>3. w \in Wire /\ w.up = wire[t].up /\ Under(w.down) = Under(wire[t].down) \cup {x}
    BY <1>2, <2>2, SentDown, TabFacts
  <2> HIDE DEF w
  <2>4. s.socket = "KICKED" /\ s.tasks = {}
    BY DEF NoSocket
  <2> HIDE DEF s
  <2>5. server'[t] = s /\ \A u \in Tab \ {t} : server'[u] = server[u]
    BY <1>2, <2>1, TabFacts
  <2>6. Level(server[t], wire[t], client[t], missed[t])
    BY <1>2, TabFacts
  <2>7. Level(s, w, client[t], missed[t])
    BY <2>2, <2>3, <2>4, <2>6 DEF Level, NothingAhead, BelievesRightly, HasPlace, WillHear
  <2> QED
    BY <1>1, <1>2, <1>3, <1>4, <2>1, <2>3, <2>5, <2>7, OneTabAnnounced, TabFacts DEF TabInv
<1>6. CASE ~ Connected(t)
  <2>1. UNCHANGED <<wire, server>>
    BY <1>6 DEF KickSocket, t
  <2> QED
    BY <1>1, <1>2, <1>3, <1>4, <2>1, OneTabAnnounced, TabFacts DEF TabInv
<1> QED
  BY <1>5, <1>6

\* An eviction reaches who is in the channel; whom it passes misses it.
LEMMA EvictStaysLevel ==
  ASSUME TabInv, Inv', NEW n \in notices, Evict(n)
  PROVE  TabRules'
<1>1. /\ UNCHANGED <<version, room, client>> /\ notices' = notices \ {n}
      /\ wire' = [t \in Tab |-> IF server[t].joined THEN Tell(t, Lost("TRASH")) ELSE wire[t]]
      /\ server' = [t \in Tab |-> [server[t] EXCEPT !.joined = FALSE]]
      /\ missed' = Passes
  BY DEF Evict
<1> DEFINE x == Lost("TRASH")
<1>2. x \in Message /\ x.type = "SUBSCRIPTION_LOST"
  BY MessageTypes
<1> HIDE DEF x
<1>3. ASSUME NEW t \in Tab
      PROVE  /\ wire'[t] \in Wire /\ missed'[t] \in Miss
             /\ LevelTab(t)'
  <2>1. PICK s, r, w, c, m : /\ s = server[t] /\ w = wire[t] /\ c = client[t] /\ m = missed[t]
                             /\ r = server'[t]
    OBVIOUS
  <2>2. Level(s, w, c, m) /\ w \in Wire /\ m \in Miss /\ s \in ServerEnd
    BY <2>1, TabFacts
  <2>3. /\ r.socket = s.socket /\ r.intent = s.intent /\ r.tasks = s.tasks
        /\ client'[t] = c
    BY <1>1, <2>1, <2>2 DEF ServerEnd
  <2>4. missed'[t] = IF Between(t) /\ m = "NOTHING" THEN "NEWS" ELSE m
    BY <1>1, <2>1 DEF Passes
  <2>5. CASE ~ s.joined
    <3>1. wire'[t] = w
      BY <1>1, <2>1, <2>5
    <3>2. PICK d : d = missed'[t]
      OBVIOUS
    <3>3. d = IF (\E k \in s.tasks : k.stage = "ALLOWED" /\ k.intent = s.intent)
                 /\ m = "NOTHING"
              THEN "NEWS" ELSE m
      BY <2>1, <2>4, <2>5, <3>2 DEF Between
    <3>4. Level(r, w, c, d)'
      BY <1>1, <2>2, <2>3, <2>5, <3>3, PassedBy
    <3>5. d \in Miss
      BY <2>2, <3>3 DEF Miss
    <3> QED
      BY <2>1, <2>2, <2>3, <3>1, <3>2, <3>4, <3>5 DEF LevelTab
  <2>6. CASE s.joined
    <3> DEFINE v == [w EXCEPT !.down = Append(@, x)]
    <3>1. wire'[t] = v /\ missed'[t] = m
      BY <1>1, <2>1, <2>4, <2>6 DEF Tell, x, Between
    <3>2. v \in Wire /\ v.up = w.up /\ Under(v.down) = Under(w.down) \cup {x}
      BY <1>2, <2>2, SentDown
    <3> HIDE DEF v
    <3>3. PICK y, z : y = v /\ z = x
      OBVIOUS
    <3>4. Level(r, y, c, m)'
      BY <1>1, <1>2, <2>2, <2>3, <3>2, <3>3, LosingIsEnough
    <3> QED
      BY <2>1, <2>2, <2>3, <3>1, <3>2, <3>3, <3>4 DEF LevelTab
  <2> QED
    BY <2>5, <2>6
<1>4. wire' \in [Tab -> Wire] /\ missed' \in [Tab -> Miss]
  BY <1>1, <1>3 DEF Passes
<1> QED
  BY <1>1, <1>3, <1>4 DEF TabInv, TabRules, TabTypes, NoticesPast

-----------------------------------------------------------------------------
(* Writes *)

\* A write that is to be announced leaves every tab level.
LEMMA BumpStaysLevel ==
  ASSUME TabInv, Bump, UNCHANGED <<server, wire, client, missed>>,
         notices' \in SUBSET Notice, ToBeAnnounced',
         \A n \in notices' \ notices : n.kind = "VERSION" => n = Version(version')
  PROVE  TabRules'
<1>1. version \in Nat \ {0} /\ version' = version + 1
  BY DEF TabInv, TabRules, TabTypes, Bump
<1>2. TabTypes'
  BY <1>1 DEF TabInv, TabRules, TabTypes
<1>3. NoticesPast'
  <2> SUFFICES ASSUME NEW n \in notices', n.kind = "VERSION"
               PROVE  n.version <= version'
    BY DEF NoticesPast
  <2>1. CASE n \in notices
    <3>1. n.version <= version /\ n.version \in Nat
      BY <2>1 DEF TabInv, TabRules, TabTypes, NoticesPast, Notice
    <3> QED
      BY <1>1, <3>1
  <2>2. CASE n \notin notices
    BY <1>1, <2>2 DEF Version
  <2> QED
    BY <2>1, <2>2
<1>4. ASSUME NEW t \in Tab PROVE LevelTab(t)'
  <2>1. PICK s, w, c, m : s = server[t] /\ w = wire[t] /\ c = client[t] /\ m = missed[t]
    OBVIOUS
  <2>2. Level(s, w, c, m) /\ s \in ServerEnd /\ w \in Wire /\ c \in Memory
    BY <2>1, TabFacts
  <2>3. Level(s, w, c, m)'
    BY <1>1, <2>2, LevelAfterWrite
  <2> QED
    BY <2>1, <2>3 DEF LevelTab
<1> QED
  BY <1>2, <1>3, <1>4 DEF TabRules

\* Every write is.
LEMMA WriteStaysLevel ==
  ASSUME TabInv, WriteStep
  PROVE  TabRules'
<1>1. notices \in SUBSET Notice /\ version \in Nat
  BY DEF TabInv, TabRules, TabTypes
<1>2. ASSUME NEW more \in SUBSET Notice, notices' = notices \cup {Version(version')} \cup more,
             \A n \in more : n.kind # "VERSION", Bump,
             UNCHANGED <<server, wire, client, missed>>
      PROVE  TabRules'
  <2>1. Version(version') \in Notice /\ Version(version') = Version(version)'
    BY <1>1, <1>2 DEF Version, Notice, Bump
  <2>2. notices' \in SUBSET Notice /\ ToBeAnnounced'
    BY <1>1, <1>2, <2>1 DEF ToBeAnnounced
  <2> QED
    BY <1>2, <2>2, BumpStaysLevel
<1> DEFINE Plain == /\ Bump /\ notices' = notices \cup {Version(version')}
                    /\ UNCHANGED <<server, wire, client, missed>>
<1>10. Plain => TabRules'
  <2>1. {} \in SUBSET Notice
    OBVIOUS
  <2>2. Plain => notices' = notices \cup {Version(version')} \cup {}
    OBVIOUS
  <2> QED
    BY <1>2, <2>1, <2>2
<1>3. CASE Write
  BY <1>3, <1>10 DEF Write
<1>4. CASE StartRoom
  <2>1. PICK left \in SUBSET Tab :
          notices' = notices \cup {Version(version')} \cup {Displaced(t, "STARTED") : t \in left}
    BY <1>4 DEF StartRoom
  <2>2. {Displaced(t, "STARTED") : t \in left} \in SUBSET Notice
    BY DEF Displaced, Notice
  <2>3. \A n \in {Displaced(t, "STARTED") : t \in left} : n.kind # "VERSION"
    BY DEF Displaced
  <2> QED
    BY <1>2, <1>4, <2>1, <2>2, <2>3 DEF StartRoom
<1>5. CASE FinishRoom
  BY <1>5, <1>10 DEF FinishRoom
<1>6. ASSUME NEW t \in Tab, NEW where \in {"ELSEWHERE", "LEFT"}, LoseControl(t, where)
      PROVE  TabRules'
  <2>1. {Displaced(t, "TAKEN")} \in SUBSET Notice
        /\ \A n \in {Displaced(t, "TAKEN")} : n.kind # "VERSION"
    BY DEF Displaced, Notice
  <2>2. notices' = notices \cup {Version(version')} \cup {Displaced(t, "TAKEN")}
    BY <1>6 DEF LoseControl
  <2> QED
    BY <1>2, <1>6, <2>1, <2>2 DEF LoseControl
<1>7. ASSUME NEW t \in Tab, LoseSession(t) PROVE TabRules'
  <2>1. /\ UNCHANGED <<room, version, server, wire, client, missed>>
        /\ notices' = notices \cup {Kick(t)}
    BY <1>7 DEF LoseSession
  <2>2. Kick(t) \in Notice /\ Kick(t).kind # "VERSION"
    BY DEF Kick, Notice
  <2>3. RoomStays
    BY <2>1 DEF RoomStays, ToBeAnnounced
  <2>4. TabTypes' /\ NoticesPast'
    BY <2>1, <2>2 DEF TabInv, TabRules, TabTypes, NoticesPast
  <2>5. ASSUME NEW u \in Tab PROVE LevelTab(u)'
    BY <2>1, <2>3, LevelStays DEF TabInv, TabRules, LevelTab
  <2> QED
    BY <2>4, <2>5 DEF TabRules
<1>8. CASE RestoreRoom
  BY <1>8, <1>10 DEF RestoreRoom
<1>9. CASE TrashRoom
  <2>1. /\ Bump /\ UNCHANGED <<server, wire, client, missed>>
        /\ notices' = notices \cup {EvictNotice}
        /\ room' = [room EXCEPT !.trashed = TRUE]
    BY <1>9 DEF TrashRoom, EvictNotice
  <2>2. room'.trashed
    BY <2>1 DEF TabInv, Inv, ChannelTypes
  <2>3. EvictNotice \in Notice /\ EvictNotice.kind # "VERSION"
    BY DEF EvictNotice, Notice
  <2>4. ToBeAnnounced'
    BY <2>1, <2>2 DEF ToBeAnnounced, EvictNotice
  <2> QED
    BY <1>1, <2>1, <2>3, <2>4, BumpStaysLevel
<1> QED
  BY <1>3, <1>4, <1>5, <1>6, <1>7, <1>8, <1>9 DEF WriteStep

-----------------------------------------------------------------------------
(* The tab *)

\* A tab that reads again hears of it.
LEMMA ReadingIsEnough ==
  ASSUME version \in Nat \ {0}, NEW s, NEW w, NEW c, NEW m, Level(s, w, c, m),
         NEW v, NEW d, v.down = w.down, d.read.stage = "ASKED",
         BelievesRightly(s, v, d), d.subscribed /\ v.up = <<>> => c.subscribed /\ w.up = <<>>,
         d.knows \in {c.knows, 0}, d.shows \in {c.shows, 0}
  PROVE  Level(s, v, d, m)
<1>1. NothingAhead(s, v)
  BY DEF Level, NothingAhead
<1>2. PageStands(d)
  BY DEF Level, PageStands, ReadsWhatItKnows
<1>3. HasPlace(s, v, d, m)
  BY DEF Level, HasPlace, Losing
<1>4. WillHear(s, v, d, m)
  BY DEF WillHear, HearsOfIt
<1> QED
  BY <1>1, <1>2, <1>3, <1>4 DEF Level

\* A tab that has left the room needs nothing.
LEMMA LeavingIsEnough ==
  ASSUME version \in Nat \ {0}, NEW s, NEW w, NEW c, NEW m, Level(s, w, c, m),
         NEW r, NEW v, NEW d, Under(v.down) \subseteq Under(w.down), r.tasks \subseteq s.tasks,
         ~ d.subscribed, d.knows = 0, d.shows = 0, d.read.stage = "NONE"
  PROVE  Level(r, v, d, m)
  BY DEF Level, NothingAhead, BelievesRightly, HasPlace, PageStands, ReadsWhatItKnows, WillHear

\* What a tab of the room asks for when it opens a page leaves it level.
LEMMA OpenPageIsLevel ==
  ASSUME TabInv, NEW t \in Tab, NEW page \in {"SEATS", "GAME"}, OpenPage(t, page, client[t])
  PROVE  \E w \in Wire, c \in Memory :
           /\ wire' = [wire EXCEPT ![t] = w]
           /\ client' = [client EXCEPT ![t] = c]
           /\ Level(server[t], w, c, missed[t])
<1> DEFINE old == client[t]
           opened == OpensRoom(old, page)
<1>1. /\ opened \in Memory /\ opened.read.stage = "ASKED" /\ opened.page = page
      /\ opened.subscribed = old.subscribed /\ opened.knows = 0 /\ opened.shows = 0
  BY OpensRoomType, TabFacts
<1>2. /\ version \in Nat \ {0} /\ Level(server[t], wire[t], old, missed[t])
      /\ wire[t] \in Wire
  BY TabFacts
<1>3. CASE Connected(t) /\ ~ old.subscribed
  <2> DEFINE w == [wire[t] EXCEPT !.up = Append(@, "SUBSCRIBE")]
             c == [opened EXCEPT !.subscribed = TRUE]
  <2>1. wire' = [wire EXCEPT ![t] = w] /\ client' = [client EXCEPT ![t] = c]
    BY <1>3 DEF OpenPage, Sends
  <2> HIDE DEF opened
  <2>2. "SUBSCRIBE" \in Wish
    BY DEF Wish
  <2>3. w \in Wire /\ w.down = wire[t].down /\ w.up # <<>> /\ w.up[Len(w.up)] = "SUBSCRIBE"
    BY <1>2, <2>2, SentUp
  <2>4. /\ c \in Memory /\ c.read = opened.read /\ c.page = page /\ c.subscribed
        /\ c.knows = 0 /\ c.shows = 0
    BY <1>1 DEF Memory
  <2> HIDE DEF w, c
  <2>5. BelievesRightly(server[t], w, c)
    BY <1>3, <2>3, <2>4 DEF BelievesRightly, Connected
  <2>6. Level(server[t], w, c, missed[t])
    BY <1>1, <1>2, <2>3, <2>4, <2>5, ReadingIsEnough
  <2> QED
    BY <2>1, <2>3, <2>4, <2>6
<1>4. CASE ~ (Connected(t) /\ ~ old.subscribed)
  <2>1. wire' = wire /\ client' = [client EXCEPT ![t] = opened]
    BY <1>4 DEF OpenPage
  <2> HIDE DEF opened
  <2>2. BelievesRightly(server[t], wire[t], opened)
    BY <1>1, <1>2 DEF Level, BelievesRightly
  <2>3. Level(server[t], wire[t], opened, missed[t])
    BY <1>1, <1>2, <2>2, ReadingIsEnough
  <2> QED
    BY <1>1, <1>2, <2>1, <2>3, TabFacts
<1> QED
  BY <1>3, <1>4

\* Pages that open, by the user or by what was read.
LEMMA OpeningStaysLevel ==
  ASSUME TabInv, Inv', NEW t \in Tab, UNCHANGED <<version, room, notices, server, missed>>,
         \E page \in {"SEATS", "GAME"} : OpenPage(t, page, client[t])
  PROVE  TabRules'
<1>1. PICK w \in Wire, c \in Memory :
        /\ wire' = [wire EXCEPT ![t] = w]
        /\ client' = [client EXCEPT ![t] = c]
        /\ Level(server[t], w, c, missed[t])
  BY OpenPageIsLevel
<1>2. server' \in [Tab -> ServerEnd] /\ server' = server
  BY DEF Inv, ChannelTypes
<1> QED
  BY <1>1, <1>2, OneTab, TabFacts DEF TabInv

\* What a tab believes, shows and reads does not depend on its user's writes.
LEMMA SameMemory ==
  ASSUME NEW s, NEW w, NEW c, NEW d, NEW m, Level(s, w, c, m),
         Alike(c, d)
  PROVE  Level(s, w, d, m)
<1>1. /\ d.page = c.page /\ d.subscribed = c.subscribed /\ d.knows = c.knows
      /\ d.shows = c.shows /\ d.read = c.read /\ d.told = c.told
  BY DEF Alike
<1>2. NothingAhead(s, w) /\ BelievesRightly(s, w, d) /\ HasPlace(s, w, d, m)
  BY <1>1 DEF Level, BelievesRightly, HasPlace
<1>3. PageStands(d) /\ WillHear(s, w, d, m)
  BY <1>1 DEF Level, PageStands, ReadsWhatItKnows, WillHear, HearsOfIt
<1> QED
  BY <1>2, <1>3 DEF Level

\* What the user of a tab has written is still to be announced, to this tab too.
LEMMA OwnWriteStaysLevel ==
  ASSUME TabInv, NEW t \in Tab, TakeControl(t) \/ CommitWrite(t)
  PROVE  TabRules'
<1> DEFINE x == IF client[t].write = "SENT" THEN "DONE" ELSE client[t].write
           c == [client[t] EXCEPT !.write = x]
<1>1. /\ Bump /\ UNCHANGED <<server, wire, missed>>
      /\ notices' = notices \cup {Version(version')}
      /\ client' = [client EXCEPT ![t] = c]
  BY DEF TakeControl, CommitWrite, Done
<1>2. client[t] \in Memory /\ Level(server[t], wire[t], client[t], missed[t])
  BY TabFacts
<1>3. x \in {"NONE", "SENT", "DONE"}
  BY <1>2 DEF Memory
<1> HIDE DEF x
<1>4. c \in Memory /\ Alike(client[t], c)
  BY <1>2, <1>3, WriteType
<1> HIDE DEF c
<1>5. Level(server[t], wire[t], c, missed[t])
  BY <1>2, <1>4, SameMemory
<1>6. version \in Nat \ {0} /\ version' = version + 1
  BY <1>1, TabFacts DEF Bump
<1>7. /\ client' \in [Tab -> Memory] /\ client'[t] = c
      /\ \A u \in Tab \ {t} : client'[u] = client[u]
  BY <1>1, <1>4, TabFacts
<1>8. Version(version') \in Notice /\ Version(version') = Version(version)'
  BY <1>6 DEF Version, Notice
<1>9. TabTypes'
  BY <1>1, <1>6, <1>7, <1>8 DEF TabInv, TabRules, TabTypes
<1>10. NoticesPast'
  <2> SUFFICES ASSUME NEW n \in notices', n.kind = "VERSION"
               PROVE  n.version <= version'
    BY DEF NoticesPast
  <2>1. CASE n \in notices
    <3>1. n.version <= version /\ n.version \in Nat
      BY <2>1 DEF TabInv, TabRules, TabTypes, NoticesPast, Notice
    <3> QED
      BY <1>6, <3>1
  <2>2. CASE n \notin notices
    BY <1>1, <1>6, <2>2 DEF Version
  <2> QED
    BY <2>1, <2>2
<1>11. ToBeAnnounced'
  BY <1>1, <1>8 DEF ToBeAnnounced
<1>12. ASSUME NEW u \in Tab PROVE LevelTab(u)'
  <2>1. PICK s, v, d, m : s = server[u] /\ v = wire[u] /\ d = client'[u] /\ m = missed[u]
    OBVIOUS
  <2>2. Level(s, v, d, m)
    <3>1. CASE u = t
      BY <1>5, <1>7, <2>1, <3>1
    <3>2. CASE u # t
      BY <1>7, <2>1, <3>2, TabFacts
    <3> QED
      BY <3>1, <3>2
  <2>3. s \in ServerEnd /\ v \in Wire /\ d \in Memory
    BY <1>7, <2>1, TabFacts
  <2>4. Level(s, v, d, m)'
    BY <1>6, <1>11, <2>2, <2>3, LevelAfterWrite
  <2> QED
    BY <1>1, <2>1, <2>4 DEF LevelTab
<1> QED
  BY <1>9, <1>10, <1>12 DEF TabRules

\* A write that begins may throw a read away, and the tab remembers that it has
\* not seen what was read.
LEMMA PressStaysLevel ==
  ASSUME TabInv, Inv', NEW t \in Tab, Press(t)
  PROVE  TabRules'
<1> DEFINE old == client[t]
<1>1. PICK d \in {StartsOver(old), old} :
        client' = [client EXCEPT ![t] = [d EXCEPT !.write = "SENT", !.presses = @ + 1]]
  BY DEF Press
<1>2. UNCHANGED <<version, room, notices, server, wire, missed>>
  BY DEF Press, tabRest
<1>3. old \in Memory /\ Level(server[t], wire[t], old, missed[t]) /\ version \in Nat \ {0}
  BY TabFacts
<1>4. d \in Memory /\ Level(server[t], wire[t], d, missed[t])
  <2>1. CASE d = old
    BY <1>3, <2>1
  <2>2. CASE d = StartsOver(old)
    <3> DEFINE read == IF UnderWay(old) THEN Forgotten ELSE old.read
               known == [old EXCEPT !.knows = 0]
               forgot == [known EXCEPT !.read = read]
    <3>1. d = forgot
      BY <2>2 DEF StartsOver
    <3>2. /\ Forgotten \in ReadState /\ Forgotten.stage = "FORGOTTEN"
          /\ read = Forgotten \/ (read = old.read /\ old.read.stage \notin {"ASKED", "ANSWERED"})
      BY DEF Forgotten, ReadState, UnderWay
    <3> HIDE DEF read
    <3>3. known \in Memory /\ known.knows = 0
          /\ \A part \in {"page", "subscribed", "shows", "told", "read"} : known[part] = old[part]
      BY <1>3 DEF Memory
    <3> HIDE DEF known
    <3>4. forgot \in Memory /\ forgot.knows = 0 /\ forgot.read = read
          /\ \A part \in {"page", "subscribed", "shows", "told"} : forgot[part] = known[part]
      BY <1>3, <3>2, <3>3 DEF Memory
    <3> HIDE DEF forgot
    <3>5. /\ d \in Memory /\ d.knows = 0 /\ d.read = read /\ d.page = old.page
          /\ d.subscribed = old.subscribed /\ d.shows = old.shows /\ d.told = old.told
      BY <3>1, <3>3, <3>4
    <3>6. PageStands(d)
      BY <1>3, <3>2, <3>5 DEF Level, PageStands, ReadsWhatItKnows, Memory
    <3>7. HearsOfIt(server[t], wire[t], old) => HearsOfIt(server[t], wire[t], d)
      BY <3>2, <3>5 DEF HearsOfIt
    <3> QED
      BY <1>3, <3>5, <3>6, <3>7 DEF Level, BelievesRightly, HasPlace, WillHear
  <2> QED
    BY <1>1, <2>1, <2>2
<1> DEFINE n == d.presses + 1
           c == [d EXCEPT !.write = "SENT", !.presses = n]
<1>5. n \in Nat
  BY <1>4 DEF Memory
<1>6. client' = [client EXCEPT ![t] = c]
  BY <1>1
<1> HIDE DEF n
<1>7. c \in Memory /\ Alike(d, c)
  BY <1>4, <1>5, WriteType
<1> HIDE DEF c
<1>8. Level(server[t], wire[t], c, missed[t])
  BY <1>4, <1>7, SameMemory
<1>9. server' \in [Tab -> ServerEnd]
  BY DEF Inv, ChannelTypes
<1> QED
  BY <1>2, <1>6, <1>7, <1>8, <1>9, OneTab, TabFacts DEF TabInv

\* A write that is refused is forgotten.
LEMMA WriteFailsStaysLevel ==
  ASSUME TabInv, Inv', NEW t \in Tab, WriteFails(t)
  PROVE  TabRules'
<1> DEFINE c == [client[t] EXCEPT !.write = "NONE"]
<1>1. /\ client' = [client EXCEPT ![t] = c]
      /\ UNCHANGED <<version, room, notices, server, wire, missed>>
  BY DEF WriteFails, tabRest
<1>2. client[t] \in Memory /\ Level(server[t], wire[t], client[t], missed[t])
  BY TabFacts
<1>3. c \in Memory /\ Alike(client[t], c)
  BY <1>2, WriteType
<1> HIDE DEF c
<1>4. Level(server[t], wire[t], c, missed[t])
  BY <1>2, <1>3, SameMemory
<1>5. server' \in [Tab -> ServerEnd]
  BY DEF Inv, ChannelTypes
<1> QED
  BY <1>1, <1>3, <1>4, <1>5, OneTab, TabFacts DEF TabInv

\* A write that has succeeded is followed by a read.
LEMMA WriteSucceedsStaysLevel ==
  ASSUME TabInv, Inv', NEW t \in Tab, WriteSucceeds(t)
  PROVE  TabRules'
<1> DEFINE r == Reading(client[t])
           c == [r EXCEPT !.write = "NONE"]
<1>1. /\ client' = [client EXCEPT ![t] = c]
      /\ UNCHANGED <<version, room, notices, server, wire, missed>>
  BY DEF WriteSucceeds, tabRest
<1>2. /\ r \in Memory /\ r.read.stage = "ASKED" /\ r.page = client[t].page
      /\ r.subscribed = client[t].subscribed
      /\ r.knows = client[t].knows /\ r.shows = client[t].shows
  BY ReadingType, TabFacts
<1> HIDE DEF r
<1>3. /\ c \in Memory /\ c.read = r.read /\ c.page = r.page /\ c.subscribed = r.subscribed
      /\ c.knows = r.knows /\ c.shows = r.shows
  BY <1>2 DEF Memory
<1> HIDE DEF c
<1>4. BelievesRightly(server[t], wire[t], c)
  BY <1>2, <1>3, TabFacts DEF Level, BelievesRightly
<1>5. Level(server[t], wire[t], c, missed[t])
  BY <1>2, <1>3, <1>4, ReadingIsEnough, TabFacts
<1>6. server' \in [Tab -> ServerEnd]
  BY DEF Inv, ChannelTypes
<1> QED
  BY <1>1, <1>3, <1>5, <1>6, OneTab, TabFacts DEF TabInv

\* Control that is lost makes the tab read the seats.
LEMMA WriteLosesControlStaysLevel ==
  ASSUME TabInv, Inv', NEW t \in Tab, WriteLosesControl(t)
  PROVE  TabRules'
<1>1. UNCHANGED <<version, room, notices, server, missed>>
  BY DEF WriteLosesControl, tabRest
<1>2. CASE client[t].page = "GAME"
  BY <1>1, <1>2, OpeningStaysLevel DEF WriteLosesControl
<1>3. CASE client[t].page # "GAME"
  <2> DEFINE r == Reading(client[t])
             known == [r EXCEPT !.knows = 0]
             c == [known EXCEPT !.write = "NONE"]
  <2>1. client' = [client EXCEPT ![t] = c] /\ wire' = wire
    BY <1>3 DEF WriteLosesControl
  <2>2. /\ r \in Memory /\ r.read.stage = "ASKED" /\ r.page = client[t].page
        /\ r.subscribed = client[t].subscribed /\ r.shows = client[t].shows
    BY ReadingType, TabFacts
  <2> HIDE DEF r
  <2>3. /\ known \in Memory /\ known.read = r.read /\ known.page = r.page
        /\ known.subscribed = r.subscribed /\ known.knows = 0 /\ known.shows = r.shows
    BY <2>2 DEF Memory
  <2> HIDE DEF known
  <2>4. /\ c \in Memory /\ c.read = known.read /\ c.page = known.page
        /\ c.subscribed = known.subscribed /\ c.knows = 0 /\ c.shows = known.shows
    BY <2>3 DEF Memory
  <2> HIDE DEF c
  <2>5. BelievesRightly(server[t], wire[t], c)
    BY <2>2, <2>3, <2>4, TabFacts DEF Level, BelievesRightly
  <2>6. Level(server[t], wire[t], c, missed[t])
    BY <2>2, <2>3, <2>4, <2>5, ReadingIsEnough, TabFacts
  <2>7. server' \in [Tab -> ServerEnd]
    BY DEF Inv, ChannelTypes
  <2> QED
    BY <1>1, <2>1, <2>4, <2>6, <2>7, OneTab, TabFacts DEF TabInv
<1> QED
  BY <1>2, <1>3

\* The user looks, and the tab reads.
LEMMA LookStaysLevel ==
  ASSUME TabInv, Inv', NEW t \in Tab, Look(t)
  PROVE  TabRules'
<1> DEFINE c == Reading(client[t])
<1>1. /\ client' = [client EXCEPT ![t] = c]
      /\ UNCHANGED <<version, room, notices, server, wire, missed>>
  BY DEF Look, tabRest
<1>2. /\ c \in Memory /\ c.read.stage = "ASKED" /\ c.page = client[t].page
      /\ c.subscribed = client[t].subscribed
      /\ c.knows = client[t].knows /\ c.shows = client[t].shows
  BY ReadingType, TabFacts
<1> HIDE DEF c
<1>3. BelievesRightly(server[t], wire[t], c)
  BY <1>2, TabFacts DEF Level, BelievesRightly
<1>4. Level(server[t], wire[t], c, missed[t])
  BY <1>2, <1>3, ReadingIsEnough, TabFacts
<1>5. server' \in [Tab -> ServerEnd]
  BY DEF Inv, ChannelTypes
<1> QED
  BY <1>1, <1>2, <1>4, <1>5, OneTab, TabFacts DEF TabInv

\* A connection that stands is used to subscribe and to read.
LEMMA ConnectStaysLevel ==
  ASSUME TabInv, Inv', NEW t \in Tab, Connect(t)
  PROVE  TabRules'
<1> DEFINE s == [server[t] EXCEPT !.socket = "UP"]
<1>1. /\ server' = [server EXCEPT ![t] = s] /\ server[t].socket = "GREETED"
      /\ UNCHANGED <<version, room, notices, missed>>
  BY DEF Connect, tabRest
<1>2. s.socket = "UP" /\ s.tasks = server[t].tasks
  BY TabFacts DEF ServerEnd
<1> HIDE DEF s
<1>3. server'[t] = s /\ \A u \in Tab \ {t} : server'[u] = server[u]
  BY <1>1, TabFacts
<1>4. server' \in [Tab -> ServerEnd]
  BY DEF Inv, ChannelTypes
<1>5. /\ Level(server[t], wire[t], client[t], missed[t]) /\ ~ client[t].subscribed
      /\ version \in Nat \ {0} /\ wire[t] \in Wire /\ client[t] \in Memory
  BY <1>1, TabFacts DEF Level, BelievesRightly
<1>6. Level(s, wire[t], client[t], missed[t])
  BY <1>2, <1>5 DEF Level, NothingAhead, BelievesRightly, HasPlace, WillHear
<1>7. CASE InRoom(t)
  <2> DEFINE w == [wire[t] EXCEPT !.up = Append(@, "SUBSCRIBE")]
             r == Reading(client[t])
             c == [r EXCEPT !.subscribed = TRUE]
  <2>1. wire' = [wire EXCEPT ![t] = w] /\ client' = [client EXCEPT ![t] = c]
    BY <1>7 DEF Connect, Sends
  <2>2. "SUBSCRIBE" \in Wish
    BY DEF Wish
  <2>3. w \in Wire /\ w.down = wire[t].down /\ w.up # <<>> /\ w.up[Len(w.up)] = "SUBSCRIBE"
    BY <1>5, <2>2, SentUp
  <2>4. /\ r \in Memory /\ r.read.stage = "ASKED" /\ r.page = client[t].page
        /\ r.knows = client[t].knows /\ r.shows = client[t].shows
    BY <1>5, ReadingType
  <2> HIDE DEF r
  <2>5. /\ c \in Memory /\ c.read = r.read /\ c.page = r.page /\ c.subscribed
        /\ c.knows = r.knows /\ c.shows = r.shows
    BY <2>4 DEF Memory
  <2> HIDE DEF w, c
  <2>6. BelievesRightly(s, w, c)
    BY <1>2, <1>7, <2>3, <2>4, <2>5 DEF BelievesRightly, InRoom
  <2>7. Level(s, w, c, missed[t])
    BY <1>5, <1>6, <2>3, <2>4, <2>5, <2>6, ReadingIsEnough
  <2> QED
    BY <1>1, <1>3, <1>4, <2>1, <2>3, <2>5, <2>7, OneTab, TabFacts DEF TabInv
<1>8. CASE ~ InRoom(t)
  <2>1. UNCHANGED <<wire, client>>
    BY <1>8 DEF Connect
  <2> QED
    BY <1>1, <1>3, <1>4, <1>6, <2>1, OneTab, TabFacts DEF TabInv
<1> QED
  BY <1>7, <1>8

\* The user leaves, or the game is over.
LEMMA LeaveStaysLevel ==
  ASSUME TabInv, Inv', NEW t \in Tab, Leave(t) \/ ReadGoesToSettlement(t)
  PROVE  TabRules'
<1> DEFINE c == LeavesRoom(client[t], "LIST")
<1>1. /\ client' = [client EXCEPT ![t] = c] /\ SaysGoodbye(t)
      /\ UNCHANGED <<version, room, notices, server, missed>>
  BY DEF Leave, ReadGoesToSettlement, tabRest
<1>2. /\ c \in Memory /\ ~ c.subscribed /\ c.knows = 0 /\ c.shows = 0
      /\ c.read.stage = "NONE"
  BY LeavesRoomType, TabFacts
<1> HIDE DEF c
<1>3. PICK w \in Wire : wire' = [wire EXCEPT ![t] = w] /\ w.down = wire[t].down
  <2>1. CASE Connected(t) /\ client[t].subscribed
    <3> DEFINE w == [wire[t] EXCEPT !.up = Append(@, "UNSUBSCRIBE")]
    <3>1. wire' = [wire EXCEPT ![t] = w]
      BY <1>1, <2>1 DEF SaysGoodbye, Sends
    <3>2. "UNSUBSCRIBE" \in Wish
      BY DEF Wish
    <3>3. w \in Wire /\ w.down = wire[t].down
      BY <3>2, SentUp, TabFacts
    <3> QED
      BY <3>1, <3>3
  <2>2. CASE ~ (Connected(t) /\ client[t].subscribed)
    <3>1. wire' = wire
      BY <1>1, <2>2 DEF SaysGoodbye
    <3> QED
      BY <3>1, TabFacts
  <2> QED
    BY <2>1, <2>2
<1>4. Level(server[t], w, c, missed[t])
  <2>1. Under(w.down) \subseteq Under(wire[t].down)
    BY <1>3
  <2> QED
    BY <1>2, <2>1, LeavingIsEnough, TabFacts
<1>5. server' \in [Tab -> ServerEnd]
  BY DEF Inv, ChannelTypes
<1> QED
  BY <1>1, <1>2, <1>3, <1>4, <1>5, OneTab, TabFacts DEF TabInv

\* The socket goes with the account.
LEMMA LogsOutStaysLevel ==
  ASSUME TabInv, Inv', NEW t \in Tab, HearRevoked(t) \/ CallLogsOut(t) \/ ReadLogsOut(t)
  PROVE  TabRules'
<1> DEFINE c == LeavesRoom(client[t], "LOGIN")
           w == [up |-> <<>>, down |-> <<>>]
<1>1. /\ client' = [client EXCEPT ![t] = c] /\ wire' = [wire EXCEPT ![t] = w]
      /\ server' = [server EXCEPT ![t] = NoSocket]
      /\ UNCHANGED <<version, room, notices, missed>>
  BY DEF HearRevoked, CallLogsOut, ReadLogsOut, LogsOut, tabRest
<1>2. /\ c \in Memory /\ ~ c.subscribed /\ c.knows = 0 /\ c.shows = 0
      /\ c.read.stage = "NONE"
  BY LeavesRoomType, TabFacts
<1> HIDE DEF c
<1>3. w \in Wire /\ Under(w.down) = {}
  BY UnderNothing
<1> HIDE DEF w
<1>4. server'[t] = NoSocket /\ \A u \in Tab \ {t} : server'[u] = server[u]
  BY <1>1, TabFacts
<1>5. server' \in [Tab -> ServerEnd]
  BY DEF Inv, ChannelTypes
<1>6. NoSocket.tasks = {}
  BY DEF NoSocket
<1>7. Level(NoSocket, w, c, missed[t])
  BY <1>2, <1>3, <1>6, LeavingIsEnough, TabFacts
<1> QED
  BY <1>1, <1>2, <1>3, <1>4, <1>5, <1>7, OneTab, TabFacts DEF TabInv

-----------------------------------------------------------------------------
(* What a tab hears *)

\* The first message under way is heard, the others stay.
LEMMA HeardDown ==
  ASSUME NEW w \in Wire, w.down # <<>>
  PROVE  LET v == [w EXCEPT !.down = Tail(@)] IN
         /\ v \in Wire /\ v.up = w.up
         /\ Head(w.down) \in Message /\ Head(w.down) \in Under(w.down)
         /\ Under(v.down) \subseteq Under(w.down)
         /\ Under(w.down) \subseteq {Head(w.down)} \cup Under(v.down)
<1>1. w.down \in Seq(Message)
  OBVIOUS
<1> DEFINE rest == Tail(w.down)
           v == [w EXCEPT !.down = rest]
<1>2. /\ rest \in Seq(Message)
      /\ Head(w.down) \in Message /\ Head(w.down) \in Under(w.down)
      /\ Under(rest) \subseteq Under(w.down)
      /\ Under(w.down) \subseteq {Head(w.down)} \cup Under(rest)
  BY <1>1, UnderTail
<1> HIDE DEF rest
<1>3. v \in Wire /\ v.up = w.up /\ v.down = rest
  BY <1>2
<1> QED
  BY <1>2, <1>3 DEF rest

\* News that are newer than what the tab knows of make it read; older news it
\* has heard of, and read since or is about to.
LEMMA HearNewsStaysLevel ==
  ASSUME TabInv, Inv', NEW t \in Tab, HearNews(t)
  PROVE  TabRules'
<1> DEFINE old == client[t]
           x == Head(wire[t].down)
           w == [wire[t] EXCEPT !.down = Tail(@)]
<1>1. /\ wire' = [wire EXCEPT ![t] = w] /\ wire[t].down # <<>>
      /\ x.type = "SNAPSHOT_REQUIRED"
      /\ UNCHANGED <<version, room, notices, server, missed>>
  BY DEF HearNews, Hears, tabRest
<1>2. /\ w \in Wire /\ w.up = wire[t].up
      /\ x \in Message /\ x \in Under(wire[t].down)
      /\ Under(w.down) \subseteq Under(wire[t].down)
      /\ Under(wire[t].down) \subseteq {x} \cup Under(w.down)
  BY <1>1, HeardDown, TabFacts
<1> DEFINE newer == InRoom(t) /\ x.version > old.knows
<1>3. client' = IF newer THEN [client EXCEPT ![t] = [Reading(old) EXCEPT !.knows = x.version]]
                ELSE client
  BY DEF HearNews
<1> HIDE DEF x, w
<1>4. /\ version \in Nat \ {0} /\ old \in Memory /\ old.knows \in Nat /\ old.shows \in Nat
      /\ Level(server[t], wire[t], old, missed[t])
  BY TabFacts DEF Memory
<1>5. x.version \in Nat /\ x.version <= version
  <2>1. x.version \in Nat
    BY <1>1, <1>2 DEF Message
  <2> QED
    BY <1>1, <1>2, <1>4, <2>1 DEF Level, NothingAhead
<1>6. server' \in [Tab -> ServerEnd]
  BY DEF Inv, ChannelTypes
<1>7. Losing(wire[t]) => Losing(w)
  BY <1>1, <1>2 DEF Losing
<1>8. ASSUME NEW d, d.page = old.page, d.subscribed = old.subscribed
      PROVE  /\ NothingAhead(server[t], w) /\ BelievesRightly(server[t], w, d)
             /\ HasPlace(server[t], w, d, missed[t])
  BY <1>2, <1>4, <1>7, <1>8 DEF Level, NothingAhead, BelievesRightly, HasPlace
<1>9. CASE newer
  <2> DEFINE r == Reading(old)
             c == [r EXCEPT !.knows = x.version]
  <2>1. /\ r \in Memory /\ r.read.stage = "ASKED" /\ r.page = old.page
        /\ r.subscribed = old.subscribed /\ r.shows = old.shows
    BY <1>4, ReadingType
  <2>2. client' = [client EXCEPT ![t] = c]
    BY <1>3, <1>9
  <2> HIDE DEF r
  <2>3. /\ c \in Memory /\ c.read = r.read /\ c.page = r.page
        /\ c.subscribed = r.subscribed /\ c.shows = r.shows /\ c.knows = x.version
    BY <1>5, <2>1 DEF Memory
  <2> HIDE DEF c
  <2>4. PageStands(c)
    BY <1>4, <1>5, <1>9, <2>1, <2>3 DEF Level, PageStands, ReadsWhatItKnows
  <2>5. Level(server[t], w, c, missed[t])
    BY <1>8, <2>1, <2>3, <2>4 DEF Level, WillHear, HearsOfIt
  <2> QED
    BY <1>1, <1>2, <1>6, <2>2, <2>3, <2>5, OneTab, TabFacts DEF TabInv
<1>10. CASE ~ newer
  <2>1. client' = client
    BY <1>3, <1>10
  <2>2. WillHear(server[t], w, old, missed[t])
    <3> SUFFICES ASSUME server[t].socket = "UP", old.page \in {"SEATS", "GAME"},
                        old.subscribed, missed[t] = "NOTHING"
                 PROVE  HearsOfIt(server[t], w, old)
      BY DEF WillHear
    <3>1. HearsOfIt(server[t], wire[t], old)
      BY <1>4 DEF Level, WillHear
    <3>2. CASE x = News(version)
      <4>1. x.version = version
        BY <1>4, <3>2, MessageTypes
      <4>2. old.knows = version
        BY <1>4, <1>10, <4>1 DEF InRoom, Level, PageStands
      <4>3. \/ old.shows = version \/ old.told \/ old.read.stage \in {"ASKED", "FORGOTTEN"}
            \/ old.read.stage = "ANSWERED" /\ old.read.version >= version
               /\ old.read.version <= version
        BY <1>4, <4>2 DEF Level, PageStands, ReadsWhatItKnows
      <4>4. old.read.stage = "ANSWERED" => old.read.version \in Nat
        BY <1>4 DEF Memory, ReadState, NoRead, Asked, Forgotten
      <4>5. \/ old.shows = version \/ old.told \/ old.read.stage \in {"ASKED", "FORGOTTEN"}
            \/ old.read.stage = "ANSWERED" /\ old.read.version = version
        BY <1>4, <4>3, <4>4
      <4> QED
        BY <4>5 DEF HearsOfIt
    <3>3. CASE x # News(version)
      BY <1>2, <1>7, <3>1, <3>3 DEF HearsOfIt
    <3> QED
      BY <3>2, <3>3
  <2>3. Level(server[t], w, old, missed[t])
    BY <1>4, <1>8, <2>2 DEF Level
  <2> QED
    BY <1>1, <1>2, <1>6, <2>1, <2>3, OneTab, TabFacts DEF TabInv
<1> QED
  BY <1>9, <1>10

\* A tab that has lost its subscription no longer believes in it.
LEMMA HearLostStaysLevel ==
  ASSUME TabInv, Inv', NEW t \in Tab, HearLost(t)
  PROVE  TabRules'
<1> DEFINE old == client[t]
           w == [wire[t] EXCEPT !.down = Tail(@)]
           started == Head(wire[t].down).reason = "STARTED"
<1>1. /\ wire' = [wire EXCEPT ![t] = w] /\ wire[t].down # <<>>
      /\ UNCHANGED <<version, room, notices, server, missed>>
  BY DEF HearLost, Hears, tabRest
<1>2. /\ w \in Wire /\ w.up = wire[t].up
      /\ Under(w.down) \subseteq Under(wire[t].down)
  BY <1>1, HeardDown, TabFacts
<1>3. client' = IF ~ InRoom(t) THEN client
                ELSE IF started THEN [client EXCEPT ![t] = LeavesRoom(old, "LIST")]
                ELSE [client EXCEPT ![t] = [Reading(old) EXCEPT !.subscribed = FALSE]]
  BY DEF HearLost
<1> HIDE DEF w, started
<1>4. /\ version \in Nat \ {0} /\ old \in Memory
      /\ Level(server[t], wire[t], old, missed[t])
  BY TabFacts
<1>5. server' \in [Tab -> ServerEnd]
  BY DEF Inv, ChannelTypes
<1>6. ASSUME NEW d, ~ d.subscribed, PageStands(d)
      PROVE  Level(server[t], w, d, missed[t])
  BY <1>2, <1>4, <1>6 DEF Level, NothingAhead, BelievesRightly, HasPlace, WillHear
<1>7. CASE ~ InRoom(t)
  <2>1. client' = client
    BY <1>3, <1>7
  <2>2. ~ old.subscribed /\ PageStands(old)
    BY <1>4, <1>7 DEF Level, BelievesRightly, InRoom
  <2> QED
    BY <1>1, <1>2, <1>5, <1>6, <2>1, <2>2, OneTab, TabFacts DEF TabInv
<1>8. CASE InRoom(t) /\ started
  <2> DEFINE c == LeavesRoom(old, "LIST")
  <2>1. client' = [client EXCEPT ![t] = c]
    BY <1>3, <1>8
  <2>2. /\ c \in Memory /\ ~ c.subscribed /\ c.knows = 0 /\ c.shows = 0
        /\ c.read.stage = "NONE"
    BY <1>4, LeavesRoomType
  <2> HIDE DEF c
  <2>3. PageStands(c)
    BY <1>4, <2>2 DEF PageStands, ReadsWhatItKnows
  <2> QED
    BY <1>1, <1>2, <1>5, <1>6, <2>1, <2>2, <2>3, OneTab, TabFacts DEF TabInv
<1>9. CASE InRoom(t) /\ ~ started
  <2> DEFINE r == Reading(old)
             c == [r EXCEPT !.subscribed = FALSE]
  <2>1. client' = [client EXCEPT ![t] = c]
    BY <1>3, <1>9
  <2>2. /\ r \in Memory /\ r.read.stage = "ASKED" /\ r.knows = old.knows /\ r.shows = old.shows
    BY <1>4, ReadingType
  <2> HIDE DEF r
  <2>3. /\ c \in Memory /\ ~ c.subscribed /\ c.read = r.read
        /\ c.knows = r.knows /\ c.shows = r.shows
    BY <2>2 DEF Memory
  <2> HIDE DEF c
  <2>4. PageStands(c)
    BY <1>4, <2>2, <2>3 DEF Level, PageStands, ReadsWhatItKnows
  <2> QED
    BY <1>1, <1>2, <1>5, <1>6, <2>1, <2>3, <2>4, OneTab, TabFacts DEF TabInv
<1> QED
  BY <1>7, <1>8, <1>9

-----------------------------------------------------------------------------
(* Connections that break *)

\* A tab whose connection is gone needs nothing.
LEMMA LossIsLevel ==
  ASSUME UNCHANGED <<version, room>>, NEW s, NEW w, NEW c, NEW m, Level(s, w, c, m),
         NEW r, NEW v, NEW d, r.tasks = {}, Under(v.down) = {}, ~ d.subscribed,
         d.knows = c.knows, d.shows = c.shows, d.read = c.read, d.told = c.told
  PROVE  Level(r, v, d, m)'
<1>1. NothingAhead(r, v)' /\ BelievesRightly(r, v, d)' /\ HasPlace(r, v, d, m)'
      /\ WillHear(r, v, d, m)'
  BY DEF NothingAhead, BelievesRightly, HasPlace, WillHear
<1>2. PageStands(d)'
  BY DEF Level, PageStands, ReadsWhatItKnows
<1> QED
  BY <1>1, <1>2 DEF Level

\* One connection breaks, or all with the process and what it had to announce.
LEMMA DisconnectedStaysLevel ==
  ASSUME TabInv, Inv', NEW gone \in SUBSET Tab, Disconnected(gone),
         UNCHANGED <<version, room, missed>>, notices' \subseteq notices,
         gone = Tab \/ notices' = notices
  PROVE  TabRules'
<1> DEFINE nothing == [up |-> <<>>, down |-> <<>>]
<1>1. nothing \in Wire /\ Under(nothing.down) = {}
  BY UnderNothing
<1> HIDE DEF nothing
<1>2. ASSUME NEW t \in Tab PROVE wire'[t] \in Wire /\ client'[t] \in Memory /\ LevelTab(t)'
  <2>1. CASE t \in gone
    <3>1. PICK s, w, c, m : s = server[t] /\ w = wire[t] /\ c = client[t] /\ m = missed[t]
      OBVIOUS
    <3> DEFINE forgot == [c EXCEPT !.subscribed = FALSE]
    <3>2. PICK r, v, d : r = server'[t] /\ v = wire'[t] /\ d = client'[t]
      OBVIOUS
    <3>3. r.tasks = {}
      BY <2>1, <3>2 DEF Disconnected, NoSocket
    <3>4. v = nothing
      BY <2>1, <3>2 DEF Disconnected, nothing
    <3>5. d = forgot
      BY <2>1, <3>1, <3>2 DEF Disconnected
    <3>0. c \in Memory
      BY <3>1, TabFacts
    <3>6. /\ forgot \in Memory /\ ~ forgot.subscribed /\ forgot.knows = c.knows
          /\ forgot.shows = c.shows /\ forgot.read = c.read /\ forgot.told = c.told
      BY <3>0 DEF Memory
    <3> HIDE DEF forgot
    <3>7. Level(s, w, c, m)
      BY <3>1, TabFacts
    <3>8. Level(r, v, d, m)'
      BY <1>1, <3>3, <3>4, <3>5, <3>6, <3>7, LossIsLevel
    <3> QED
      BY <1>1, <3>1, <3>2, <3>4, <3>5, <3>6, <3>8 DEF LevelTab
  <2>2. CASE t \notin gone
    <3>1. server'[t] = server[t] /\ wire'[t] = wire[t] /\ client'[t] = client[t]
      BY <2>2 DEF Disconnected
    <3>2. RoomStays
      BY <2>2 DEF RoomStays, ToBeAnnounced
    <3>3. LevelTab(t)'
      BY <3>1, <3>2, LevelStays, TabFacts DEF LevelTab
    <3> QED
      BY <3>1, <3>3, TabFacts
  <2> QED
    BY <2>1, <2>2
<1>3. wire' \in [Tab -> Wire] /\ client' \in [Tab -> Memory]
  BY <1>2 DEF Disconnected
<1> QED
  BY <1>2, <1>3 DEF TabInv, TabRules, TabTypes, NoticesPast

\* A connection that breaks, and a process that dies, leave every tab level.
LEMMA DisconnectStaysLevel ==
  ASSUME TabInv, Inv', (\E t \in Tab : Disconnect(t)) \/ Crash
  PROVE  TabRules'
<1>1. ASSUME NEW t \in Tab, Disconnect(t) PROVE TabRules'
  <2>1. {t} \in SUBSET Tab /\ Disconnected({t}) /\ UNCHANGED <<version, room, notices, missed>>
    BY <1>1 DEF Disconnect, tabRest
  <2> QED
    BY <2>1, DisconnectedStaysLevel
<1>2. CASE Crash
  <2>1. Tab \in SUBSET Tab /\ Disconnected(Tab) /\ UNCHANGED <<version, room, missed>>
        /\ notices' \subseteq notices
    BY <1>2 DEF Crash
  <2> QED
    BY <2>1, DisconnectedStaysLevel
<1> QED
  BY <1>1, <1>2

-----------------------------------------------------------------------------
(* Reads *)

\* An answer is of the room as it is, and makes up for news that were missed.
LEMMA ServeStaysLevel ==
  ASSUME TabInv, Inv', NEW t \in Tab, Serve(t)
  PROVE  TabRules'
<1> DEFINE old == client[t]
           answer == [stage |-> "ANSWERED", version |-> version,
                      session |-> authority[t].session,
                      here |-> authority[t].control = "HERE", open |-> ~ room.trashed,
                      over |-> room.over]
           c == [old EXCEPT !.read = answer]
           m == IF missed[t] = "NEWS" THEN "NOTHING" ELSE missed[t]
<1>1. /\ client' = [client EXCEPT ![t] = c]
      /\ UNCHANGED <<version, room, notices, server, wire>>
  BY DEF Serve, tabRest
<1>2. missed' = [missed EXCEPT ![t] = m]
  <2>1. CASE missed[t] = "NEWS"
    BY <2>1 DEF Serve
  <2>2. CASE missed[t] # "NEWS"
    BY <2>2, TabFacts DEF Serve
  <2> QED
    BY <2>1, <2>2
<1>3. /\ version \in Nat \ {0} /\ old \in Memory /\ missed[t] \in Miss
      /\ Level(server[t], wire[t], old, missed[t])
      /\ authority[t].session \in BOOLEAN
      /\ room.trashed \in BOOLEAN /\ room.over \in BOOLEAN
  <2>1. authority[t] \in Authority /\ room \in [over : BOOLEAN, trashed : BOOLEAN]
    BY DEF TabInv, Inv, ChannelTypes
  <2> QED
    BY <2>1, TabFacts DEF Authority
<1>4. answer \in ReadState /\ answer.stage = "ANSWERED" /\ answer.version = version
      /\ (answer.open => ~ room.trashed)
  BY <1>3 DEF ReadState
<1>5. m \in Miss /\ (m = "CHANNEL" <=> missed[t] = "CHANNEL")
  BY <1>3 DEF Miss
<1> HIDE DEF answer, m
<1>6. /\ c \in Memory /\ c.read = answer /\ c.page = old.page
      /\ c.subscribed = old.subscribed /\ c.knows = old.knows /\ c.shows = old.shows
  BY <1>3, <1>4 DEF Memory
<1> HIDE DEF c
<1>7. PageStands(c)
  BY <1>3, <1>4, <1>6 DEF Level, PageStands, ReadsWhatItKnows
<1>8. WillHear(server[t], wire[t], c, m)
  BY <1>4, <1>6 DEF WillHear, HearsOfIt
<1>9. Level(server[t], wire[t], c, m)
  BY <1>3, <1>5, <1>6, <1>7, <1>8 DEF Level, BelievesRightly, HasPlace
<1>10. server' \in [Tab -> ServerEnd]
  BY DEF Inv, ChannelTypes
<1> QED
  BY <1>1, <1>2, <1>5, <1>6, <1>9, <1>10, OneTab, TabFacts DEF TabInv

\* An error is shown.
LEMMA ReadFailsStaysLevel ==
  ASSUME TabInv, Inv', NEW t \in Tab, ReadFails(t)
  PROVE  TabRules'
<1> DEFINE old == client[t]
           idle == [old EXCEPT !.read = NoRead]
           c == [idle EXCEPT !.told = TRUE]
<1>1. /\ client' = [client EXCEPT ![t] = c]
      /\ UNCHANGED <<version, room, notices, server, wire, missed>>
  BY DEF ReadFails, tabRest
<1>2. old \in Memory /\ Level(server[t], wire[t], old, missed[t])
  BY TabFacts
<1>3. NoRead \in ReadState /\ NoRead.stage = "NONE"
  BY DEF NoRead, ReadState
<1>4. /\ idle \in Memory /\ idle.read = NoRead /\ idle.page = old.page
      /\ idle.subscribed = old.subscribed /\ idle.knows = old.knows /\ idle.shows = old.shows
  BY <1>2, <1>3 DEF Memory
<1> HIDE DEF idle
<1>5. /\ c \in Memory /\ c.read = NoRead /\ c.page = old.page /\ c.told
      /\ c.subscribed = old.subscribed /\ c.knows = old.knows /\ c.shows = old.shows
  BY <1>4 DEF Memory
<1> HIDE DEF c
<1>6. Level(server[t], wire[t], c, missed[t])
  BY <1>2, <1>3, <1>5
  DEF Level, BelievesRightly, HasPlace, PageStands, ReadsWhatItKnows, WillHear, HearsOfIt
<1>7. server' \in [Tab -> ServerEnd]
  BY DEF Inv, ChannelTypes
<1> QED
  BY <1>1, <1>5, <1>6, <1>7, OneTab, TabFacts DEF TabInv

\* What was read is shown unless the tab knows of something newer, for which
\* it has something to wait.
LEMMA ReadShowsStaysLevel ==
  ASSUME TabInv, Inv', NEW t \in Tab, ReadShows(t)
  PROVE  TabRules'
<1> DEFINE old == client[t]
           v == old.read.version
           c == Shown(old, v)
<1>1. /\ client' = [client EXCEPT ![t] = c]
      /\ UNCHANGED <<version, room, notices, server, wire, missed>>
      /\ old.read.stage = "ANSWERED" /\ old.read.open
  BY DEF ReadShows, Succeeds, Answered, tabRest
<1>2. old \in Memory /\ Level(server[t], wire[t], old, missed[t]) /\ version \in Nat \ {0}
  BY TabFacts
<1>3. /\ v \in Nat /\ v <= version /\ (v = version => ~ room.trashed)
      /\ old.knows \in Nat /\ old.shows \in Nat
      /\ old.shows <= v /\ old.knows <= version
  BY <1>1, <1>2 DEF Memory, ReadState, NoRead, Asked, Forgotten, Level, PageStands
<1>4. NoRead \in ReadState /\ NoRead.stage = "NONE"
  BY DEF NoRead, ReadState
<1>5. /\ c \in Memory /\ c.read = NoRead /\ c.page = old.page /\ c.told = old.told
      /\ c.subscribed = old.subscribed
      /\ IF v < old.knows THEN c.knows = old.knows /\ c.shows = old.shows
                          ELSE c.knows = v /\ c.shows = v
  <2> DEFINE idle == [old EXCEPT !.read = NoRead]
             known == [idle EXCEPT !.knows = v]
             shown == [known EXCEPT !.shows = v]
  <2>1. c = IF v < old.knows THEN idle ELSE shown
    BY DEF Shown
  <2> HIDE DEF v, c
  <2>2. /\ idle \in Memory /\ idle.read = NoRead /\ idle.page = old.page
        /\ idle.told = old.told /\ idle.subscribed = old.subscribed
        /\ idle.knows = old.knows /\ idle.shows = old.shows
    BY <1>2, <1>4 DEF Memory
  <2> HIDE DEF idle
  <2>3. /\ known \in Memory /\ known.read = NoRead /\ known.page = old.page
        /\ known.told = old.told /\ known.subscribed = old.subscribed /\ known.knows = v
    BY <1>3, <2>2 DEF Memory
  <2> HIDE DEF known
  <2>4. /\ shown \in Memory /\ shown.read = NoRead /\ shown.page = old.page
        /\ shown.told = old.told /\ shown.subscribed = old.subscribed
        /\ shown.knows = v /\ shown.shows = v
    BY <1>3, <2>3 DEF Memory
  <2> HIDE DEF shown
  <2> QED
    BY <2>1, <2>2, <2>4
<1> HIDE DEF c, v
<1>6. PageStands(c)
  <2>1. CASE v < old.knows
    <3>1. old.knows <= old.shows \/ old.told
      BY <1>1, <1>2, <1>3, <2>1 DEF Level, PageStands, ReadsWhatItKnows, v
    <3> QED
      BY <1>2, <1>3, <1>4, <1>5, <2>1, <3>1 DEF Level, PageStands, ReadsWhatItKnows
  <2>2. CASE ~ v < old.knows
    BY <1>3, <1>4, <1>5, <2>2 DEF PageStands, ReadsWhatItKnows
  <2> QED
    BY <2>1, <2>2
<1>7. HearsOfIt(server[t], wire[t], old) => HearsOfIt(server[t], wire[t], c)
  <2>1. old.shows = version => c.shows = version
    BY <1>2, <1>3, <1>5
  <2>2. v = version => c.shows = version
    BY <1>2, <1>3, <1>5
  <2> QED
    BY <1>1, <1>5, <2>1, <2>2 DEF HearsOfIt, v
<1>8. Level(server[t], wire[t], c, missed[t])
  BY <1>2, <1>5, <1>6, <1>7 DEF Level, BelievesRightly, HasPlace, WillHear
<1>9. server' \in [Tab -> ServerEnd]
  BY DEF Inv, ChannelTypes
<1> QED
  BY <1>1, <1>5, <1>8, <1>9, OneTab, TabFacts DEF TabInv

-----------------------------------------------------------------------------
(* The theorem *)

\* When it begins, no tab is on a page of the room.
LEMMA InitLevel == Init => TabRules
<1> SUFFICES ASSUME Init PROVE TabRules
  OBVIOUS
<1> DEFINE w == [up |-> <<>>, down |-> <<>>]
           c == [page |-> "LIST", subscribed |-> FALSE, knows |-> 0, shows |-> 0,
                 read |-> NoRead, told |-> FALSE, write |-> "NONE", presses |-> 0]
<1>1. /\ version = 1 /\ notices = {} /\ server = [t \in Tab |-> NoSocket]
      /\ wire = [t \in Tab |-> w] /\ client = [t \in Tab |-> c]
      /\ missed = [t \in Tab |-> "NOTHING"]
  BY DEF Init
<1>2. NoRead \in ReadState /\ NoRead.stage = "NONE"
  BY DEF NoRead, ReadState
<1> HIDE DEF NoRead
<1>3. /\ c \in Memory /\ ~ c.subscribed /\ c.knows = 0 /\ c.shows = 0
      /\ c.read.stage = "NONE"
  BY <1>2 DEF Memory, Page
<1>4. w \in Wire /\ Under(w.down) = {}
  BY UnderNothing
<1> HIDE DEF c, w
<1>5. TabTypes /\ NoticesPast
  BY <1>1, <1>3, <1>4 DEF TabTypes, NoticesPast, Miss
<1>6. NoSocket.tasks = {}
  BY DEF NoSocket
<1>7. Level(NoSocket, w, c, "NOTHING")
  BY <1>1, <1>3, <1>4, <1>6
  DEF Level, NothingAhead, BelievesRightly, HasPlace, PageStands, ReadsWhatItKnows, WillHear
<1> QED
  BY <1>1, <1>5, <1>7 DEF TabRules, LevelTab

\* Every step leaves every tab level.
LEMMA StepStaysLevel ==
  ASSUME TabInv, Inv', Next
  PROVE  TabRules'
<1>1. CASE WriteStep
  BY <1>1, WriteStaysLevel
<1>2. CASE AnnounceStep
  BY <1>2, AnnounceStaysLevel, DisplaceStaysLevel, EvictStaysLevel, KickStaysLevel
  DEF AnnounceStep
<1>3. ASSUME NEW t \in Tab, ServerStep(t) PROVE TabRules'
  BY <1>3, GreetStaysLevel, SubscribeStaysLevel, UnsubscribeStaysLevel, AuthoriseStaysLevel,
     JoinStaysLevel, RejectStaysLevel
  DEF ServerStep
<1>4. CASE Crash
  BY <1>4, DisconnectStaysLevel
<1>5. ASSUME NEW t \in Tab, TabStep(t) PROVE TabRules'
  <2>1. CASE \E page \in {"SEATS", "GAME"} : Navigate(t, page)
    BY <2>1, OpeningStaysLevel DEF Navigate, tabRest
  <2> QED
    BY <1>5, <2>1, ConnectStaysLevel, LeaveStaysLevel, LookStaysLevel,
       HearNewsStaysLevel, HearLostStaysLevel, LogsOutStaysLevel, DisconnectStaysLevel
    DEF TabStep
<1>6. ASSUME NEW t \in Tab, ReadStep(t) PROVE TabRules'
  <2>1. CASE ReadGoesToSeats(t) \/ ReadGoesToGame(t)
    BY <2>1, OpeningStaysLevel DEF ReadGoesToSeats, ReadGoesToGame, tabRest
  <2> QED
    BY <1>6, <2>1, ServeStaysLevel, LogsOutStaysLevel, ReadFailsStaysLevel, LeaveStaysLevel,
       ReadShowsStaysLevel
    DEF ReadStep
<1>7. ASSUME NEW t \in Tab, UserStep(t) PROVE TabRules'
  BY <1>7, PressStaysLevel, OwnWriteStaysLevel, WriteSucceedsStaysLevel, WriteFailsStaysLevel,
     WriteLosesControlStaysLevel
  DEF UserStep
<1> QED
  BY <1>1, <1>2, <1>3, <1>4, <1>5, <1>6, <1>7 DEF Next

\* A tab for which nothing is under way has nothing left to wait for.
LEMMA LevelIsFresh == TabInv => QuietTabIsFresh
<1> SUFFICES ASSUME TabInv, NEW t \in Tab, Quiet(t), missed[t] = "NOTHING",
                    client[t].read # Forgotten
             PROVE  client[t].told \/ (client[t].shows = version /\ ~ room.trashed)
  BY DEF QuietTabIsFresh, Honest
<1>1. Level(server[t], wire[t], client[t], missed[t])
  BY TabFacts
<1>2. /\ wire[t].up = <<>> /\ Under(wire[t].down) = {}
      /\ server[t].tasks = {} /\ notices = {}
  BY UnderNothing DEF Quiet
<1>5. client[t].read.stage \notin {"ASKED", "ANSWERED", "FORGOTTEN"}
  <2>1. client[t].read \in ReadState /\ ~ UnderWay(client[t])
    BY TabFacts DEF Memory, Quiet
  <2> QED
    BY <2>1 DEF ReadState, UnderWay, NoRead, Asked
<1>3. HearsOfIt(server[t], wire[t], client[t])
  BY <1>1 DEF Level, WillHear, Quiet, Connected, InRoom
<1>4. client[t].told \/ client[t].shows = version
  BY <1>2, <1>3, <1>5 DEF HearsOfIt, ToBeAnnounced, Losing
<1> QED
  BY <1>1, <1>4 DEF Level, PageStands

\* The inductive invariant of the channel and its tabs holds for every set of
\* tabs and every bound.
THEOREM TabInvariant == Spec => []TabInv
<1>1. Init => TabInv
  BY InitInv, InitLevel DEF TabInv
<1>2. TabInv /\ [Next]_vars => TabInv'
  <2> SUFFICES ASSUME TabInv, [Next]_vars PROVE TabInv'
    OBVIOUS
  <2>1. CASE Next
    <3>1. Inv'
      BY <2>1, StepKeepsInv DEF TabInv, TabRules, TabTypes
    <3> QED
      BY <2>1, <3>1, StepStaysLevel DEF TabInv
  <2>2. CASE UNCHANGED vars
    <3>1. Inv'
      BY <2>2, TabKeepsInv DEF TabInv, vars
    <3>2. RoomStays
      BY <2>2 DEF RoomStays, ToBeAnnounced, vars
    <3>3. \A t \in Tab : LevelTab(t)'
      BY <2>2, <3>2, LevelStays DEF TabInv, TabRules, LevelTab, vars
    <3>4. TabTypes' /\ NoticesPast'
      BY <2>2 DEF TabInv, TabRules, TabTypes, NoticesPast, vars
    <3> QED
      BY <3>1, <3>3, <3>4 DEF TabInv, TabRules
  <2> QED
    BY <2>1, <2>2
<1> QED
  BY <1>1, <1>2, PTL DEF Spec

\* A tab that believes itself subscribed and waits for nothing shows the room
\* as it is, or has said that it could not be read: no loss, delay or order of
\* events, reads, writes and reconnections leaves a tab behind, except for the
\* three gaps the code has, for any number of tabs, versions, evictions, lost
\* connections and writes of the users.
THEOREM QuietTabsAreFresh == Spec => []QuietTabIsFresh
  BY TabInvariant, LevelIsFresh, PTL

=============================================================================
