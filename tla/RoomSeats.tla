----------------------------- MODULE RoomSeats ------------------------------
(***************************************************************************)
(* Who sits where: memberships of a room, the players that belong to them, *)
(* characters, the bank, the palaces that come with the characters, and    *)
(* the swaps members ask each other for.                                   *)
(*                                                                         *)
(* Every operation runs under the lock of the Room row and is one step.    *)
(* Its idempotency is that of IdempotentWrites, and the move of control    *)
(* between the sessions of an account is in RoomChannel: here somebody     *)
(* acts for each active member. What happens to a palace while the game is *)
(* played belongs to GameRoom and is one action here.                      *)
(***************************************************************************)
EXTENDS Naturals, FiniteSets

CONSTANTS
    Member,       \* accounts that are or may become members
    Character,    \* characters, each with an initial palace
    Nobody,       \* a model value: no owner, no target
    NoCharacter,  \* a model value
    PlayerLimit,  \* Room.playerLimit, which is also the number of colours
    MaxSwaps      \* bound: swaps that wait at a time

ASSUME SeatsAssumption ==
    /\ Nobody \notin Member
    /\ NoCharacter \notin Character
    /\ PlayerLimit \in Nat \ {0}
    /\ MaxSwaps \in Nat

VARIABLES
    room,     \* Room.status, and allowMidgameJoin
    member,   \* the RoomMembership rows
    player,   \* the Player rows, under the member they belong to
    palace,   \* ownerPlayerId of the initial palace of each character
    swap      \* the pending RoleSwapRequest of each requester

vars == <<room, member, player, palace, swap>>

\* "seat": pawnColor and turnOrder. Colour and order are given together, the
\* first free of five and of five, so that the n-th colour has the order n;
\* 0 before there is a player
MemberRow == [status : {"NONE", "ACTIVE", "LEFT"}, bank : BOOLEAN,
              character : Character \cup {NoCharacter}]
PlayerRow == [status : {"NONE", "ACTIVE", "LEFT"}, seat : 0..PlayerLimit,
              character : Character \cup {NoCharacter}]
SwapRow == [kind : {"NONE", "CHARACTER", "BANK"}, target : Member \cup {Nobody},
            mine : Character \cup {NoCharacter}, theirs : Character \cup {NoCharacter}]

NoPlayer == [status |-> "NONE", seat |-> 0, character |-> NoCharacter]
NoSwap == [kind |-> "NONE", target |-> Nobody, mine |-> NoCharacter, theirs |-> NoCharacter]

\* createRoom: nobody is a member, not even who creates the room
Init ==
    /\ room \in [status : {"LOBBY"}, midgame : BOOLEAN]
    /\ member = [m \in Member |->
           [status |-> "NONE", bank |-> FALSE, character |-> NoCharacter]]
    /\ player = [m \in Member |-> NoPlayer]
    /\ palace = [c \in Character |-> Nobody]
    /\ swap = [m \in Member |-> NoSwap]

Lobby == room.status = "LOBBY"
Playing == room.status = "PLAYING"

Active(m) == member[m].status = "ACTIVE"
ActiveBank(m) == Active(m) /\ member[m].bank
HasPlayer(m) == player[m].status # "NONE"
Taken(c) == \E m \in Member : Active(m) /\ member[m].character = c

\* playablePlayers
Playable ==
    {m \in Member :
       /\ Active(m)
       /\ member[m].character # NoCharacter
       /\ player[m].status = "ACTIVE"
       /\ player[m].character = member[m].character}

-----------------------------------------------------------------------------
(* Seats.                                                                  *)

FreeSeats(others) == (1..PlayerLimit) \ {player[p].seat : p \in others}

\* colors.find and the search for an order: the first one, if there is any
FirstSeat(others) == {s \in FreeSeats(others) : \A t \in FreeSeats(others) : s <= t}

KeptSeat(m, others) ==
    IF player[m].seat # 0 THEN {player[m].seat} ELSE FirstSeat(others)

\* allocatePlayerSeat: m keeps a seat that is still free; no seat is
\* PLAYER_LIMIT
AllocatedSeat(m, others) ==
    IF player[m].seat \in FreeSeats(others) THEN {player[m].seat} ELSE FirstSeat(others)

\* m plays c, on the seat that is allocated
Seated(m, c, others) ==
    \E s \in AllocatedSeat(m, others) :
      player' = [player EXCEPT ![m] = [status |-> "ACTIVE", seat |-> s, character |-> c]]

-----------------------------------------------------------------------------
(* Joining and choosing.                                                   *)

\* joinRoom: an active member of a lobby is only shown the membership
JoinLobby(m) ==
    /\ Lobby
    /\ ~ Active(m)
    /\ member' = [member EXCEPT ![m].status = "ACTIVE"]
    /\ UNCHANGED <<room, player, palace, swap>>

\* roomJoinability in a running room
Joinable == room.midgame /\ Cardinality(Playable) < PlayerLimit

\* joinRoom: the character is chosen at once, and brings nothing with it
JoinPlaying(m, c) ==
    /\ Playing
    /\ ~ (Active(m) /\ (member[m].bank \/ member[m].character # NoCharacter))
    /\ Joinable
    /\ ~ Taken(c)
    /\ member' = [member EXCEPT ![m] =
           [status |-> "ACTIVE", bank |-> FALSE, character |-> c]]
    /\ Seated(m, c, Playable \ {m})
    /\ UNCHANGED <<room, palace, swap>>

\* requireSeatAcquisitionAllowed
MayAcquire(has) == Lobby \/ (Playing /\ (has \/ room.midgame))

\* the palace comes with the first character of a lobby
Gift(m) == Lobby /\ ~ HasPlayer(m)

\* selectCharacter
SelectCharacter(m, c) ==
    /\ Active(m)
    /\ MayAcquire(HasPlayer(m))
    /\ member[m].character = NoCharacter
    /\ ~ Taken(c)
    /\ HasPlayer(m) \/ Cardinality(Playable) < PlayerLimit
    /\ member' = [member EXCEPT ![m].character = c]
    /\ Seated(m, c, Playable \ {m})
    /\ palace' = IF Gift(m) /\ palace[c] = Nobody THEN [palace EXCEPT ![c] = m] ELSE palace
    /\ UNCHANGED <<room, swap>>

\* selectBank
SelectBank(m) ==
    /\ Active(m)
    /\ MayAcquire(member[m].bank)
    /\ ~ \E b \in Member : ActiveBank(b)
    /\ member' = [member EXCEPT ![m].bank = TRUE]
    /\ UNCHANGED <<room, player, palace, swap>>

-----------------------------------------------------------------------------
(* Swaps.                                                                  *)

\* a member has one request at a time
MayRequest(m) ==
    /\ swap[m] = NoSwap
    /\ Cardinality({r \in Member : swap[r] # NoSwap}) < MaxSwaps

\* requestRoleSwap; swaps are for the lobby
RequestRoleSwap(m, t) ==
    /\ Lobby
    /\ Active(m)
    /\ t # m
    /\ Active(t)
    /\ member[t].character # NoCharacter
    /\ MayRequest(m)
    /\ swap' = [swap EXCEPT ![m] =
           [kind |-> "CHARACTER", target |-> t, mine |-> member[m].character,
            theirs |-> member[t].character]]
    /\ UNCHANGED <<room, member, player, palace>>

\* requestBankSwap
RequestBankSwap(m, t) ==
    /\ Lobby
    /\ Active(m)
    /\ ~ member[m].bank
    /\ ActiveBank(t)
    /\ MayRequest(m)
    /\ swap' = [swap EXCEPT ![m] = [NoSwap EXCEPT !.kind = "BANK", !.target = t]]
    /\ UNCHANGED <<room, member, player, palace>>

TargetHasIt(m, t) ==
    /\ Active(m)
    /\ member[t].character = swap[m].theirs

\* CHARACTER_DRIFT: the two no longer are who they were
NoDrift(m, t) ==
    /\ Active(m)
    /\ member[m].character = swap[m].mine
    /\ player[m].character = member[m].character
    /\ member[t].character = swap[m].theirs
    /\ player[t].character = member[t].character

Accepts(m, t) ==
    /\ Lobby
    /\ Active(t)
    /\ swap[m].target = t
    /\ swap' = [swap EXCEPT ![m] = NoSwap]
    /\ UNCHANGED room

\* the seat of the member who gets the target's character
SwapSeat(m, t) ==
    IF ~ HasPlayer(m) THEN {player[t].seat}
    ELSE IF swap[m].mine = NoCharacter THEN AllocatedSeat(m, Playable \ {m, t})
    ELSE {player[m].seat}

PalacesStay(m, t) == palace

\* initial palaces go where their characters go; a new player is given one
\* that nobody owns
PalacesMove(m, t) ==
    [c \in Character |->
       IF c = swap[m].theirs /\ (palace[c] = t \/ (palace[c] = Nobody /\ ~ HasPlayer(m)))
       THEN m
       ELSE IF c = swap[m].mine /\ palace[c] = m THEN t
       ELSE palace[c]]

\* acceptRoleSwap and executeSwap: m gets the character of t, who gets that
\* of m, or none
ExecuteSwap(m, t) ==
    /\ swap[m].kind = "CHARACTER"
    /\ NoDrift(m, t)
    /\ Accepts(m, t)
    /\ member' = [member EXCEPT ![m].character = swap[m].theirs,
                                ![t].character = swap[m].mine]
    /\ \E s \in SwapSeat(m, t) : player' = [player EXCEPT
           ![m] = [status |-> "ACTIVE", seat |-> s, character |-> swap[m].theirs],
           ![t].character = swap[m].mine]
    /\ palace' = PalacesMove(m, t)

\* executeBankSwap
ExecuteBankSwap(m, t) ==
    /\ swap[m].kind = "BANK"
    /\ Active(m)
    /\ ~ member[m].bank
    /\ member[t].bank
    /\ Accepts(m, t)
    /\ member' = [member EXCEPT ![m].bank = TRUE, ![t].bank = FALSE]
    /\ UNCHANGED <<player, palace>>

\* conflictRoleSwap
ConflictRoleSwap(m, t) ==
    /\ IF swap[m].kind = "CHARACTER" THEN ~ NoDrift(m, t)
       ELSE ~ (Active(m) /\ ~ member[m].bank /\ member[t].bank)
    /\ Accepts(m, t)
    /\ UNCHANGED <<member, player, palace>>

\* resolveRoleSwap: the target rejects or the requester cancels. Nothing
\* makes a request wait for the bank, so that there is nothing to approve
ResolveRoleSwap(m) ==
    /\ Lobby \/ Playing
    /\ swap[m] # NoSwap
    /\ Active(m) \/ Active(swap[m].target)
    /\ swap' = [swap EXCEPT ![m] = NoSwap]
    /\ UNCHANGED <<room, member, player, palace>>

-----------------------------------------------------------------------------
(* The administrator, the start and the end.                               *)

\* updateAdminRoom, as far as seats are concerned
UpdateAdminRoom ==
    /\ Lobby \/ Playing
    /\ room' = [room EXCEPT !.midgame = ~ @]
    /\ UNCHANGED <<member, player, palace, swap>>

\* the members that leave, and their players
Left(who) ==
    /\ member' = [m \in Member |-> IF m \in who
           THEN [status |-> "LEFT", bank |-> FALSE, character |-> NoCharacter]
           ELSE member[m]]
    /\ player' = [m \in Member |-> IF m \in who /\ HasPlayer(m)
           THEN [player[m] EXCEPT !.status = "LEFT", !.character = NoCharacter]
           ELSE player[m]]

RemovableAnyBank(m) ==
    /\ ~ (player[m].status = "ACTIVE" /\ member[m].character # NoCharacter)
    /\ \A c \in Character : palace[c] # m

\* guards of a running room; who has a character there plays, so that turns,
\* requests and debts are those of members who cannot be removed anyway
RemovableWhilePlaying(m) ==
    /\ member[m].bank => \E b \in Member \ {m} : ActiveBank(b)
    /\ ~ (player[m].status = "ACTIVE" /\ member[m].character # NoCharacter)
    /\ \A c \in Character : palace[c] # m

SwapsOf(m) == {r \in Member : r = m \/ swap[r].target = m}

\* removeAdminRoomMember
RemoveAdminRoomMember(m) ==
    /\ Active(m)
    /\ Lobby \/ (Playing /\ RemovableWhilePlaying(m))
    /\ Left({m})
    /\ swap' = [r \in Member |-> IF r \in SwapsOf(m) THEN NoSwap ELSE swap[r]]
    /\ palace' = [c \in Character |-> IF palace[c] = m THEN Nobody ELSE palace[c]]
    /\ UNCHANGED room

\* reassignAdminRoomBank
ReassignAdminRoomBank(m) ==
    /\ Lobby \/ Playing
    /\ Active(m)
    /\ ~ member[m].bank
    /\ member' = [r \in Member |-> [member[r] EXCEPT !.bank = r = m \/ (@ /\ ~ Active(r))]]
    /\ UNCHANGED <<room, player, palace, swap>>

\* PrismaGameService.start, by the bank: those who are nothing have to leave
Start ==
    /\ Lobby
    /\ \E b \in Member : ActiveBank(b)
    /\ \A m \in Member : Active(m) /\ member[m].character # NoCharacter => m \in Playable
    /\ Cardinality(Playable) \in 2..PlayerLimit
    /\ Left({m \in Member : Active(m) /\ ~ member[m].bank
                               /\ member[m].character = NoCharacter})
    /\ room' = [room EXCEPT !.status = "PLAYING"]
    /\ swap' = [m \in Member |-> NoSwap]
    /\ UNCHANGED palace

\* purchases and transfers of the game, and their reversals
GameMovesPalace(c, p) ==
    /\ Playing
    /\ p \in Playable \cup {Nobody}
    /\ palace' = [palace EXCEPT ![c] = p]
    /\ UNCHANGED <<room, member, player, swap>>

\* settlement, by the bank of a running room or by the administrator: an open
\* swap or a seat without its player blocks it
FinishNormal ==
    /\ Playing
    /\ \A m \in Member : swap[m] = NoSwap
    /\ \A m \in Member : Active(m) /\ member[m].character # NoCharacter => m \in Playable
    /\ Playable # {}
    /\ room' = [room EXCEPT !.status = "FINISHED"]
    /\ UNCHANGED <<member, player, palace, swap>>

\* forced, by the administrator: open swaps are cancelled
FinishForced ==
    /\ Lobby \/ Playing
    /\ room' = [room EXCEPT !.status = "FINISHED"]
    /\ swap' = [m \in Member |-> NoSwap]
    /\ UNCHANGED <<member, player, palace>>

MemberStep(m) ==
    \/ JoinLobby(m)
    \/ \E c \in Character : JoinPlaying(m, c) \/ SelectCharacter(m, c)
    \/ SelectBank(m)

SwapStep(m) ==
    \/ \E t \in Member :
         \/ RequestRoleSwap(m, t)
         \/ RequestBankSwap(m, t)
         \/ ExecuteSwap(m, t)
         \/ ExecuteBankSwap(m, t)
         \/ ConflictRoleSwap(m, t)
    \/ ResolveRoleSwap(m)

AdminStep ==
    \/ \E m \in Member : RemoveAdminRoomMember(m) \/ ReassignAdminRoomBank(m)
    \/ UpdateAdminRoom

GameStep ==
    \/ Start
    \/ \E c \in Character, p \in Member \cup {Nobody} : GameMovesPalace(c, p)
    \/ FinishNormal
    \/ FinishForced

Next ==
    \/ \E m \in Member : MemberStep(m) \/ SwapStep(m)
    \/ AdminStep
    \/ GameStep

Spec == Init /\ [][Next]_vars

-----------------------------------------------------------------------------
\* Types of the rows.
TypeOK ==
    /\ room \in [status : {"LOBBY", "PLAYING", "FINISHED"}, midgame : BOOLEAN]
    /\ member \in [Member -> MemberRow]
    /\ player \in [Member -> PlayerRow]
    /\ palace \in [Character -> Member \cup {Nobody}]
    /\ swap \in [Member -> SwapRow]

\* a member who is not active holds nothing
GoneHoldNothing ==
    \A m \in Member : ~ Active(m) => ~ member[m].bank /\ member[m].character = NoCharacter

\* membership and player name the same character, and who has one plays
RowsAgree ==
    \A m \in Member :
      /\ player[m].character = member[m].character
      /\ member[m].character # NoCharacter => player[m].status = "ACTIVE" /\ player[m].seat # 0

\* The rows of memberships and players tell the same story, and no two
\* members have the same character, colour or turn order, whatever sequence
\* of joins, choices, swaps, removals and returns led there: start never
\* refuses a room for a mismatch, and no allocation meets the unique indexes
\* of the database.
SeatsAgree ==
    /\ GoneHoldNothing
    /\ RowsAgree
    /\ \A m, n \in Playable : m # n =>
         player[m].character # player[n].character /\ player[m].seat # player[n].seat

\* There is at most one bank, and a room that is played has one: nobody is
\* removed, replaced or swapped so that the game is left without.
OneBank ==
    /\ \A m, n \in Member : ActiveBank(m) /\ ActiveBank(n) => m = n
    /\ Playing => \E m \in Member : ActiveBank(m)

\* In a lobby the palace of a character belongs to who has the character, if
\* to anybody: it is given once, follows the character through swaps, and is
\* taken back from a member who is removed. A swap that is still open is
\* between two active members.
PalaceFollowsCharacter ==
    Lobby =>
      /\ \A c \in Character : palace[c] # Nobody => member[palace[c]].character = c
      /\ \A m \in Member : swap[m] # NoSwap => Active(m) /\ Active(swap[m].target)

\* the characters of m and t change hands as a request of m says
AsRequested(m, t) ==
    /\ swap[m].kind = "CHARACTER"
    /\ swap[m].target = t
    /\ member[m].character = swap[m].mine /\ member'[m].character = swap[m].theirs
    /\ member[t].character = swap[m].theirs /\ member'[t].character = swap[m].mine
    /\ swap'[m] = NoSwap

\* A member who stays in the room loses or changes a character only by a
\* swap that names both characters as they are and is then closed, although
\* both members may have swapped with others, left and come back since the
\* request.
SwapIsWhatWasAgreed ==
    [][\A m \in Member :
          /\ member[m].character \notin {NoCharacter, member'[m].character}
          /\ member'[m].status = "ACTIVE"
          => \E n \in Member : AsRequested(m, n) \/ AsRequested(n, m)]_vars
=============================================================================
