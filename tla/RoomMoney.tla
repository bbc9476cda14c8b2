----------------------------- MODULE RoomMoney -----------------------------
(***************************************************************************)
(* The money commands of PrismaGameService: transfers, tolls, the bank's   *)
(* direct adjustments, skip turns the bank hands out or takes back, and    *)
(* the reversal of the latest transaction that can still be reversed.      *)
(***************************************************************************)
EXTENDS RoomRequests

-----------------------------------------------------------------------------
(* Transfers.  A Nil receiver is the bank. *)

MayTransfer(from, to, a) ==
    /\ status = "PLAYING"
    /\ from \in playable
    /\ to \in (playable \ {from}) \cup {Nil}
    /\ a > 0

\* transfer() in a room that needs no approval
TransferNow(from, to, a, fine) ==
    /\ MayTransfer(from, to, a)
    /\ ~approval
    /\ Commit(Transaction(TransferType(to, fine),
                          Flow(from, to, ActualAmount(from, a, fine))))
    /\ UNCHANGED <<roomVars, turnVars, prop, landing, request, settled>>

\* transfer() in a room that needs approval; the balance is not checked yet
RequestTransfer(from, to, a, fine, r) ==
    /\ MayTransfer(from, to, a)
    /\ approval
    /\ request[r].status = "NONE"
    /\ File(r, [NewRequest("PLAYER_TRANSFER", from, ActualAmount(from, a, fine))
                  EXCEPT !.target = to, !.original = a, !.fine = fine])
    /\ UNCHANGED prop

\* updateAdminRoom(): the administrator may flip the mode during the game
SetApprovalMode ==
    /\ status # "FINISHED"
    /\ approval' = ~approval
    /\ UNCHANGED <<status, playable, turnVars, moneyVars, prop, landing, request,
                   settled>>

-----------------------------------------------------------------------------
(* Tolls *)

TollAmount(o) ==
    Price[o].toll[prop[o].level]
      + SkillBonus(prop[o].owner, "TOLL_BONUS", SkillConfig.bonus)

\* TOLL_ALREADY_SETTLED unless the recorded toll was reversed
AnySettlement(l) == TRUE
TollOpen(l) == settled[l] # 0 => log[settled[l]].status = "REVERSED"

\* payToll(): at most one toll in force per landing; a reversed one is paid again
PayToll(p, o) ==
    LET owner == prop[o].owner IN
    /\ status = "PLAYING"
    /\ p \in playable
    /\ DiceMode = "ELECTRONIC" => current = p
    /\ owner \in playable \ {p}
    /\ ~prop[o].mortgaged
    /\ \E l \in LandingId :
         /\ Usable(l, p, o)
         /\ IF DiceMode = "ELECTRONIC"
              THEN /\ landing[l].turn \in ActiveTurns
                   /\ turn[landing[l].turn].player = p
              ELSE landing[l].turn = 0
         /\ TollOpen(l)
         /\ ~CollectionBlocked(owner)
         /\ Commit([Transaction("TOLL", Flow(p, owner, TollAmount(o)))
                      EXCEPT !.landing = l])
         /\ settled' = [settled EXCEPT ![l] = Len(log) + 1]
    /\ UNCHANGED <<roomVars, turnVars, prop, landing, request>>

-----------------------------------------------------------------------------
(* The bank's own changes *)

AdjustBalance(p, a) ==
    /\ status = "PLAYING"
    /\ p \in playable
    /\ a # 0
    /\ Commit(Transaction("MANUAL_BALANCE_CHANGE", Flow(Nil, p, a)))
    /\ UNCHANGED <<roomVars, turnVars, prop, landing, request, settled>>

PlotFine(p, a) ==
    /\ status = "PLAYING"
    /\ p \in playable
    /\ a > 0
    /\ Commit(Transaction("PLOT_FINE", Flow(p, Nil, ActualAmount(p, a, TRUE))))
    /\ UNCHANGED <<roomVars, turnVars, prop, landing, request, settled>>

\* the patched deed must be one the checks of adjustProperty() accept
OwnedOrEmpty(owner, level, mortgaged) == owner = Nil => level = 0 /\ ~mortgaged
AcceptedDeed(owner, level, mortgaged) ==
    /\ owner = Nil => level = 0 /\ ~mortgaged
    /\ mortgaged => level = 0

\* adjustProperty(): leaves an audit entry but no transaction
AdjustProperty(o, owner, level, mortgaged) ==
    /\ status = "PLAYING"
    /\ prop[o].lock = Nil
    /\ {prop[o].owner, owner} \subseteq playable \cup {Nil}
    /\ AcceptedDeed(owner, level, mortgaged)
    /\ prop[o].version < MaxVersion
    /\ prop' = [prop EXCEPT ![o] = [owner |-> owner, level |-> level,
                                    mortgaged |-> mortgaged, lock |-> Nil,
                                    version |-> @.version + 1]]
    /\ UNCHANGED <<roomVars, turnVars, moneyVars, landing, request, settled>>

\* addSkipTurns(): only a stay in the cold palace blocks tolls, and only the
\* skilled character is paid for it
AddSkipTurns(p, n, palace) ==
    /\ status = "PLAYING"
    /\ p \in playable
    /\ n > 0
    /\ Owe(p, IF palace THEN PalaceTurns(p, n) ELSE n, palace)
    /\ IF palace /\ PalaceReward(p) > 0
         THEN Commit(Transaction("COLD_PALACE_EVENT", Flow(Nil, p, PalaceReward(p))))
         ELSE UNCHANGED moneyVars
    /\ UNCHANGED <<roomVars, current, turn, prop, landing, request, settled>>

ConsumeSkip(p, n) ==
    /\ status = "PLAYING"
    /\ p \in playable
    /\ Consume(p, n)
    /\ UNCHANGED <<roomVars, current, turn, moneyVars, prop, landing, request,
                   settled>>

-----------------------------------------------------------------------------
(* Reversal *)

\* the property still is what transaction t made of it
StillAsLeftOrLocked(t) == t.prop # Nil => FaceOf(prop[t.prop]) = t.after
StillAsLeft(t) ==
    t.prop # Nil => prop[t.prop].lock = Nil /\ FaceOf(prop[t.prop]) = t.after

\* a toll is given back only while its landing is current
TollOfLandingOpen(t) ==
    t.type = "TOLL" => landing[t.landing].status = "CONFIRMED"
TollOfTurnOpen(t) ==
    t.type = "TOLL" =>
        LET l == landing[t.landing] IN
        l.turn # 0 => turn[l.turn].status = "ACTIVE"
TollStillOpen(t) ==
    t.type = "TOLL" =>
        LET l == landing[t.landing] IN
        /\ l.status = "CONFIRMED"
        /\ ~l.cancelled
        /\ l.turn # 0 => turn[l.turn].status = "ACTIVE"

Negated(delta) == [p \in Player |-> -delta[p]]

UndoableAgain(i) ==
    /\ log[i].reversible
    /\ Affordable(Negated(log[i].delta))
    /\ TollStillOpen(log[i])
    /\ StillAsLeft(log[i])
Undoable(i) ==
    /\ log[i].status = "COMMITTED"
    /\ log[i].reversible
    /\ Affordable(Negated(log[i].delta))
    /\ TollStillOpen(log[i])
    /\ StillAsLeft(log[i])

RestoredVersion(d, face) ==
    [d EXCEPT !.owner = face.owner, !.level = face.level,
              !.mortgaged = face.mortgaged, !.version = face.version]
Restored(d, face) ==
    [d EXCEPT !.owner = face.owner, !.level = face.level,
              !.mortgaged = face.mortgaged, !.version = @ + 1]

\* the request the transaction executed is marked as well
RequestReversed(t) ==
    IF t.request = Nil THEN request
    ELSE [request EXCEPT ![t.request].status = "REVERSED"]

\* reverseLatest() of the candidate findReversalCandidate() returns: the
\* newest transaction that can be undone now, not the newest of all
ReverseLatest ==
    /\ status = "PLAYING"
    /\ Len(log) < MaxLog
    /\ \E i \in DOMAIN log :
         LET t == log[i] IN
         /\ Undoable(i)
         /\ \A j \in DOMAIN log : j > i => ~Undoable(j)
         /\ ApplyToBalances(Negated(t.delta))
         /\ log' = Append([log EXCEPT ![i].status = "REVERSED"],
                          [Transaction("REVERSAL", Negated(t.delta))
                             EXCEPT !.reversible = FALSE, !.undoes = i])
         /\ prop' = IF t.prop = Nil THEN prop
                    ELSE [prop EXCEPT ![t.prop] = Restored(@, t.before)]
         /\ request' = RequestReversed(t)
    /\ UNCHANGED <<roomVars, turnVars, landing, settled>>
=============================================================================
