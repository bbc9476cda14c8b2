---------------------------- MODULE RoomRequests ----------------------------
(***************************************************************************)
(* The request commands of PrismaGameService: a player files a request     *)
(* (createRequest, requestBankPayment), the buyer of a trade confirms it,  *)
(* and the bank approves or rejects it.  A request about a property locks  *)
(* the property until it is settled.                                       *)
(***************************************************************************)
EXTENDS RoomState

-----------------------------------------------------------------------------
(* Filing: createRequest() *)

\* the checks common to every type
MayFile(p, r) ==
    /\ status = "PLAYING"
    /\ p \in playable
    /\ request[r].status = "NONE"

File(r, row) ==
    /\ request' = [request EXCEPT ![r] = row]
    /\ UNCHANGED <<roomVars, turnVars, moneyVars, landing, settled>>

NewRequest(type, p, amount) ==
    [NoRequest EXCEPT !.type = type, !.status = "PENDING", !.actor = p,
                      !.amount = amount]

\* a property request: in an electronic room only in one's own turn, and the
\* property must be free; filing locks it and leaves its version alone
MayFileForLocked(p, o, r) ==
    /\ MayFile(p, r)
    /\ DiceMode = "ELECTRONIC" => current = p
MayFileFor(p, o, r) ==
    /\ MayFile(p, r)
    /\ DiceMode = "ELECTRONIC" => current = p
    /\ prop[o].lock = Nil

FileFor(o, r, row) ==
    /\ prop' = [prop EXCEPT ![o].lock = r]
    /\ File(r, [row EXCEPT !.prop = o, !.mortgaged = prop[o].mortgaged])

\* LANDING_ACTION_ALREADY_USED
LandingUsedUnlessReversed(l) ==
    \E r \in RequestId : /\ request[r].landing = l
                         /\ request[r].type \in LandingRequest
                         /\ request[r].status \in {"PENDING", "EXECUTED"}
LandingUsed(l) ==
    \E r \in RequestId : /\ request[r].landing = l
                         /\ request[r].type \in LandingRequest
                         /\ request[r].status \in {"PENDING", "EXECUTED", "REVERSED"}

\* the landing a purchase or an upgrade is based on, with its turn (0: physical)
ActionLanding(l, n, p, o) ==
    /\ IF DiceMode = "ELECTRONIC" THEN OnTurn(n, p) ELSE n = 0
    /\ Usable(l, p, o)
    /\ landing[l].turn = n
    /\ ~LandingUsed(l)

RequestBuy(p, o, r) ==
    /\ MayFileFor(p, o, r)
    /\ prop[o].owner = Nil
    /\ balance[p] >= Price[o].purchase
    /\ \E l \in LandingId : \E n \in 0 .. Len(turn) :
         /\ ActionLanding(l, n, p, o)
         /\ FileFor(o, r, [NewRequest("BUY_PROPERTY", p, Price[o].purchase)
                             EXCEPT !.landing = l, !.turn = n])

BuildPrice(p, o) ==
    AtLeastZero(Price[o].build - SkillBonus(p, "BUILD_DISCOUNT", SkillConfig.discount))

RequestBuild(p, o, r) ==
    /\ MayFileFor(p, o, r)
    /\ prop[o].owner = p
    /\ ~prop[o].mortgaged
    /\ prop[o].level < 5
    /\ balance[p] >= BuildPrice(p, o)
    /\ \E l \in LandingId : \E n \in 0 .. Len(turn) :
         /\ ActionLanding(l, n, p, o)
         /\ FileFor(o, r, [NewRequest("BUILD_PROPERTY", p, BuildPrice(p, o))
                             EXCEPT !.landing = l, !.turn = n])

\* a palace (level 5) is sold whole
RequestSellBuilding(p, o, n, r) ==
    /\ MayFileFor(p, o, r)
    /\ prop[o].owner = p
    /\ n \in 1 .. prop[o].level
    /\ prop[o].level = 5 => n = 5
    /\ FileFor(o, r, [NewRequest("SELL_BUILDING", p, n * Price[o].sell)
                        EXCEPT !.count = n])

RequestMortgage(p, o, r) ==
    /\ MayFileFor(p, o, r)
    /\ prop[o].owner = p
    /\ prop[o].level = 0
    /\ ~prop[o].mortgaged
    /\ FileFor(o, r, NewRequest("MORTGAGE_PROPERTY", p, Price[o].mortgage))

RequestRedeem(p, o, r) ==
    LET cost == Price[o].mortgage + RedemptionFee IN
    /\ MayFileFor(p, o, r)
    /\ prop[o].owner = p
    /\ prop[o].mortgaged
    /\ balance[p] >= cost
    /\ FileFor(o, r, NewRequest("REDEEM_PROPERTY", p, cost))

\* calculatePropertyBankSaleAmount
BankSaleAmount(o, mortgaged) ==
    AtLeastZero(IF mortgaged
                  THEN Price[o].purchase - Price[o].mortgage - RedemptionFee
                  ELSE Price[o].purchase)

RequestSellToBank(p, o, r) ==
    /\ MayFileFor(p, o, r)
    /\ prop[o].owner = p
    /\ prop[o].level = 0
    /\ FileFor(o, r, NewRequest("SELL_PROPERTY_TO_BANK", p,
                                BankSaleAmount(o, prop[o].mortgaged)))

RequestTrade(p, o, buyer, a, r) ==
    /\ MayFileFor(p, o, r)
    /\ buyer \in playable \ {p}
    /\ prop[o].owner = p
    /\ prop[o].level = 0
    /\ ~prop[o].mortgaged
    /\ balance[buyer] >= a
    /\ FileFor(o, r, [NewRequest("TRADE_PROPERTY", p, a) EXCEPT !.target = buyer])

\* a START_REWARD refiled for a START landing whose first one was settled away
RequestStartReward(p, l, r) ==
    /\ MayFile(p, r)
    /\ landing[l].player = p
    /\ landing[l].space = Nil
    /\ landing[l].status = "CONFIRMED"
    /\ DiceMode = "ELECTRONIC" => OnTurn(landing[l].turn, p)
    /\ ~LandingUsed(l)
    /\ File(r, [NewRequest("START_REWARD", p, StartReward)
                  EXCEPT !.landing = l, !.turn = landing[l].turn])
    /\ UNCHANGED prop

\* the card events and skip requests carry a positive count and no amount
RequestCount(p, type, n, r) ==
    /\ type \in {"COLD_PALACE_EVENT", "PLOT_REST_EVENT", "CONSUME_SKIP_TURNS"}
    /\ MayFile(p, r)
    /\ n > 0
    /\ type = "CONSUME_SKIP_TURNS" => n <= owed[p]
    /\ File(r, [NewRequest(type, p, 0) EXCEPT !.count = n])
    /\ UNCHANGED prop

RequestCompanion(p, r) ==
    /\ MayFile(p, r)
    /\ File(r, NewRequest("COMPANION_EVENT", p, 0))
    /\ UNCHANGED prop

RequestReturnCompanion(p, r) ==
    /\ MayFile(p, r)
    /\ File(r, [NewRequest("RETURN_COMPANION_EVENT", p, ReturnCompanionReward)
                  EXCEPT !.count = 1])
    /\ UNCHANGED prop

RequestBankPayment(p, a, r) ==
    /\ MayFile(p, r)
    /\ File(r, [NewRequest("BANK_PAYMENT", p, a) EXCEPT !.target = p])
    /\ UNCHANGED prop

-----------------------------------------------------------------------------
(* Settling *)

\* requireRequestParticipants
ParticipantsPlayable(r) ==
    {request[r].actor, request[r].target} \subseteq playable \cup {Nil}

\* confirmTrade(): done by the buyer; a second confirmation changes nothing
ConfirmTrade(r) ==
    /\ status = "PLAYING"
    /\ request[r].type = "TRADE_PROPERTY"
    /\ request[r].status = "PENDING"
    /\ ParticipantsPlayable(r)
    /\ ~request[r].confirmed
    /\ request' = [request EXCEPT ![r].confirmed = TRUE]
    /\ UNCHANGED <<roomVars, turnVars, moneyVars, prop, landing, settled>>

Reject(r) ==
    /\ status = "PLAYING"
    /\ request[r].status = "PENDING"
    /\ request' = [request EXCEPT ![r].status = "REJECTED"]
    /\ prop' = Unlocked({r})
    /\ UNCHANGED <<roomVars, turnVars, moneyVars, landing, settled>>

MayApprove(r, type) ==
    /\ status = "PLAYING"
    /\ request[r].type = type
    /\ request[r].status = "PENDING"
    /\ ParticipantsPlayable(r)

\* the transaction an approval commits and the request it executes
Execute(r, tx) ==
    /\ Commit([tx EXCEPT !.request = r])
    /\ request' = [request EXCEPT ![r].status = "EXECUTED"]
    /\ UNCHANGED <<roomVars, landing, settled>>

FaceOf(d) == [owner |-> d.owner, level |-> d.level, mortgaged |-> d.mortgaged,
              version |-> d.version]

\* approval of a property request: `deed` is what the row becomes and `after`
\* what the transaction records as propertyAfter (apart from the version)
ExecuteDeed(r, delta, deed, after) ==
    LET q == request[r]
        d == prop[q.prop]
    IN  /\ d.lock = r
        /\ d.version < MaxVersion
        /\ prop' = [prop EXCEPT ![q.prop] =
                      [deed EXCEPT !.lock = Nil, !.version = d.version + 1]]
        /\ Execute(r, [Transaction(q.type, delta)
                         EXCEPT !.prop = q.prop, !.before = FaceOf(d),
                                !.after = [after EXCEPT !.version = d.version + 1]])
        /\ UNCHANGED turnVars

After(owner, level, mortgaged) ==
    [owner |-> owner, level |-> level, mortgaged |-> mortgaged, version |-> 0]

\* the turn and the landing of a purchase or upgrade are still good
StillOnLanding(r) ==
    LET q == request[r]
        l == q.landing
    IN  /\ DiceMode = "ELECTRONIC" => OnTurn(q.turn, q.actor)
        /\ landing[l].player = q.actor
        /\ landing[l].space = q.prop
        /\ \/ landing[l].status = "CONFIRMED"
           \/ DiceMode = "PHYSICAL" /\ landing[l].status = "CLOSED"
        /\ landing[l].resolved
        /\ ~landing[l].cancelled
        /\ landing[l].turn = IF DiceMode = "ELECTRONIC" THEN q.turn ELSE 0

ApproveBuy(r) ==
    LET q == request[r]
        d == prop[q.prop]
    IN  /\ MayApprove(r, "BUY_PROPERTY")
        /\ StillOnLanding(r)
        /\ d.owner = Nil
        /\ ExecuteDeed(r, Flow(q.actor, Nil, q.amount),
                       [d EXCEPT !.owner = q.actor],
                       After(q.actor, d.level, FALSE))

ApproveBuild(r) ==
    LET q == request[r]
        d == prop[q.prop]
    IN  /\ MayApprove(r, "BUILD_PROPERTY")
        /\ StillOnLanding(r)
        /\ d.owner = q.actor /\ ~d.mortgaged /\ d.level < 5
        /\ ExecuteDeed(r, Flow(q.actor, Nil, q.amount),
                       [d EXCEPT !.level = @ + 1],
                       After(q.actor, d.level + 1, FALSE))

ApproveSellBuilding(r) ==
    LET q == request[r]
        d == prop[q.prop]
        left == IF d.level = 5 THEN 0 ELSE d.level - q.count
    IN  /\ MayApprove(r, "SELL_BUILDING")
        /\ d.owner = q.actor /\ left >= 0
        /\ ExecuteDeed(r, Flow(Nil, q.actor, q.amount),
                       [d EXCEPT !.level = left],
                       After(q.actor, left, d.mortgaged))

ApproveMortgage(r) ==
    LET q == request[r]
        d == prop[q.prop]
    IN  /\ MayApprove(r, "MORTGAGE_PROPERTY")
        /\ d.owner = q.actor /\ d.level = 0 /\ ~d.mortgaged
        /\ ExecuteDeed(r, Flow(Nil, q.actor, q.amount),
                       [d EXCEPT !.mortgaged = TRUE],
                       After(q.actor, 0, TRUE))

ApproveRedeem(r) ==
    LET q == request[r]
        d == prop[q.prop]
    IN  /\ MayApprove(r, "REDEEM_PROPERTY")
        /\ d.owner = q.actor /\ d.mortgaged
        /\ ExecuteDeed(r, Flow(q.actor, Nil, q.amount),
                       [d EXCEPT !.mortgaged = FALSE],
                       After(q.actor, 0, FALSE))

ApproveSellToBank(r) ==
    LET q == request[r]
        d == prop[q.prop]
    IN  /\ MayApprove(r, "SELL_PROPERTY_TO_BANK")
        /\ d.owner = q.actor /\ d.level = 0 /\ d.mortgaged = q.mortgaged
        /\ ExecuteDeed(r, Flow(Nil, q.actor, q.amount),
                       [d EXCEPT !.owner = Nil, !.mortgaged = FALSE],
                       After(Nil, 0, FALSE))

ApproveTrade(r) ==
    LET q == request[r]
        d == prop[q.prop]
    IN  /\ MayApprove(r, "TRADE_PROPERTY")
        /\ q.confirmed
        /\ d.owner = q.actor /\ d.level = 0 /\ ~d.mortgaged
        /\ ExecuteDeed(r, Flow(q.target, q.actor, q.amount),
                       [d EXCEPT !.owner = q.target],
                       After(q.target, 0, FALSE))

-----------------------------------------------------------------------------
(* Approval of requests that touch no property *)

ExecuteCash(r, tx) ==
    /\ Execute(r, tx)
    /\ UNCHANGED <<turnVars, prop>>

ApproveStartReward(r) ==
    LET q == request[r] IN
    /\ MayApprove(r, "START_REWARD")
    /\ DiceMode = "ELECTRONIC" =>
         /\ OnTurn(q.turn, q.actor)
         /\ landing[q.landing].turn = q.turn
         /\ landing[q.landing].status = "CONFIRMED"
    /\ ExecuteCash(r, Transaction("START_REWARD", Flow(Nil, q.actor, q.amount)))

ApproveBankPayment(r) ==
    LET q == request[r] IN
    /\ MayApprove(r, "BANK_PAYMENT")
    /\ ExecuteCash(r, Transaction("BANK_PAYMENT", Flow(Nil, q.target, q.amount)))

\* the kind of a transfer's transaction; a Nil target is the bank
TransferType(target, fine) ==
    CASE fine -> "PLOT_FINE"
      [] ~fine /\ target = Nil -> "PLAYER_BANK_PAYMENT"
      [] OTHER -> "PLAYER_TRANSFER"

\* the charge is computed again from the original amount
ApproveTransfer(r) ==
    LET q == request[r] IN
    /\ MayApprove(r, "PLAYER_TRANSFER")
    /\ q.original > 0 /\ q.target # q.actor
    /\ ExecuteCash(r, Transaction(TransferType(q.target, q.fine),
                                  Flow(q.actor, q.target,
                                       ActualAmount(q.actor, q.original, q.fine))))

\* card events are never reversible
ApproveCompanion(r) ==
    LET q == request[r] IN
    /\ MayApprove(r, "COMPANION_EVENT")
    /\ ExecuteCash(r, [Transaction("COMPANION_EVENT",
                         Flow(Nil, q.actor, SkillBonus(q.actor, "COMPANION_REWARD",
                                                       SkillConfig.companionReward)))
                         EXCEPT !.reversible = FALSE])

ApproveReturnCompanion(r) ==
    LET q == request[r] IN
    /\ MayApprove(r, "RETURN_COMPANION_EVENT")
    /\ q.amount = ReturnCompanionReward /\ q.count = 1
    /\ ExecuteCash(r, [Transaction("RETURN_COMPANION_EVENT",
                                   Flow(Nil, q.actor, ReturnCompanionReward))
                         EXCEPT !.reversible = FALSE])

\* the turns a stay of n really costs, and the cash it brings
PalaceTurns(p, n) ==
    AtLeastZero(n - SkillBonus(p, "COLD_PALACE_RELIEF", SkillConfig.skipTurnsReduction))
PalaceReward(p) == SkillBonus(p, "COLD_PALACE_RELIEF", SkillConfig.palaceReward)

ApproveColdPalace(r) ==
    LET q == request[r] IN
    /\ MayApprove(r, "COLD_PALACE_EVENT")
    /\ Owe(q.actor, PalaceTurns(q.actor, q.count), TRUE)
    /\ Execute(r, [Transaction("COLD_PALACE_EVENT",
                               Flow(Nil, q.actor, PalaceReward(q.actor)))
                     EXCEPT !.reversible = FALSE])
    /\ UNCHANGED <<current, turn, prop>>

ApprovePlotRest(r) ==
    LET q == request[r] IN
    /\ MayApprove(r, "PLOT_REST_EVENT")
    /\ Owe(q.actor, q.count, FALSE)
    /\ Execute(r, Transaction("PLOT_REST_EVENT", NoDelta))
    /\ UNCHANGED <<current, turn, prop>>

ApproveConsumeSkips(r) ==
    LET q == request[r] IN
    /\ MayApprove(r, "CONSUME_SKIP_TURNS")
    /\ Consume(q.actor, q.count)
    /\ Execute(r, Transaction("CONSUME_SKIP_TURNS", NoDelta))
    /\ UNCHANGED <<current, turn, prop>>

Approve(r) ==
    \/ ApproveBuy(r)
    \/ ApproveBuild(r)
    \/ ApproveSellBuilding(r)
    \/ ApproveMortgage(r)
    \/ ApproveRedeem(r)
    \/ ApproveSellToBank(r)
    \/ ApproveTrade(r)
    \/ ApproveStartReward(r)
    \/ ApproveBankPayment(r)
    \/ ApproveTransfer(r)
    \/ ApproveCompanion(r)
    \/ ApproveReturnCompanion(r)
    \/ ApproveColdPalace(r)
    \/ ApprovePlotRest(r)
    \/ ApproveConsumeSkips(r)
=============================================================================
